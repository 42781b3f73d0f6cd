---------------------------- MODULE SourceProofs ----------------------------
(***************************************************************************)
(* TaskGraph: proofs about the slots that wait for events, for all values  *)
(* of the constants: no two of them get the same payload of a channel, and *)
(* what they wait for is there.                                            *)
(***************************************************************************)
EXTENDS TaskGraphProofs

-----------------------------------------------------------------------------
(* Claims on channels                                                      *)

\* A slot that waits for a channel is one of those counted for it.
TurnOK(x) ==
    IsClaim(x) =>
        /\ event[x[1]].type # "absent"
        /\ event[x[1]].type = "channel" => x[2] <= event[x[1]].base + event[x[1]].dependents

OnChannel(x) == IsClaim(x) /\ event[x[1]].type = "channel"

\* No two positions wait for the same payload of a channel; nor does a label, which
\* is used again, stand for a channel.
ChannelsOK ==
    /\ \A t \in Tasks : \A p \in DOMAIN task[t].wanted : TurnOK(task[t].wanted[p])
    /\ \A t, u \in Tasks : \A p \in DOMAIN task[t].wanted : \A q \in DOMAIN task[u].wanted :
         task[t].wanted[p] = task[u].wanted[q] /\ OnChannel(task[t].wanted[p])
             => t = u /\ p = q
    /\ \A e \in Labels : event[e].type # "channel"

\* An event that exists is not made anew as a channel.
Tracks(e) ==
    /\ event[e].type # "absent" => event'[e].type # "absent"
    /\ event'[e].type = "channel" =>
         /\ e \notin Labels
         /\ event[e].type # "absent" =>
              /\ event[e].type = "channel"
              /\ event'[e].base = event[e].base
              /\ event[e].dependents <= event'[e].dependents

\* The program gives t the sources given, and nothing to others.
Gives(t, given) ==
    /\ \A u \in Tasks \ {t} : task'[u].wanted = task[u].wanted
    /\ \A p \in DOMAIN task'[t].wanted :
         \/ p \in DOMAIN given /\ task'[t].wanted[p] = given[p]
         \/ p \in DOMAIN task[t].wanted /\ task'[t].wanted[p] = task[t].wanted[p]

\* A claim that was in order stays so, and an event that was no channel does not
\* become the one it waits for.
LEMMA OldClaims ==
    ASSUME Core, Core', \A e \in EventIds : Tracks(e),
           NEW x \in Handles \cup Claims, TurnOK(x)
    PROVE  /\ TurnOK(x)'
           /\ OnChannel(x)' => OnChannel(x)
<1> SUFFICES ASSUME IsClaim(x)
             PROVE  /\ TurnOK(x)'
                    /\ OnChannel(x)' => OnChannel(x)
    BY DEF TurnOK, OnChannel, IsClaim
<1>1. x[1] \in EventIds /\ x[2] \in Nat
    BY DistinctGuids
<1> DEFINE e == x[1]
<1>2. event[e].type # "absent" /\ (event[e].type = "channel" => x[2] <= event[e].base + event[e].dependents)
    BY DEF TurnOK
<1>3. event[e].base \in Nat /\ event[e].dependents \in Nat
    BY <1>1, EventFields DEF Core, TypeInv
<1>4. event'[e].base \in Nat /\ event'[e].dependents \in Nat
    BY <1>1, EventFields DEF Core, TypeInv
<1>5. Tracks(e)
    BY <1>1
<1>6. event'[e].type # "absent"
    BY <1>2, <1>5 DEF Tracks
<1>7. event'[e].type = "channel" =>
        /\ event[e].type = "channel" /\ event'[e].base = event[e].base
        /\ event[e].dependents <= event'[e].dependents
    BY <1>2, <1>5 DEF Tracks
<1>8. event'[e].type = "channel" => x[2] <= event'[e].base + event'[e].dependents
    BY <1>1, <1>2, <1>3, <1>4, <1>7
<1>9. TurnOK(x)'
    BY <1>6, <1>8 DEF TurnOK
<1>10. QED
    BY <1>7, <1>9 DEF OnChannel, IsClaim

\* A source that is given now is on a payload nobody has waited for.
LEMMA NewClaims ==
    ASSUME Core, Core', \A e \in EventIds : Tracks(e),
           NEW T, NEW x \in SourcesOf(T),
           Counts(x) => event[x[1]].dependents < event'[x[1]].dependents
    PROVE  /\ TurnOK(x)'
           /\ OnChannel(x)' =>
                /\ Counts(x)
                /\ \A y \in Handles \cup Claims : TurnOK(y) => x # y
<1> SUFFICES ASSUME IsClaim(x)
             PROVE  /\ TurnOK(x)'
                    /\ OnChannel(x)' =>
                         /\ Counts(x)
                         /\ \A y \in Handles \cup Claims : TurnOK(y) => x # y
    BY DEF TurnOK, OnChannel, IsClaim
<1>1. PICK e \in EventIds : x = Claim(e) /\ MayDependOn(e)
    BY SourceDelivers
<1>2. x[1] = e /\ x \in Claims /\ x[2] \in Nat
      /\ (event[e].type = "channel" => x[2] = event[e].base + 1 + event[e].dependents)
    BY <1>1, ClaimFacts, DistinctGuids
<1>3. event[e].type # "absent"
    BY <1>1, AwaitFacts DEF Exists
<1>4. event[e].base \in Nat /\ event[e].dependents \in Nat
    BY EventFields DEF Core, TypeInv
<1>5. event'[e].base \in Nat /\ event'[e].dependents \in Nat
    BY EventFields DEF Core, TypeInv
<1>6. Tracks(e)
    OBVIOUS
<1>7. event'[e].type # "absent"
    BY <1>3, <1>6 DEF Tracks
<1>8. ASSUME event'[e].type = "channel"
      PROVE  /\ event[e].type = "channel" /\ event'[e].base = event[e].base
             /\ Counts(x) /\ x[2] <= event'[e].base + event'[e].dependents
    <2>1. event[e].type = "channel" /\ event'[e].base = event[e].base
        BY <1>3, <1>6, <1>8 DEF Tracks
    <2>2. Counts(x)
        BY <1>2, <2>1 DEF Counts
    <2>3. event[e].dependents < event'[e].dependents
        BY <1>2, <2>2
    <2>4. QED
        BY <1>2, <1>4, <1>5, <2>1, <2>2, <2>3
<1>9. TurnOK(x)'
    BY <1>2, <1>7, <1>8 DEF TurnOK
<1>10. ASSUME OnChannel(x)', NEW y \in Handles \cup Claims, TurnOK(y)
       PROVE  x # y
    <2>1. event[e].type = "channel"
        BY <1>2, <1>8, <1>10 DEF OnChannel
    <2>2. x = y => x[2] <= event[e].base + event[e].dependents
        BY <1>2, <1>10, <2>1 DEF TurnOK
    <2>3. QED
        BY <1>2, <1>4, <2>1, <2>2
<1>11. QED
    BY <1>2, <1>8, <1>9, <1>10 DEF OnChannel

\* New claims on a channel are counted after all the old ones, so they wait for
\* other payloads.
LEMMA GivesKeeps ==
    ASSUME Core, Core', ChannelsOK, \A e \in EventIds : Tracks(e),
           NEW t \in Tasks, NEW f, NEW given, GivenOK(f, given), Counted(given), Gives(t, given)
    PROVE  ChannelsOK'
<1> DEFINE Old(u, p) == /\ p \in DOMAIN task[u].wanted
                        /\ task'[u].wanted[p] = task[u].wanted[p]
           New(u, p) == /\ u = t /\ p \in DOMAIN given
                        /\ task'[u].wanted[p] = given[p]
<1>1. \A u \in Tasks : \A p \in DOMAIN task'[u].wanted : Old(u, p) \/ New(u, p)
    BY DEF Gives
<1>2. \A u \in Tasks : \A p \in DOMAIN task[u].wanted :
        task[u].wanted[p] \in Handles \cup Claims /\ TurnOK(task[u].wanted[p])
    BY TaskFields DEF Core, TypeInv, ChannelsOK
<1>3. ASSUME NEW u \in Tasks, NEW p \in DOMAIN task'[u].wanted, Old(u, p),
             NEW x, x = task'[u].wanted[p]
      PROVE  /\ x = task[u].wanted[p] /\ x \in Handles \cup Claims /\ TurnOK(x)
             /\ TurnOK(x)' /\ (OnChannel(x)' => OnChannel(x))
    <2>1. x = task[u].wanted[p]
        BY <1>3
    <2>2. x \in Handles \cup Claims /\ TurnOK(x)
        BY <1>2, <1>3, <2>1
    <2>3. TurnOK(x)' /\ (OnChannel(x)' => OnChannel(x))
        BY <2>2, OldClaims
    <2>4. QED
        BY <2>1, <2>2, <2>3
<1>4. ASSUME NEW u \in Tasks, NEW p \in DOMAIN task'[u].wanted, New(u, p),
             NEW x, x = task'[u].wanted[p]
      PROVE  /\ x = given[p] /\ TurnOK(x)'
             /\ OnChannel(x)' => /\ Counts(x)
                                 /\ \A y \in Handles \cup Claims : TurnOK(y) => x # y
    <2>1. x = given[p] /\ p \in DOMAIN given
        BY <1>4
    <2>2. /\ x \in SourcesOf(TypeOfPosition(f, p))
          /\ Counts(x) => event[x[1]].dependents < event'[x[1]].dependents
        BY <2>1 DEF GivenOK, Counted
    <2>3. /\ TurnOK(x)'
          /\ OnChannel(x)' => /\ Counts(x)
                              /\ \A y \in Handles \cup Claims : TurnOK(y) => x # y
        BY <2>2, NewClaims
    <2>4. QED
        BY <2>1, <2>3
<1>5. ASSUME NEW u \in Tasks, NEW p \in DOMAIN task'[u].wanted
      PROVE  TurnOK(task[u].wanted[p])'
    <2>1. PICK x : x = task'[u].wanted[p]
        OBVIOUS
    <2>2. TurnOK(x)'
        BY <1>1, <1>3, <1>4, <2>1
    <2>3. QED
        BY <2>1, <2>2 DEF TurnOK, IsClaim
<1>6. ASSUME NEW u \in Tasks, NEW v \in Tasks,
             NEW p \in DOMAIN task'[u].wanted, NEW q \in DOMAIN task'[v].wanted,
             task'[u].wanted[p] = task'[v].wanted[q], OnChannel(task[u].wanted[p])'
      PROVE  u = v /\ p = q
    <2>1. PICK x : x = task'[u].wanted[p]
        OBVIOUS
    <2>2. x = task'[v].wanted[q] /\ OnChannel(x)'
        BY <1>6, <2>1 DEF OnChannel, IsClaim
    <2>3. CASE Old(u, p) /\ Old(v, q)
        <3>1. OnChannel(x) /\ x = task[u].wanted[p] /\ x = task[v].wanted[q]
            BY <1>3, <2>1, <2>2, <2>3
        <3>2. QED
            <4>1. p \in DOMAIN task[u].wanted /\ q \in DOMAIN task[v].wanted
                BY <2>3
            <4>2. task[u].wanted[p] = task[v].wanted[q] /\ OnChannel(task[u].wanted[p])
                BY <3>1 DEF OnChannel, IsClaim
            <4>3. QED
                BY <4>1, <4>2 DEF ChannelsOK
    <2>4. CASE Old(u, p) /\ New(v, q)
        <3>1. x \in Handles \cup Claims /\ TurnOK(x)
            BY <1>3, <2>1, <2>4
        <3>2. QED
            BY <1>4, <2>2, <2>4, <3>1
    <2>5. CASE New(u, p) /\ Old(v, q)
        <3>1. x \in Handles \cup Claims /\ TurnOK(x)
            BY <1>3, <2>2, <2>5
        <3>2. QED
            BY <1>4, <2>1, <2>2, <2>5, <3>1
    <2>6. CASE New(u, p) /\ New(v, q)
        <3>1. Counts(given[p]) /\ given[p] = given[q]
            BY <1>4, <2>1, <2>2, <2>6
        <3>2. p = q
            BY <2>6, <3>1 DEF GivenOK
        <3>3. QED
            BY <2>6, <3>2
    <2>7. QED
        BY <1>1, <2>3, <2>4, <2>5, <2>6
<1>7. \A e \in Labels : event'[e].type # "channel"
    BY TaskGraphAssumption DEF Tracks
<1>8. QED
    BY <1>5, <1>6, <1>7 DEF ChannelsOK

\* A step in which no task is given a source.
LEMMA NothingGivenKeeps ==
    ASSUME Core, Core', ChannelsOK, \A e \in EventIds : Tracks(e),
           \A u \in Tasks : task'[u].wanted = task[u].wanted
    PROVE  ChannelsOK'
<1>1. PICK given : given = [p \in {} |-> NullGuid]
    OBVIOUS
<1>2. DOMAIN given = {}
    BY <1>1
<1>3. \A f : GivenOK(f, given)
    BY <1>2 DEF GivenOK
<1>4. Counted(given) /\ Gives(Main, given)
    BY <1>2, TaskGraphAssumption DEF Counted, Gives
<1>5. QED
    BY <1>3, <1>4, GivesKeeps, TaskGraphAssumption

\* Attaching a slot to a channel adds to its dependents.
LEMMA NotedTracks ==
    ASSUME Core, ChannelsOK, NEW e \in EventIds, Noted(event[e], event'[e])
    PROVE  Tracks(e)
<1>1. event[e] \in EventRecord
    BY DEF Core, TypeInv
<1>2. PICK new : new = event'[e]
    OBVIOUS
<1>3. /\ new.type = event[e].type /\ new.base = event[e].base
      /\ event[e].dependents <= new.dependents
    BY <1>1, <1>2, NotedFacts
<1>4. QED
    BY <1>2, <1>3 DEF Tracks, ChannelsOK

\* An event that goes on as it was is tracked.
LEMMA PersistsTracks ==
    ASSUME ChannelsOK, NEW e \in EventIds, Persists(event[e], event'[e])
    PROVE  Tracks(e)
BY DEF Tracks, ChannelsOK, Persists

\* The output event of a new task is no channel.
LEMMA MakingTracks ==
    ASSUME Core, ChannelsOK, NEW t \in Tasks, NEW r, Making(t, r), NEW e \in EventIds
    PROVE  Tracks(e)
<1>1. CASE e = r.out
    <2> DEFINE made == Created(Absent, "once", Sig[r.fn].returns, 0)
    <2>1. r.fn \in Fns
        BY DEF Making, SlotsOK
    <2>2. "once" \in Types /\ 0 \in Nat /\ Sig[r.fn].returns \in DataTypes \cup {Void}
        BY <2>1, TaskGraphAssumption DEF Types
    <2>3. made \in EventRecord /\ made.type = "once"
        BY SMTT(30), <2>2, AbsentTypes, CreatedFacts
    <2>4. PICK new : new = event'[e]
        OBVIOUS
    <2>5. Noted(made, new)
        BY <1>1, <2>4 DEF Making
    <2> HIDE DEF made
    <2>6. new.type = "once"
        BY <2>3, <2>5, NotedFacts
    <2>7. QED
        BY <2>4, <2>6 DEF Tracks
<1>2. CASE e # r.out
    <2>1. Noted(event[e], event'[e])
        BY <1>2 DEF Making
    <2>2. QED
        BY <2>1, NotedTracks
<1>3. QED
    BY <1>1, <1>2

\* A call about one event makes no event that exists into a channel.
LEMMA CallingTracks ==
    ASSUME Core, ChannelsOK, NEW e \in EventIds, Calling(e), NEW d \in EventIds
    PROVE  Tracks(d)
<1>1. CASE d # e
    BY <1>1, NotedTracks DEF Calling
<1>2. CASE d = e
    <2>1. PICK new : new = event'[e]
        OBVIOUS
    <2>2. CASE Gaining(event[e], new)
        BY <1>2, <2>1, <2>2, PersistsTracks DEF Gaining
    <2>3. CASE Renewing(e, new)
        <3>1. PICK type \in Types, data \in DataTypes, count \in Nat :
                /\ new = Created(event[e], type, data, count)
                /\ type = "channel" => e \notin Labels
            BY <2>3 DEF Renewing
        <3>2. event[e] \in EventRecord /\ data \in DataTypes \cup {Void}
            BY DEF Core, TypeInv
        <3>3. new.type = type
            BY <3>1, <3>2, CreatedFacts
        <3>4. type # "absent" /\ (e \in Labels \/ event[e].type = "absent")
            BY <2>3 DEF Types, Renewing
        <3>5. QED
            BY <1>2, <2>1, <3>1, <3>3, <3>4 DEF Tracks
    <2>4. CASE Destroying(e, new)
        <3>1. new.type = "destroyed"
            <4>1. event[e] \in EventRecord
                BY DEF Core, TypeInv
            <4>2. QED
                BY <2>4, <4>1 DEF Destroying, EventRecord
        <3>2. QED
            BY <1>2, <2>1, <3>1 DEF Tracks
    <2>5. QED
        BY <2>1, <2>2, <2>3, <2>4 DEF Calling
<1>3. QED
    BY <1>1, <1>2

\* Every step keeps the invariant of the channels.
LEMMA NextChannels ==
    ASSUME Core, ChannelsOK, [Next]_vars
    PROVE  ChannelsOK'
<1>1. Core' /\ Effect
    BY NextCore, StepFacts
<1>2. task \in [Tasks -> TaskRecord] /\ event \in [EventIds -> EventRecord]
      /\ event' \in [EventIds -> EventRecord]
    BY <1>1 DEF Core, TypeInv
<1>3. ASSUME NEW t \in Tasks, NEW r, Making(t, r) PROVE ChannelsOK'
    <2>1. GivenOK(r.fn, r.wanted) /\ Counted(r.wanted)
        BY <1>3 DEF Making
    <2>2. task'[t] = r /\ \A u \in Tasks \ {t} : task'[u] = task[u]
        BY <1>2, <1>3 DEF Making
    <2>3. Gives(t, r.wanted)
        BY <2>2 DEF Gives
    <2>4. QED
        BY <1>1, <1>3, <2>1, <2>3, GivesKeeps, MakingTracks
<1>4. ASSUME NEW t \in Tasks, NEW given, NEW r, Filling(t, given, r) PROVE ChannelsOK'
    <2>1. GivenOK(r.fn, given) /\ Counted(given) /\ r.wanted = Over(given, task[t].wanted)
        BY <1>4 DEF Filling
    <2>2. task'[t] = r /\ \A u \in Tasks \ {t} : task'[u] = task[u]
        BY <1>2, <1>4 DEF Filling
    <2>3. Gives(t, given)
        BY <2>1, <2>2 DEF Gives, Over
    <2>4. \A e \in EventIds : Tracks(e)
        BY <1>4, NotedTracks DEF Filling
    <2>5. QED
        BY <1>1, <2>1, <2>3, <2>4, GivesKeeps
<1>5. ASSUME \A e \in EventIds : event'[e] = event[e] \/ Persists(event[e], event'[e])
      PROVE  \A e \in EventIds : Tracks(e)
    <2>1. \A e \in EventIds : event[e].dependents \in Nat
        BY <1>2, EventFields
    <2>2. \A e \in EventIds : event'[e] = event[e] => Tracks(e)
        BY <2>1 DEF Tracks, ChannelsOK
    <2>3. QED
        BY <1>5, <2>2, PersistsTracks
<1>6. ASSUME NEW t \in Tasks, NEW r, task' = [task EXCEPT ![t] = r], r.wanted = task[t].wanted
      PROVE  \A u \in Tasks : task'[u].wanted = task[u].wanted
    BY <1>2, <1>6
<1>7. ASSUME NEW t \in Tasks, Dropping(t) PROVE ChannelsOK'
    <2>1. [task[t] EXCEPT !.phase = "destroyed"].wanted = task[t].wanted
        BY <1>2 DEF TaskRecord
    <2>2. \A u \in Tasks : task'[u].wanted = task[u].wanted
        BY <1>2, <1>7, <2>1 DEF Dropping
    <2>3. QED
        BY <1>1, <1>5, <1>7, <2>2, NothingGivenKeeps DEF Dropping
<1>8. ASSUME NEW t \in Tasks, NEW r, Starting(t, r) PROVE ChannelsOK'
    BY <1>1, <1>5, <1>6, <1>8, NothingGivenKeeps DEF Starting
<1>9. ASSUME NEW t \in Tasks, NEW r, Ending(t, r) PROVE ChannelsOK'
    <2>1. PICK h : r = [task[t] EXCEPT !.phase = "ended", !.result = h]
        BY <1>9 DEF Ending
    <2>2. r.wanted = task[t].wanted
        BY <1>2, <2>1 DEF TaskRecord
    <2>3. \A e \in EventIds : event'[e] = event[e] \/ Persists(event[e], event'[e])
        BY <1>9, TaskGraphAssumption DEF Ending
    <2>4. QED
        BY <1>1, <1>5, <1>6, <1>9, <2>2, <2>3, NothingGivenKeeps DEF Ending
<1>10. ASSUME NEW e \in EventIds, Calling(e) PROVE ChannelsOK'
    BY <1>1, <1>10, CallingTracks, NothingGivenKeeps DEF Calling
<1>11. ASSUME UNCHANGED << task, event >> PROVE ChannelsOK'
    BY <1>1, <1>5, <1>11, NothingGivenKeeps
<1>12. QED
    BY <1>1, <1>3, <1>4, <1>7, <1>8, <1>9, <1>10, <1>11 DEF Effect, Failing, vars

\* It holds in every state.
LEMMA ChannelsInvariant == Spec => []ChannelsOK
<1>1. Init => ChannelsOK
    <2> SUFFICES ASSUME Init PROVE ChannelsOK
        OBVIOUS
    <2>1. \A t \in Tasks : task[t].wanted = << >>
        BY DEF Init, NoTask
    <2>2. \A e \in EventIds : event[e].type = "absent"
        BY DEF Init, Absent
    <2>3. QED
        BY <2>1, <2>2, TaskGraphAssumption DEF ChannelsOK
<1>2. Core /\ ChannelsOK /\ [Next]_vars => ChannelsOK'
    BY NextChannels
<1>3. QED
    BY <1>1, <1>2, CoreInvariant, PTL DEF Spec

-----------------------------------------------------------------------------
(* What is sent once                                                       *)

\* What goes through a channel once reaches one position of one task: ChannelEvent
\* counts one dependent for each payload, and each slot attached to it is counted.
THEOREM ChannelsAreExact == Spec => []ChannelsDeliverOnce
<1>1. ASSUME Core, ChannelsOK PROVE ChannelsDeliverOnce
    <2> SUFFICES ASSUME NEW e \in EventIds, event[e].type = "channel", NEW h \in Handles
                 PROVE  LET got(t) == { p \in DOMAIN task[t].wanted :
                                          /\ IsClaim(task[t].wanted[p])
                                          /\ task[t].wanted[p][1] = e
                                          /\ Argument(t, p) = h }
                        IN  Cardinality(UNION { {t} \X got(t) : t \in Started })
                              <= Cardinality({ k \in DOMAIN event[e].payloads :
                                                 event[e].payloads[k] = h })
        BY DEF ChannelsDeliverOnce
    <2> DEFINE got(t) == { p \in DOMAIN task[t].wanted :
                             /\ IsClaim(task[t].wanted[p])
                             /\ task[t].wanted[p][1] = e
                             /\ Argument(t, p) = h }
               S == UNION { {t} \X got(t) : t \in Started }
               T == { k \in DOMAIN event[e].payloads : event[e].payloads[k] = h }
               turn == [s \in S |-> task[s[1]].wanted[s[2]][2]]
    <2>1. event[e].payloads \in Seq(Handles)
        BY <1>1, EventCoreFacts
    <2>2. \A s \in S : s = << s[1], s[2] >> /\ s[1] \in Started /\ s[2] \in got(s[1])
        OBVIOUS
    <2>3. IsFiniteSet(T)
        <3>1. Len(event[e].payloads) \in Nat /\ DOMAIN event[e].payloads = 1 .. Len(event[e].payloads)
            BY <2>1
        <3>2. IsFiniteSet(1 .. Len(event[e].payloads))
            BY <3>1, FS_Interval
        <3>3. QED
            BY <3>1, <3>2, FS_Subset
    <2> HIDE DEF S
    <2>4. ASSUME NEW s \in S
          PROVE  /\ task[s[1]].wanted[s[2]] \in Claims
                 /\ task[s[1]].wanted[s[2]] = << e, turn[s] >>
                 /\ turn[s] \in T
        <3>1. PICK t \in Started, p \in got(s[1]) : t = s[1] /\ p = s[2]
            BY <2>2
        <3>2. PICK x : x = task[t].wanted[p]
            OBVIOUS
        <3>3. p \in DOMAIN task[t].wanted /\ IsClaim(x) /\ x[1] = e /\ Argument(t, p) = h
            BY <3>1, <3>2
        <3>4. x \in Handles \cup Claims /\ Ready(x) /\ Argument(t, p) = Payload(x)
            BY <1>1, <3>2, <3>3, StartedFacts
        <3>5. x \in Claims /\ x \notin Handles /\ x[2] \in Nat /\ x[2] > 0
            BY <3>3, <3>4, DistinctGuids
        <3>6. x = << e, x[2] >>
            BY <3>3, <3>5 DEF Claims
        <3>7. x[2] <= Len(event[e].payloads) /\ event[e].payloads[x[2]] = h
            BY <3>3, <3>4, <3>5 DEF Ready, Payload
        <3>8. x[2] \in DOMAIN event[e].payloads
            <4>1. Len(event[e].payloads) \in Nat /\ DOMAIN event[e].payloads = 1 .. Len(event[e].payloads)
                BY <2>1
            <4>2. QED
                BY <3>5, <3>7, <4>1
        <3>9. turn[s] = x[2]
            BY <3>1, <3>2
        <3>10. QED
            BY <3>1, <3>2, <3>5, <3>6, <3>7, <3>8, <3>9
    <2>5. turn \in [S -> T]
        BY <2>4
    <2>6. ASSUME NEW r \in S, NEW s \in S, turn[r] = turn[s] PROVE r = s
        <3>1. /\ r[1] \in Tasks /\ r[2] \in DOMAIN task[r[1]].wanted
              /\ s[1] \in Tasks /\ s[2] \in DOMAIN task[s[1]].wanted
            BY <2>2 DEF Started
        <3>2. task[r[1]].wanted[r[2]] = << e, turn[r] >> /\ task[s[1]].wanted[s[2]] = << e, turn[r] >>
              /\ << e, turn[r] >> \in Claims
            BY <2>4, <2>6
        <3>3. OnChannel(<< e, turn[r] >>)
            BY <3>2, DistinctGuids DEF OnChannel
        <3>4. /\ task[r[1]].wanted[r[2]] = task[s[1]].wanted[s[2]]
              /\ OnChannel(task[r[1]].wanted[r[2]])
            BY <3>2, <3>3
        <3>5. \A t, u \in Tasks : \A p \in DOMAIN task[t].wanted : \A q \in DOMAIN task[u].wanted :
                 task[t].wanted[p] = task[u].wanted[q] /\ OnChannel(task[t].wanted[p])
                     => t = u /\ p = q
            BY <1>1 DEF ChannelsOK
        <3>6. r[1] = s[1] /\ r[2] = s[2]
            BY <3>1, <3>4, <3>5
        <3>7. QED
            BY <2>2, <3>6
    <2>7. turn \in Injection(S, T)
        <3> HIDE DEF turn, T
        <3>1. QED
            BY <2>5, <2>6 DEF Injection, IsInjective
    <2>8. Cardinality(S) <= Cardinality(T)
        <3> HIDE DEF turn, T
        <3>1. QED
            BY <2>3, <2>7, FS_Injection
    <2>9. QED
        BY <2>8 DEF S
<1>2. QED
    BY <1>1, CoreInvariant, ChannelsInvariant, PTL

-----------------------------------------------------------------------------
(* Every source gets to its slot                                           *)

\* The program does not depend on the event of a future whose task misses nothing, or
\* has no function that can do without dependences; and it does not pass on a list
\* that came with other parameters.
Careful ==
    /\ EagerFutures => \A f \in Fns : Depc(f) # 0
    /\ \A f \in Forwarding : Depc(f) = 0

\* No slot has been given an event that was gone.
AttachedOK ==
    /\ failure.assertion # "dependence"
    /\ \A t \in Tasks : Lost \notin Range(task[t].slots)
    /\ \A t \in Tasks \ {Main} : FullOK(task[t])

\* What the program may depend on is there: an output event as long as its task
\* misses a source, a counted event as long as it is waited for too seldom.
LEMMA SourceStays ==
    ASSUME Core, Careful, NEW T, NEW x \in SourcesOf(T)
    PROVE  ~ Gone(x)
<1> SUFFICES ASSUME IsClaim(x) PROVE Live(event[x[1]])
    BY DEF Gone
<1>1. PICK e \in EventIds : x = Claim(e) /\ MayDependOn(e)
    BY SourceDelivers
<1>2. x[1] = e /\ Exists(event[e])
    BY <1>1, ClaimFacts, AwaitFacts
<1>3. CASE \E t \in Tasks : task[t].out = e
    <2>1. PICK t \in Tasks : task[t].out = e
        BY <1>3
    <2>2. e # NoEvent /\ OutOK(t)
        BY TaskGraphAssumption DEF Core
    <2>3. t # Main /\ task[t].phase # "absent"
        BY <2>1, <2>2, MainFacts DEF Core, UnusedOK, NoTask
    <2>4. ~ Filled(t)
        <3>1. SlotsOK(task[t])
            BY <2>3 DEF Core
        <3>2. task[t].fn \in Fns
            BY <2>3, <3>1 DEF SlotsOK
        <3>3. Depc(task[t].fn) # 0 => Positions(task[t].fn, task[t].count) # {}
            <4>1. Depc(task[t].fn) \in Nat
                BY <3>2, SignatureFacts
            <4>2. Depc(task[t].fn) # 0 => 0 \in Indices(Depc(task[t].fn))
                BY <4>1 DEF Indices
            <4>3. task[t].count \in Nat
                BY DEF Core, TypeInv, TaskRecord
            <4>4. QED
                BY <3>2, <4>2, <4>3, PositionFacts
        <3>4. QED
            BY <1>1, <2>1, <3>2, <3>3 DEF MayDependOn, Careful
    <2>5. RunOK(task[t])
        BY <2>3 DEF Core
    <2>6. task[t].phase # "ended"
        BY <2>4, <2>5 DEF RunOK, Filled
    <2>7. event[e].type = "once" /\ event[e].base = 0 /\ event[e].payloads = << >>
        BY <2>1, <2>2, <2>6 DEF OutOK
    <2>8. ~ Len(<< >>) - 0 > 0
        OBVIOUS
    <2>9. ~ Spent(event[e])
        BY <2>7, <2>8 DEF Spent, Triggered, Triggers
    <2>10. QED
        BY <1>2, <2>9 DEF Live
<1>4. CASE ~ \E t \in Tasks : task[t].out = e
    <2>1. MayAwait(event[e])
        BY <1>1, <1>4 DEF MayDependOn
    <2>2. event[e] \in EventRecord /\ CountOK(event[e])
        BY EventCoreFacts
    <2>3. event[e].dependents \in Nat /\ event[e].count \in Nat
        BY <2>2, EventFields
    <2>4. event[e].type = "counted" =>
            event[e].counter = event[e].count /\ event[e].dependents < event[e].count
        BY <2>1, <2>2 DEF CountOK, MayAwait
    <2>5. ~ Spent(event[e])
        BY <2>1, <2>3, <2>4 DEF MayAwait, Spent
    <2>6. QED
        BY <1>2, <2>5 DEF Live
<1>5. QED
    BY <1>3, <1>4

\* In a careful program nothing fails to be attached.
LEMMA AlwaysAttachable ==
    ASSUME Core, Careful, \A t \in Tasks \ {Main} : FullOK(task[t])
    PROVE  ~ Unattachable
<1>1. \A T : \A x \in SourcesOf(T) : ~ Gone(x)
    BY SourceStays
<1>2. ASSUME NEW f \in Fns, NEW list \in ReceivedLists(f)
      PROVE  list.capacity = Len(list.items)
    <2>1. PICK t \in Tasks : task[t].fn \in Forwarding /\ list = task[t].list
        BY <1>2 DEF ReceivedLists, Running
    <2>2. CASE t = Main
        BY <2>1, <2>2, MainFacts DEF Core, EmptyList
    <2>3. CASE t # Main
        BY <2>1, <2>3 DEF FullOK, Careful
    <2>4. QED
        BY <2>2, <2>3
<1>3. QED
    BY <1>1, <1>2 DEF Unattachable

\* Every step of a careful program keeps what slots wait for in existence.
LEMMA NextAttached ==
    ASSUME Core, Careful, AttachedOK, [Next]_vars
    PROVE  AttachedOK'
<1>1. Effect /\ ~ Unattachable
    BY StepFacts, AlwaysAttachable DEF AttachedOK
<1>2. task \in [Tasks -> TaskRecord]
    BY DEF Core, TypeInv
<1>3. ASSUME NEW t \in Tasks, NEW r, task' = [task EXCEPT ![t] = r],
             Lost \notin Range(r.slots), t # Main => FullOK(r), UNCHANGED failure
      PROVE  AttachedOK'
    <2>1. task'[t] = r /\ \A u \in Tasks \ {t} : task'[u] = task[u]
        BY <1>2, <1>3
    <2>2. \A u \in Tasks : Lost \notin Range(task'[u].slots)
        BY <1>3, <2>1 DEF AttachedOK
    <2>3. \A u \in Tasks \ {Main} : FullOK(task'[u])
        BY <1>3, <2>1 DEF AttachedOK
    <2>4. QED
        BY <1>3, <2>2, <2>3 DEF AttachedOK, FullOK
<1>4. ASSUME UNCHANGED task, failure'.assertion # "dependence" PROVE AttachedOK'
    BY <1>4 DEF AttachedOK, FullOK
<1>5. ASSUME NEW t \in Tasks, NEW r, Making(t, r), UNCHANGED failure PROVE AttachedOK'
    <2>1. Lost \notin Range(r.slots) /\ FullOK(r)
        BY <1>1, <1>5 DEF Making, FullOK, EmptyList
    <2>2. QED
        BY <1>3, <1>5, <2>1 DEF Making
<1>6. ASSUME NEW t \in Tasks, NEW given, NEW r, Filling(t, given, r), UNCHANGED failure
      PROVE  AttachedOK'
    <2>1. Lost \notin Range(r.slots) /\ (t # Main => FullOK(r))
        BY <1>6 DEF Filling, FullOK, AttachedOK
    <2>2. QED
        BY <1>3, <1>6, <2>1 DEF Filling
<1>7. ASSUME NEW t \in Tasks, Dropping(t) PROVE AttachedOK'
    <2>1. PICK r : r = [task[t] EXCEPT !.phase = "destroyed"]
        OBVIOUS
    <2>2. r.slots = task[t].slots /\ r.fn = task[t].fn /\ r.list = task[t].list
        BY <1>2, <2>1 DEF TaskRecord
    <2>3. Lost \notin Range(r.slots) /\ (t # Main => FullOK(r))
        BY <2>2 DEF FullOK, AttachedOK
    <2>4. task' = [task EXCEPT ![t] = r] /\ UNCHANGED failure
        BY <1>2, <1>7, <2>1 DEF Dropping
    <2>5. QED
        BY <1>3, <2>3, <2>4
<1>8. ASSUME NEW t \in Tasks, NEW r, Starting(t, r) PROVE AttachedOK'
    <2>1. Lost \notin Range(r.slots) /\ FullOK(r)
        BY <1>8 DEF Starting, AttachedOK
    <2>2. QED
        BY <1>3, <1>8, <2>1 DEF Starting
<1>9. ASSUME NEW t \in Tasks, NEW r, Ending(t, r) PROVE AttachedOK'
    <2>1. PICK h : r = [task[t] EXCEPT !.phase = "ended", !.result = h]
        BY <1>9 DEF Ending
    <2>2. r.slots = task[t].slots /\ r.fn = task[t].fn /\ r.list = task[t].list
        BY <1>2, <2>1 DEF TaskRecord
    <2>3. Lost \notin Range(r.slots) /\ (t # Main => FullOK(r))
        BY <2>2 DEF FullOK, AttachedOK
    <2>4. QED
        BY <1>3, <1>9, <2>3 DEF Ending
<1>10. ASSUME NEW e \in EventIds, Calling(e) PROVE AttachedOK'
    BY <1>4, <1>10 DEF Calling, AttachedOK
<1>11. ASSUME NEW assertion, Failing(assertion), assertion = "dependence" => Unattachable
       PROVE  AttachedOK'
    BY <1>1, <1>4, <1>11 DEF Failing
<1>12. ASSUME UNCHANGED vars PROVE AttachedOK'
    BY <1>4, <1>12 DEF vars, AttachedOK
<1>13. QED
    BY <1>1, <1>5, <1>6, <1>7, <1>8, <1>9, <1>10, <1>11, <1>12 DEF Effect

\* Whatever is attached gets to an empty slot of a task that exists, and its event is
\* still there, with CreateTask, DependOn and the others, if the program is careful:
\* the runs of the findings show what happens to others.
THEOREM SourcesGetAttached ==
    ASSUME Careful
    PROVE  Spec => []EverySourceIsAttached
<1>1. Init => AttachedOK
    <2> SUFFICES ASSUME Init PROVE AttachedOK
        OBVIOUS
    <2>1. \A t \in Tasks : task[t].slots = << >> /\ task[t].list = EmptyList
        BY DEF Init, NoTask
    <2>2. Range(<< >>) = {} /\ EmptyList.capacity = Len(EmptyList.items)
        BY DEF Range, EmptyList
    <2>3. failure.assertion = "none"
        BY DEF Init, NoFailure
    <2>4. QED
        BY <2>1, <2>2, <2>3 DEF AttachedOK, FullOK
<1>2. Core /\ AttachedOK /\ [Next]_vars => AttachedOK'
    BY NextAttached
<1>3. Core /\ AttachedOK => EverySourceIsAttached
    <2> SUFFICES ASSUME Core, AttachedOK PROVE EverySourceIsAttached
        OBVIOUS
    <2>1. \A t \in Tasks \ {Main} : SlotsOK(task[t])
        BY DEF Core
    <2>2. \A t \in Tasks : task[t].phase # "garbage"
        BY <2>1, MainFacts DEF Core, SlotsOK
    <2>3. QED
        BY <2>2 DEF EverySourceIsAttached, AttachedOK
<1>4. QED
    BY <1>1, <1>2, <1>3, CoreInvariant, PTL DEF Spec

=============================================================================
