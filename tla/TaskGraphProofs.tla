--------------------------- MODULE TaskGraphProofs ---------------------------
(***************************************************************************)
(* TaskGraph: proofs of what tasks get and when they start, for all values *)
(* of the constants.                                                       *)
(***************************************************************************)
EXTENDS TaskGraph, TLAPS, FiniteSetTheorems

-----------------------------------------------------------------------------
(* Types                                                                   *)

Claims == EventIds \X (Nat \ {0})

Phases == {"absent", "created", "garbage", "running", "ended", "destroyed"}

SlotMaps == UNION { [S -> Handles \cup Claims \cup {Hole, Lost}] : S \in SUBSET Nat }

WantedMaps == UNION { [P -> Handles \cup Claims] : P \in SUBSET ({"dep", "list"} \X Nat) }

ListRecord == [items : Seq(Handles), capacity : Nat]

TaskRecord ==
    [phase : Phases, fn : Fns \cup {Main}, out : EventIds \cup {NoEvent}, slots : SlotMaps,
     count : Nat, wanted : WantedMaps, deps : Seq(Handles), list : ListRecord,
     result : Handles]

EventRecord ==
    [type : Types \cup {"absent", "destroyed"}, data : DataTypes \cup {Void}, count : Nat,
     counter : Int, base : Nat, payloads : Seq(Handles), dependents : Nat,
     source : Handles \cup Claims \cup {Hole}, ups : Nat, downs : Nat]

TypeInv ==
    /\ task \in [Tasks -> TaskRecord]
    /\ event \in [EventIds -> EventRecord]

\* What is not in use is as it was at the start; the main task has no slots.
UnusedOK ==
    /\ \A t \in Tasks : task[t].phase = "absent" => task[t] = NoTask
    /\ \A e \in EventIds : event[e].type = "absent" => event[e] = Absent
    /\ \E h \in Handles, phase \in {"running", "ended"} :
          task[Main] = [NoTask EXCEPT !.phase = phase, !.result = h]

-----------------------------------------------------------------------------
(* Signatures, lists, claims                                               *)

\* Handles, claims and the two special slots are told apart.
LEMMA DistinctGuids ==
    /\ \A x \in Handles : ~ IsClaim(x) /\ x # Hole /\ x # Lost
    /\ \A x \in Claims : IsClaim(x) /\ x \notin Handles /\ x # Hole /\ x # Lost
    /\ \A x \in Claims : x[1] \in EventIds /\ x[2] \in Nat /\ x[2] > 0
    /\ ~ IsClaim(Hole) /\ ~ IsClaim(Lost) /\ Hole # Lost
    /\ NullGuid \in Handles
<1>1. \A x \in Claims : x \in EventIds \X Nat
    BY DEF Claims
<1>2. QED
    BY <1>1, GuidAssumption DEF IsClaim, Handles, Claims

\* The slots 0 .. n - 1 are n slots.
LEMMA IndexFacts ==
    \A n \in Nat : IsFiniteSet(Indices(n)) /\ Cardinality(Indices(n)) = n
<1> SUFFICES ASSUME NEW n \in Nat PROVE IsFiniteSet(Indices(n)) /\ Cardinality(Indices(n)) = n
    OBVIOUS
<1> DEFINE m == n - 1
<1>1. 0 \in Int /\ m \in Int
    OBVIOUS
<1>2. Indices(n) = 0 .. m
    BY DEF Indices
<1>3. (IF 0 > m THEN 0 ELSE m - 0 + 1) = n
    OBVIOUS
<1> HIDE DEF m
<1>4. IsFiniteSet(0 .. m) /\ Cardinality(0 .. m) = IF 0 > m THEN 0 ELSE m - 0 + 1
    BY <1>1, FS_Interval
<1>5. QED
    BY <1>2, <1>3, <1>4

\* FnInfo and CountMissingDeps, for every legal signature.
LEMMA SignatureFacts ==
    ASSUME NEW f \in Fns
    PROVE  /\ Depc(f) \in Nat
           /\ DepsFn(Sig[f].params) \in Seq(Range(Sig[f].params))
           /\ Depc(f) = Len(DepsFn(Sig[f].params))
           /\ VarArgs(f) \in BOOLEAN
<1> DEFINE sig == Sig[f].params
           S == Range(sig)
<1>1. Legal(sig)
    BY TaskGraphAssumption
<1>2. sig \in Seq([kind : Kinds, type : { sig[i].type : i \in DOMAIN sig }])
    BY <1>1 DEF Legal
<1>3. sig \in Seq(S)
    BY <1>2 DEF Range
<1> HIDE DEF sig, S
<1>4. AfterParam(sig) \in Seq(S)
    BY <1>3 DEF AfterParam, HasParam
<1>5. DepsFn(sig) \in Seq(S)
    <2>1. CASE HasVarArgs(sig) /\ AfterParam(sig) # << >>
        <3>1. Len(AfterParam(sig)) - 1 \in 0 .. Len(AfterParam(sig))
            BY <1>4, <2>1
        <3>2. SubSeq(AfterParam(sig), 1, Len(AfterParam(sig)) - 1) \in Seq(S)
            BY <1>4, <3>1
        <3>3. QED
            BY <2>1, <3>2 DEF DepsFn
    <2>2. CASE HasVarArgs(sig) /\ AfterParam(sig) = << >>
        <3>1. SubSeq(<< >>, 1, 0 - 1) = << >>
            OBVIOUS
        <3>2. QED
            BY <2>2, <3>1 DEF DepsFn
    <2>3. CASE ~ HasVarArgs(sig)
        BY <1>4, <2>3 DEF DepsFn
    <2>4. QED
        BY <2>1, <2>2, <2>3
<1>6. Len(DepsFn(sig)) \in Nat
    BY <1>5
<1>7. QED
    BY <1>5, <1>6 DEF Depc, DepCount, VarArgs, HasVarArgs, sig, S

\* The lists a program can pass on are lists.
LEMMA ListFacts ==
    ASSUME TypeInv, NEW f, NEW list \in Lists(f)
    PROVE  list \in ListRecord
<1>1. CASE list \in ReceivedLists(f)
    <2>1. PICK t \in Tasks : list = task[t].list
        BY <1>1 DEF ReceivedLists, Running
    <2>2. QED
        BY <2>1 DEF TypeInv, TaskRecord
<1>2. CASE list \notin ReceivedLists(f)
    <2>1. PICK n \in 0 .. MaxList :
            list \in [items : [1 .. n -> HandlesOf(ListType(f)) \ {NullGuid}], capacity : {n}]
        <3> DEFINE Made(n) ==
                [items : [1 .. n -> HandlesOf(ListType(f)) \ {NullGuid}], capacity : {n}]
                   All == { Made(n) : n \in 0 .. MaxList }
        <3>1. Lists(f) = ReceivedLists(f) \cup (UNION All)
            BY DEF Lists
        <3> HIDE DEF All
        <3>2. list \in UNION All
            BY <1>2, <3>1
        <3>3. PICK made \in All : list \in made
            BY <3>2
        <3>4. QED
            BY <3>3 DEF All
    <2>2. n \in Nat /\ HandlesOf(ListType(f)) \subseteq Handles
        BY TaskGraphAssumption DEF HandlesOf, Handles
    <2>3. list.items \in [1 .. n -> Handles]
        BY <2>1, <2>2
    <2>4. list.items \in Seq(Handles)
        BY <2>2, <2>3
    <2>5. QED
        BY <2>1, <2>2, <2>4 DEF ListRecord
<1>3. QED
    BY <1>1, <1>2

\* The null handle is of every type, and the only one of no type.
LEMMA HandleFacts ==
    /\ \A T : NullGuid \in HandlesOf(T)
    /\ \A T : \A h \in HandlesOf(T) : h \in Handles /\ ~ IsClaim(h)
    /\ HandlesOf(Void) = {NullGuid}
<1>1. \A b \in Blocks : BlockType[b] # Void
    BY TaskGraphAssumption
<1>2. \A T : \A h \in HandlesOf(T) : h \in Handles
    BY DEF HandlesOf, Handles
<1>3. QED
    BY <1>1, <1>2, DistinctGuids DEF HandlesOf

\* A program can only name datablocks and payloads of events.
LEMMA SourceFacts ==
    ASSUME TypeInv
    PROVE  /\ \A e \in EventIds : Claim(e) \in Claims
           /\ Sources \subseteq Handles \cup Claims
           /\ \A T : SourcesOf(T) \subseteq Handles \cup Claims
           /\ \A T : HandlesOf(T) \subseteq Handles
<1>1. ASSUME NEW e \in EventIds PROVE Claim(e) \in Claims
    <2>1. event[e].base \in Nat /\ event[e].dependents \in Nat
        BY DEF TypeInv, EventRecord
    <2>2. Turn(event[e]) \in Nat \ {0}
        BY <2>1 DEF Turn, ChannelNbDeps
    <2>3. QED
        BY <2>2 DEF Claim, Claims
<1>2. QED
    BY <1>1 DEF Sources, SourcesOf, HandlesOf, Handles

-----------------------------------------------------------------------------
(* Events                                                                  *)

\* No payload of ev is lost or changed in new.
Keeps(ev, new) ==
    /\ Len(ev.payloads) <= Len(new.payloads)
    /\ \A k \in 1 .. Len(ev.payloads) : new.payloads[k] = ev.payloads[k]

\* An event whose payloads stay keeps them.
LEMMA KeepsFacts ==
    /\ \A ev : ev \in EventRecord => Keeps(ev, ev)
    /\ \A ev, new : ev \in EventRecord /\ new.payloads = ev.payloads => Keeps(ev, new)
BY DEF Keeps, EventRecord

\* An event that has not been created.
LEMMA AbsentTypes == Absent \in EventRecord
BY DEF Absent, EventRecord

\* Writing fields of an event.
LEMMA EventFields ==
    ASSUME NEW ev \in EventRecord
    PROVE  /\ \A n \in Int : [ev EXCEPT !.counter = n] \in EventRecord
           /\ \A n \in Nat : [ev EXCEPT !.dependents = n] \in EventRecord
           /\ \A n \in Nat : [ev EXCEPT !.ups = n] \in EventRecord
           /\ \A n \in Nat : [ev EXCEPT !.downs = n] \in EventRecord
           /\ \A s \in Seq(Handles) : [ev EXCEPT !.payloads = s] \in EventRecord
           /\ \A x \in Handles \cup Claims \cup {Hole} : [ev EXCEPT !.source = x] \in EventRecord
           /\ [ev EXCEPT !.type = "destroyed"] \in EventRecord
           /\ ev.payloads \in Seq(Handles)
           /\ ev.counter \in Int /\ ev.dependents \in Nat /\ ev.ups \in Nat /\ ev.downs \in Nat
           /\ ev.base \in Nat /\ ev.count \in Nat
<1> DEFINE P == Seq(Handles)
           X == Handles \cup Claims \cup {Hole}
           K == Types \cup {"absent", "destroyed"}
           D == DataTypes \cup {Void}
           N == Nat
           I == Int
<1>1. EventRecord = [type : K, data : D, count : N, counter : I, base : N, payloads : P,
                     dependents : N, source : X, ups : N, downs : N]
    BY DEF EventRecord
<1>2. "destroyed" \in K
    OBVIOUS
<1> HIDE DEF P, X, K, D, N, I
<1>3. /\ \A n \in I : [ev EXCEPT !.counter = n] \in EventRecord
      /\ \A n \in N : [ev EXCEPT !.dependents = n] \in EventRecord
      /\ \A n \in N : [ev EXCEPT !.ups = n] \in EventRecord
      /\ \A n \in N : [ev EXCEPT !.downs = n] \in EventRecord
      /\ \A s \in P : [ev EXCEPT !.payloads = s] \in EventRecord
      /\ \A x \in X : [ev EXCEPT !.source = x] \in EventRecord
    BY <1>1
<1>4. [ev EXCEPT !.type = "destroyed"] \in EventRecord
    BY <1>1, <1>2
<1>5. /\ ev.payloads \in P
      /\ ev.counter \in I /\ ev.dependents \in N /\ ev.ups \in N /\ ev.downs \in N
      /\ ev.base \in N /\ ev.count \in N
    BY <1>1
<1>6. QED
    BY <1>3, <1>4, <1>5 DEF P, X, N, I

\* Triggering appends a payload.
LEMMA TriggerFacts ==
    ASSUME NEW ev \in EventRecord, NEW h \in Handles
    PROVE  /\ Trigger(ev, h) \in EventRecord
           /\ Keeps(ev, Trigger(ev, h))
           /\ Trigger(ev, h) = [ev EXCEPT !.payloads = Append(ev.payloads, h)]
<1>1. Append(ev.payloads, h) \in Seq(Handles)
    <2>1. ev.payloads \in Seq(Handles)
        BY EventFields
    <2>2. QED
        BY <2>1
<1>2. Trigger(ev, h) = [ev EXCEPT !.payloads = Append(ev.payloads, h)]
    BY DEF Trigger
<1>3. Trigger(ev, h) \in EventRecord
    BY <1>1, <1>2, EventFields
<1>4. Trigger(ev, h).payloads = Append(ev.payloads, h) /\ ev.payloads \in Seq(Handles)
    BY <1>2 DEF EventRecord
<1>5. QED
    BY <1>2, <1>3, <1>4 DEF Keeps

\* A latch whose counter gets to n has one payload more when n is 0.
LEMMA AtCountFacts ==
    ASSUME NEW ev \in EventRecord, NEW n \in Int
    PROVE  /\ AtCount(ev, n) \in EventRecord
           /\ AtCount(ev, n).payloads =
                IF n = 0 THEN Append(ev.payloads, NullGuid) ELSE ev.payloads
           /\ AtCount(ev, n) = [[ev EXCEPT !.counter = n] EXCEPT !.payloads =
                IF n = 0 THEN Append(ev.payloads, NullGuid) ELSE ev.payloads]
<1> DEFINE counted == [ev EXCEPT !.counter = n]
<1>1. counted \in EventRecord
    BY EventFields
<1>2. counted.payloads = ev.payloads
    BY DEF EventRecord
<1>3. AtCount(ev, n) = IF n = 0 THEN Trigger(counted, NullGuid) ELSE counted
    BY DEF AtCount
<1>4. NullGuid \in Handles
    BY DEF Handles
<1>5. Trigger(counted, NullGuid) \in EventRecord
      /\ Trigger(counted, NullGuid) = [counted EXCEPT !.payloads = Append(counted.payloads, NullGuid)]
    BY <1>1, <1>4, TriggerFacts
<1>6. counted = [counted EXCEPT !.payloads = counted.payloads]
    BY <1>1 DEF EventRecord
<1>7. \A s : [counted EXCEPT !.payloads = s].payloads = s
    BY <1>1 DEF EventRecord
<1> HIDE DEF counted
<1>8. QED
    BY <1>1, <1>2, <1>3, <1>5, <1>6, <1>7 DEF counted

\* What becomes of an event as long as it is the same: it gets payloads of its type.
Persists(ev, new) ==
    /\ new \in EventRecord
    /\ new.type = ev.type /\ new.data = ev.data /\ new.base = ev.base
    /\ ev.dependents <= new.dependents
    /\ Keeps(ev, new)
    /\ \A k \in Len(ev.payloads) + 1 .. Len(new.payloads) : new.payloads[k] \in HandlesOf(ev.data)

\* It gets one payload at a time, and only one in all unless it is a channel.
AddsOne(ev, new) ==
    \/ new.payloads = ev.payloads
    \/ /\ ev.type = "channel" \/ ~ Triggered(ev)
       /\ \E h \in HandlesOf(ev.data) : new.payloads = Append(ev.payloads, h)

\* Earlier payloads are there; the counter of a latch says what has been called, up
\* to the trigger; that of a counted event is what it was made with.
CountOK(ev) ==
    /\ ev.base <= Len(ev.payloads)
    /\ ev.type = "latch" =>
         /\ ev.counter = ev.count + ev.ups - ev.downs
         /\ Triggered(ev) => ev.counter = 0
    /\ ev.type = "counted" => ev.counter = ev.count

\* An event that gets a payload of its type goes on as it was.
LEMMA AppendFacts ==
    ASSUME NEW ev \in EventRecord, NEW new \in EventRecord, NEW h \in HandlesOf(ev.data),
           new.type = ev.type, new.data = ev.data, new.base = ev.base,
           new.dependents = ev.dependents,
           new.payloads = ev.payloads \/ new.payloads = Append(ev.payloads, h)
    PROVE  Persists(ev, new)
<1>1. ev.payloads \in Seq(Handles) /\ ev.dependents \in Nat
    BY EventFields
<1>2. h \in Handles
    BY DEF HandlesOf, Handles
<1> DEFINE s == ev.payloads
<1>3. Len(s) \in Nat /\ s \in Seq(Handles)
    BY <1>1
<1>4. CASE new.payloads = s
    <2>1. \A k \in Len(s) + 1 .. Len(s) : FALSE
        BY <1>3
    <2>2. QED
        BY <1>1, <1>4, <2>1, KeepsFacts DEF Persists
<1>5. CASE new.payloads = Append(s, h)
    <2>1. Len(Append(s, h)) = Len(s) + 1
        BY <1>3
    <2>2. \A k \in 1 .. Len(s) : Append(s, h)[k] = s[k]
        BY <1>2, <1>3
    <2>3. Append(s, h)[Len(s) + 1] = h
        BY <1>2, <1>3
    <2>4. Keeps(ev, new)
        BY <1>3, <1>5, <2>1, <2>2 DEF Keeps
    <2>5. \A k \in Len(s) + 1 .. Len(s) + 1 : k = Len(s) + 1
        BY <1>3
    <2>6. \A k \in Len(s) + 1 .. Len(Append(s, h)) : Append(s, h)[k] = h
        BY <2>1, <2>3, <2>5
    <2>7. QED
        BY <1>1, <1>5, <2>4, <2>6 DEF Persists
<1>6. QED
    BY <1>4, <1>5

\* The fields of a latch whose counter gets to n.
LEMMA AtCountFields ==
    ASSUME NEW ev \in EventRecord, NEW n \in Int
    PROVE  LET mid == AtCount(ev, n)
           IN  /\ mid \in EventRecord
               /\ mid.ups = ev.ups /\ mid.downs = ev.downs
               /\ mid.type = ev.type /\ mid.data = ev.data /\ mid.count = ev.count
               /\ mid.counter = n /\ mid.base = ev.base
               /\ mid.dependents = ev.dependents /\ mid.source = ev.source
               /\ mid.payloads = IF n = 0 THEN Append(ev.payloads, NullGuid) ELSE ev.payloads
<1> DEFINE s == IF n = 0 THEN Append(ev.payloads, NullGuid) ELSE ev.payloads
<1>1. AtCount(ev, n) = [[ev EXCEPT !.counter = n] EXCEPT !.payloads = s]
    BY AtCountFacts
<1>2. AtCount(ev, n) \in EventRecord
    BY AtCountFacts
<1> HIDE DEF s
<1>3. /\ AtCount(ev, n).ups = ev.ups /\ AtCount(ev, n).downs = ev.downs
      /\ AtCount(ev, n).type = ev.type /\ AtCount(ev, n).data = ev.data
      /\ AtCount(ev, n).count = ev.count /\ AtCount(ev, n).counter = n
      /\ AtCount(ev, n).base = ev.base /\ AtCount(ev, n).dependents = ev.dependents
      /\ AtCount(ev, n).source = ev.source /\ AtCount(ev, n).payloads = s
    BY <1>1 DEF EventRecord
<1>4. QED
    BY <1>2, <1>3 DEF s

\* Writing the counts of calls of a latch.
LEMMA CallFields ==
    ASSUME NEW ev \in EventRecord, NEW k \in Nat
    PROVE  /\ \A new : new = [ev EXCEPT !.ups = k] =>
                /\ new \in EventRecord
                /\ new.type = ev.type /\ new.data = ev.data /\ new.count = ev.count
                /\ new.counter = ev.counter /\ new.base = ev.base
                /\ new.dependents = ev.dependents /\ new.source = ev.source
                /\ new.payloads = ev.payloads
                /\ new.ups = k /\ new.downs = ev.downs
           /\ \A new : new = [ev EXCEPT !.downs = k] =>
                /\ new \in EventRecord
                /\ new.type = ev.type /\ new.data = ev.data /\ new.count = ev.count
                /\ new.counter = ev.counter /\ new.base = ev.base
                /\ new.dependents = ev.dependents /\ new.source = ev.source
                /\ new.payloads = ev.payloads
                /\ new.ups = ev.ups /\ new.downs = k
<1>1. [ev EXCEPT !.ups = k] \in EventRecord /\ [ev EXCEPT !.downs = k] \in EventRecord
    BY EventFields
<1> DEFINE up == [ev EXCEPT !.ups = k]
           down == [ev EXCEPT !.downs = k]
<1>2. /\ up.type = ev.type /\ up.data = ev.data /\ up.count = ev.count
      /\ up.counter = ev.counter /\ up.base = ev.base
      /\ up.dependents = ev.dependents /\ up.source = ev.source
      /\ up.payloads = ev.payloads
      /\ up.ups = k /\ up.downs = ev.downs
    BY DEF EventRecord
<1>3. /\ down.type = ev.type /\ down.data = ev.data /\ down.count = ev.count
      /\ down.counter = ev.counter /\ down.base = ev.base
      /\ down.dependents = ev.dependents /\ down.source = ev.source
      /\ down.payloads = ev.payloads
      /\ down.ups = ev.ups /\ down.downs = k
    BY DEF EventRecord
<1>4. up \in EventRecord /\ down \in EventRecord
    BY <1>1
<1> HIDE DEF up, down
<1>5. \A new : new = up =>
        /\ new \in EventRecord
        /\ new.type = ev.type /\ new.data = ev.data /\ new.count = ev.count
        /\ new.counter = ev.counter /\ new.base = ev.base
        /\ new.dependents = ev.dependents /\ new.source = ev.source
        /\ new.payloads = ev.payloads
        /\ new.ups = k /\ new.downs = ev.downs
    BY <1>2, <1>4
<1>6. \A new : new = down =>
        /\ new \in EventRecord
        /\ new.type = ev.type /\ new.data = ev.data /\ new.count = ev.count
        /\ new.counter = ev.counter /\ new.base = ev.base
        /\ new.dependents = ev.dependents /\ new.source = ev.source
        /\ new.payloads = ev.payloads
        /\ new.ups = ev.ups /\ new.downs = k
    BY <1>3, <1>4
<1>7. QED
    BY <1>5, <1>6 DEF up, down

\* A latch that has not been triggered is counted up or down.
LEMMA LatchFacts ==
    ASSUME NEW ev \in EventRecord, ev.type = "latch", ~ Triggered(ev), CountOK(ev),
           NEW new \in {Up(ev), Down(ev)}
    PROVE  Persists(ev, new) /\ CountOK(new) /\ AddsOne(ev, new) /\ new.source = ev.source
<1>1. /\ ev.counter \in Int /\ ev.ups \in Nat /\ ev.downs \in Nat /\ ev.count \in Nat
      /\ ev.payloads \in Seq(Handles) /\ ev.base \in Nat
    BY EventFields
<1>2. ev.counter + 1 \in Int /\ ev.ups + 1 \in Nat /\ ev.counter - 1 \in Int /\ ev.downs + 1 \in Nat
    BY <1>1
<1>3. PICK n \in Int, mid \in EventRecord :
        /\ mid = AtCount(ev, n)
        /\ \/ n = ev.counter + 1 /\ new = [mid EXCEPT !.ups = ev.ups + 1]
           \/ n = ev.counter - 1 /\ new = [mid EXCEPT !.downs = ev.downs + 1]
    <2>1. CASE new = Up(ev)
        <3>1. AtCount(ev, ev.counter + 1).ups = ev.ups /\ AtCount(ev, ev.counter + 1) \in EventRecord
            BY <1>2, AtCountFields
        <3>2. Up(ev) = [AtCount(ev, ev.counter + 1) EXCEPT !.ups = ev.ups + 1]
            BY <3>1 DEF Up
        <3>3. \E m \in EventRecord : /\ m = AtCount(ev, ev.counter + 1)
                                   /\ new = [m EXCEPT !.ups = ev.ups + 1]
            BY <2>1, <3>1, <3>2
        <3>4. QED
            BY <1>2, <3>3
    <2>2. CASE new = Down(ev)
        <3>1. AtCount(ev, ev.counter - 1).downs = ev.downs /\ AtCount(ev, ev.counter - 1) \in EventRecord
            BY <1>2, AtCountFields
        <3>2. Down(ev) = [AtCount(ev, ev.counter - 1) EXCEPT !.downs = ev.downs + 1]
            BY <3>1 DEF Down
        <3>3. \E m \in EventRecord : /\ m = AtCount(ev, ev.counter - 1)
                                   /\ new = [m EXCEPT !.downs = ev.downs + 1]
            BY <2>2, <3>1, <3>2
        <3>4. QED
            BY <1>2, <3>3
    <2>3. QED
        BY <2>1, <2>2
<1>4. /\ mid \in EventRecord
      /\ mid.ups = ev.ups /\ mid.downs = ev.downs
      /\ mid.type = ev.type /\ mid.data = ev.data /\ mid.count = ev.count
      /\ mid.counter = n /\ mid.base = ev.base
      /\ mid.dependents = ev.dependents /\ mid.source = ev.source
      /\ mid.payloads = IF n = 0 THEN Append(ev.payloads, NullGuid) ELSE ev.payloads
    BY <1>3, AtCountFields
<1>5. PICK k \in Nat :
        \/ n = ev.counter + 1 /\ k = ev.ups + 1 /\ new = [mid EXCEPT !.ups = k]
        \/ n = ev.counter - 1 /\ k = ev.downs + 1 /\ new = [mid EXCEPT !.downs = k]
    BY <1>2, <1>3
<1>6. /\ new \in EventRecord
      /\ new.type = ev.type /\ new.data = ev.data /\ new.count = ev.count
      /\ new.counter = n /\ new.base = ev.base
      /\ new.dependents = ev.dependents /\ new.source = ev.source
      /\ new.payloads = IF n = 0 THEN Append(ev.payloads, NullGuid) ELSE ev.payloads
      /\ \/ n = ev.counter + 1 /\ new.ups = ev.ups + 1 /\ new.downs = ev.downs
         \/ n = ev.counter - 1 /\ new.ups = ev.ups /\ new.downs = ev.downs + 1
    <2>1. CASE n = ev.counter + 1 /\ k = ev.ups + 1 /\ new = [mid EXCEPT !.ups = k]
        <3>1. /\ new \in EventRecord
              /\ new.type = mid.type /\ new.data = mid.data /\ new.count = mid.count
              /\ new.counter = mid.counter /\ new.base = mid.base
              /\ new.dependents = mid.dependents /\ new.source = mid.source
              /\ new.payloads = mid.payloads
              /\ new.ups = k /\ new.downs = mid.downs
            BY <1>4, <2>1, CallFields
        <3>2. QED
            BY <1>4, <2>1, <3>1
    <2>2. CASE n = ev.counter - 1 /\ k = ev.downs + 1 /\ new = [mid EXCEPT !.downs = k]
        <3>1. /\ new \in EventRecord
              /\ new.type = mid.type /\ new.data = mid.data /\ new.count = mid.count
              /\ new.counter = mid.counter /\ new.base = mid.base
              /\ new.dependents = mid.dependents /\ new.source = mid.source
              /\ new.payloads = mid.payloads
              /\ new.ups = mid.ups /\ new.downs = k
            BY <1>4, <2>2, CallFields
        <3>2. QED
            BY <1>4, <2>2, <3>1
    <2>3. QED
        BY <1>5, <2>1, <2>2
<1>7. Persists(ev, new)
    <2>1. NullGuid \in HandlesOf(ev.data)
        BY DEF HandlesOf
    <2>2. QED
        BY <1>6, <2>1, AppendFacts
<1>8. new.counter = new.count + new.ups - new.downs
    <2>1. ev.counter = ev.count + ev.ups - ev.downs
        BY DEF CountOK
    <2>2. QED
        BY SMTT(30), <1>1, <1>6, <2>1
<1>9. ev.base <= Len(new.payloads)
    BY <1>1, <1>6, DistinctGuids DEF CountOK
<1>10. Triggered(new) => new.counter = 0
    BY <1>1, <1>6 DEF Triggered, Triggers
<1>11. AddsOne(ev, new)
    BY <1>6, HandleFacts DEF AddsOne
<1>12. QED
    BY <1>6, <1>7, <1>8, <1>9, <1>10, <1>11 DEF CountOK

\* Triggering an event other than a latch keeps what is known of it.
LEMMA TriggerPersists ==
    ASSUME NEW ev \in EventRecord, ev.type # "latch", CountOK(ev), NEW h \in HandlesOf(ev.data)
    PROVE  /\ Persists(ev, Trigger(ev, h)) /\ CountOK(Trigger(ev, h))
           /\ Trigger(ev, h).source = ev.source
           /\ Trigger(ev, h).payloads = Append(ev.payloads, h)
<1> DEFINE new == Trigger(ev, h)
<1>1. h \in Handles
    BY DEF HandlesOf, Handles
<1>2. new \in EventRecord /\ new = [ev EXCEPT !.payloads = Append(ev.payloads, h)]
    BY <1>1, TriggerFacts
<1>3. /\ new.type = ev.type /\ new.data = ev.data /\ new.base = ev.base /\ new.count = ev.count
      /\ new.counter = ev.counter /\ new.dependents = ev.dependents /\ new.source = ev.source
      /\ new.payloads = Append(ev.payloads, h)
    BY <1>2 DEF EventRecord
<1> HIDE DEF new
<1>4. Persists(ev, new)
    BY <1>2, <1>3, AppendFacts
<1>5. ev.payloads \in Seq(Handles) /\ ev.base \in Nat
    BY EventFields
<1>6. ev.base <= Len(ev.payloads)
    BY DEF CountOK
<1>7. ev.base <= Len(Append(ev.payloads, h))
    BY <1>5, <1>6
<1>8. CountOK(new)
    BY <1>3, <1>7 DEF CountOK
<1>9. QED
    BY <1>3, <1>4, <1>8 DEF new

\* Event::Satisfy keeps what is known of an event.
LEMMA SatisfiedFacts ==
    ASSUME NEW ev \in EventRecord, CountOK(ev), NEW h \in HandlesOf(ev.data)
    PROVE  /\ Persists(ev, Satisfied(ev, h)) /\ CountOK(Satisfied(ev, h))
           /\ AddsOne(ev, Satisfied(ev, h))
           /\ Satisfied(ev, h).source = ev.source
           /\ ev.type # "latch" /\ ~ Triggered(ev) =>
                Satisfied(ev, h).payloads = Append(ev.payloads, h)
<1>1. ev.dependents \in Nat
    BY EventFields
<1>2. Persists(ev, ev) /\ AddsOne(ev, ev)
    BY AppendFacts DEF AddsOne
<1>3. CASE ev.type = "latch"
    <2>1. Satisfied(ev, h) = IF Triggered(ev) THEN ev ELSE Down(ev)
        BY <1>3 DEF Satisfied
    <2>2. QED
        BY <1>2, <1>3, <2>1, LatchFacts
<1>4. CASE ev.type = "channel"
    <2>1. Satisfied(ev, h) = Trigger(ev, h)
        BY <1>4 DEF Satisfied
    <2>2. QED
        BY <1>4, <2>1, TriggerPersists DEF AddsOne
<1>5. CASE ev.type # "latch" /\ ev.type # "channel"
    <2>1. Satisfied(ev, h) = IF Triggered(ev) THEN ev ELSE Trigger(ev, h)
        BY <1>5 DEF Satisfied
    <2>2. QED
        BY <1>2, <1>5, <2>1, TriggerPersists DEF AddsOne
<1>6. QED
    BY <1>3, <1>4, <1>5

\* A new event starts with the payloads of those that had its label before.
LEMMA CreatedFacts ==
    ASSUME NEW old \in EventRecord, NEW type \in Types, NEW data \in DataTypes \cup {Void},
           NEW count \in Nat
    PROVE  LET new == Created(old, type, data, count)
           IN  /\ new \in EventRecord
               /\ new.type = type /\ new.data = data /\ new.base = Len(old.payloads)
               /\ new.payloads = old.payloads /\ new.source = Hole /\ new.dependents = 0
               /\ new.count = count
               /\ CountOK(new)
<1> DEFINE n == Len(old.payloads)
           counter == IF type \in {"latch", "counted", "channel"} THEN count ELSE 0
           new == [type |-> type, data |-> data, count |-> count, counter |-> counter, base |-> n,
                   payloads |-> old.payloads, dependents |-> 0, source |-> Hole, ups |-> 0,
                   downs |-> 0]
<1>1. old.payloads \in Seq(Handles)
    BY EventFields
<1>2. n \in Nat /\ counter \in Int /\ 0 \in Nat
    BY <1>1
<1>3. Created(old, type, data, count) =
        [Absent EXCEPT !.type = type, !.data = data, !.count = count, !.counter = counter,
                       !.base = n, !.payloads = old.payloads]
    BY DEF Created
<1>4. type = "latch" => counter = count + 0 - 0
    OBVIOUS
<1>5. type = "counted" => counter = count
    OBVIOUS
<1>6. n <= Len(old.payloads) /\ ~ Len(old.payloads) - n > 0
    BY <1>2
<1> HIDE DEF n, counter
<1>7. Created(old, type, data, count) = new
    BY <1>3 DEF Absent
<1>8. new \in EventRecord
    BY <1>1, <1>2 DEF EventRecord
<1>9. CountOK(new)
    BY <1>2, <1>4, <1>5, <1>6 DEF CountOK, Triggered, Triggers
<1>10. QED
    BY <1>7, <1>8, <1>9 DEF n

\* Slots have been attached to ev, no more; they are counted for two types.
Noted(ev, new) ==
    /\ new \in EventRecord
    /\ ev.type \notin {"counted", "channel"} => new = ev
    /\ \E n \in Nat : n >= ev.dependents /\ new = [ev EXCEPT !.dependents = n]

\* Attaching slots changes only the number of dependents.
LEMMA NotedFacts ==
    ASSUME NEW ev \in EventRecord, NEW new, Noted(ev, new)
    PROVE  /\ new.type = ev.type /\ new.data = ev.data /\ new.count = ev.count
           /\ new.counter = ev.counter /\ new.base = ev.base /\ new.payloads = ev.payloads
           /\ new.source = ev.source /\ new.ups = ev.ups /\ new.downs = ev.downs
           /\ ev.dependents <= new.dependents
           /\ Persists(ev, new)
           /\ CountOK(ev) => CountOK(new)
<1>1. PICK n \in Nat : n >= ev.dependents /\ new = [ev EXCEPT !.dependents = n]
    BY DEF Noted
<1>2. /\ new.type = ev.type /\ new.data = ev.data /\ new.count = ev.count
      /\ new.counter = ev.counter /\ new.base = ev.base /\ new.payloads = ev.payloads
      /\ new.source = ev.source /\ new.ups = ev.ups /\ new.downs = ev.downs
      /\ new.dependents = n
    BY <1>1 DEF EventRecord
<1>3. n \in Nat /\ ev.dependents \in Nat /\ ev.payloads \in Seq(Handles)
    BY EventFields
<1>4. ev.dependents <= new.dependents
    BY <1>1, <1>2, <1>3
<1>5. \A k \in Len(ev.payloads) + 1 .. Len(new.payloads) : FALSE
    BY <1>2, <1>3
<1>6. Persists(ev, new)
    BY <1>2, <1>4, <1>5, KeepsFacts DEF Persists, Noted
<1>7. CountOK(ev) => CountOK(new)
    BY <1>2 DEF CountOK, Triggered, Triggers
<1>8. QED
    BY <1>2, <1>4, <1>6, <1>7

\* Attaching slots to events counts them and does nothing else.
LEMMA WithDependentsFacts ==
    ASSUME NEW events \in [EventIds -> EventRecord], NEW adds, IsFiniteSet(DOMAIN adds),
           \A e \in EventIds : event[e].type \in {"counted", "channel"} =>
             events[e].type = event[e].type
    PROVE  /\ WithDependents(events, adds) \in [EventIds -> EventRecord]
           /\ \A e \in EventIds : Noted(events[e], WithDependents(events, adds)[e])
           /\ \A s \in DOMAIN adds : Counts(adds[s]) /\ adds[s][1] \in EventIds =>
                events[adds[s][1]].dependents < WithDependents(events, adds)[adds[s][1]].dependents
<1> DEFINE S(e) == { s \in DOMAIN adds : Counts(adds[s]) /\ adds[s][1] = e }
           n(e) == Cardinality(S(e))
           after(e) == events[e].dependents + n(e)
<1>1. \A e \in EventIds : IsFiniteSet(S(e))
    BY FS_Subset
<1>2. \A e \in EventIds : n(e) \in Nat
    BY <1>1, FS_CardinalityType
<1>3. \A e \in EventIds : \A s \in S(e) : n(e) # 0
    BY <1>1, FS_EmptySet
<1>4. WithDependents(events, adds) =
        [e \in EventIds |-> [events[e] EXCEPT !.dependents = after(e)]]
    BY DEF WithDependents
<1>5. \A e \in EventIds : events[e].dependents \in Nat
    BY EventFields
<1> HIDE DEF n
<1>6. \A e \in EventIds : after(e) \in Nat /\ after(e) >= events[e].dependents
    BY <1>2, <1>5
<1>7. \A e \in EventIds : \A s \in S(e) : after(e) > events[e].dependents
    BY <1>2, <1>3, <1>5
<1> HIDE DEF after
<1>8. \A e \in EventIds : [events[e] EXCEPT !.dependents = after(e)] \in EventRecord
    BY <1>6, EventFields
<1>9. \A e \in EventIds : [events[e] EXCEPT !.dependents = after(e)].dependents = after(e)
    BY DEF EventRecord
<1>10. \A e \in EventIds : WithDependents(events, adds)[e] = [events[e] EXCEPT !.dependents = after(e)]
    BY <1>4
<1>11. \A e \in EventIds : Noted(events[e], WithDependents(events, adds)[e])
    <2> SUFFICES ASSUME NEW e \in EventIds
                 PROVE  Noted(events[e], WithDependents(events, adds)[e])
        OBVIOUS
    <2>1. ASSUME events[e].type \notin {"counted", "channel"}
          PROVE  WithDependents(events, adds)[e] = events[e]
        <3>1. S(e) = {}
            BY <2>1 DEF Counts
        <3>2. n(e) = 0
            BY <3>1, FS_EmptySet DEF n
        <3>3. after(e) = events[e].dependents
            BY <1>5, <3>2 DEF after
        <3>4. [events[e] EXCEPT !.dependents = events[e].dependents] = events[e]
            BY DEF EventRecord
        <3>5. QED
            BY <1>10, <3>3, <3>4
    <2>2. QED
        BY <1>6, <1>8, <1>10, <2>1 DEF Noted
<1>12. \A s \in DOMAIN adds : Counts(adds[s]) => s \in S(adds[s][1])
    OBVIOUS
<1> HIDE DEF S
<1>13. \A s \in DOMAIN adds : Counts(adds[s]) /\ adds[s][1] \in EventIds =>
         events[adds[s][1]].dependents < WithDependents(events, adds)[adds[s][1]].dependents
    <2> SUFFICES ASSUME NEW s \in DOMAIN adds, Counts(adds[s]), adds[s][1] \in EventIds
                 PROVE  events[adds[s][1]].dependents
                            < WithDependents(events, adds)[adds[s][1]].dependents
        OBVIOUS
    <2> DEFINE e == adds[s][1]
    <2>1. e \in EventIds /\ s \in S(e)
        BY <1>12
    <2> HIDE DEF e
    <2>2. after(e) > events[e].dependents /\ WithDependents(events, adds)[e].dependents = after(e)
        BY <1>7, <1>9, <1>10, <2>1
    <2>3. events[e].dependents \in Nat /\ after(e) \in Nat
        BY <1>5, <1>6, <2>1
    <2>4. events[e].dependents < WithDependents(events, adds)[e].dependents
        BY <2>2, <2>3
    <2>5. QED
        BY <2>4 DEF e
<1>14. QED
    BY <1>4, <1>8, <1>11, <1>13

-----------------------------------------------------------------------------
(* The inductive invariant                                                 *)

\* The slot that a position has.
SlotOf(f, p) == IF p[1] = "dep" THEN SlotOfDep(f, p[2]) ELSE SlotWithinList(f, p[2])

TypeOfPosition(f, p) ==
    IF p[1] = "dep" THEN DepsFn(Sig[f].params)[p[2] + 1].type ELSE ListType(f)

\* Each position has a slot, with the source the program has given it, or a hole;
\* there are no other slots.  A slot without an event belongs to one that has been
\* triggered before.
Matches(f, n, slots, wanted) ==
    /\ DOMAIN slots = Indices(Depc(f) + n)
    /\ DOMAIN wanted \subseteq Positions(f, n)
    /\ \A p \in Positions(f, n) :
         IF p \in DOMAIN wanted
         THEN \/ slots[SlotOf(f, p)] = wanted[p]
              \/ slots[SlotOf(f, p)] = Lost /\ Ready(wanted[p])
         ELSE slots[SlotOf(f, p)] = Hole

\* The next definitions are about the record r of a task other than the main task.

\* A task that has been made has the slots that its function and its list call for.
SlotsOK(r) ==
    r.phase # "absent" =>
        /\ r.phase # "garbage"
        /\ r.fn \in Fns
        /\ r.count > 0 => VarArgs(r.fn)
        /\ Matches(r.fn, r.count, r.slots, r.wanted)

\* What the function of a task with the record r has got at position p.
ArgumentOf(r, p) == IF p[1] = "dep" THEN r.deps[p[2] + 1] ELSE r.list.items[p[2] + 1]

\* A task that has started has got the payloads of all its sources.
RunOK(r) ==
    r.phase \in {"running", "ended"} =>
        /\ DOMAIN r.wanted = Positions(r.fn, r.count)
        /\ Len(r.deps) = Depc(r.fn)
        /\ Len(r.list.items) = r.count
        /\ \A p \in DOMAIN r.wanted :
             Ready(r.wanted[p]) /\ ArgumentOf(r, p) = Payload(r.wanted[p])

\* Lists have room for what is in them.
ListOK(r) == Len(r.list.items) <= r.list.capacity

\* The output event of a task is its own, and triggered when the task has ended.
OutOK(t) ==
    LET e == task[t].out
    IN  e # NoEvent =>
            /\ e \in EventIds \ Labels
            /\ event[e].type = "once"
            /\ event[e].source = Hole
            /\ event[e].base = 0
            /\ event[e].data = Sig[task[t].fn].returns
            /\ event[e].payloads = IF task[t].phase = "ended" THEN << task[t].result >> ELSE << >>
            /\ \A u \in Tasks : task[u].out = e => u = t

\* There is room for the payloads to come.
RoomOK(ev) ==
    Exists(ev) =>
        /\ ev.base <= MaxPayloads
        /\ ev.type # "channel" => Len(ev.payloads) <= ev.base + 1
        /\ ev.type = "channel" /\ IsClaim(ev.source) => Len(ev.payloads) <= MaxPayloads

\* x has led or will lead to a datablock of type T.
Delivers(x, T) ==
    IF IsClaim(x)
    THEN LET ev == event[x[1]]
         IN  IF x[2] <= Len(ev.payloads)
             THEN ev.payloads[x[2]] \in HandlesOf(T)
             ELSE Exists(ev) /\ ev.data = T /\ (ev.type = "channel" \/ x[2] = ev.base + 1)
    ELSE x \in HandlesOf(T)

\* All sources of a task lead to datablocks of the types its function declares.
TaskDelivers(r) ==
    r.phase # "destroyed" =>
        \A p \in DOMAIN r.wanted : Delivers(r.wanted[p], TypeOfPosition(r.fn, p))

\* An event passes on datablocks of its own type only.
EventDelivers(ev) ==
    /\ IsClaim(ev.source) => Exists(ev) /\ Delivers(ev.source, ev.data)
    /\ Exists(ev) => \A k \in ev.base + 1 .. Len(ev.payloads) : ev.payloads[k] \in HandlesOf(ev.data)

\* The invariant: what tasks hold (Matches, RunOK) is right because events do not lose
\* or replace payloads (CountOK, RoomOK, OutOK) and are given what is of their type.
Core ==
    /\ TypeInv
    /\ UnusedOK
    /\ \A t \in Tasks \ {Main} : SlotsOK(task[t]) /\ RunOK(task[t]) /\ TaskDelivers(task[t])
    /\ \A t \in Tasks : ListOK(task[t]) /\ OutOK(t)
    /\ \A e \in EventIds : CountOK(event[e]) /\ RoomOK(event[e]) /\ EventDelivers(event[e])

\* The heart of the matter: for every signature and every length of the list,
\* positions and slots correspond one to one, the fixed parameters first.
LEMMA PositionFacts ==
    ASSUME NEW f \in Fns, NEW n \in Nat
    PROVE  /\ Positions(f, n) \subseteq {"dep", "list"} \X Nat
           /\ \A p \in Positions(f, n) : SlotOf(f, p) \in Indices(Depc(f) + n)
           /\ \A p, q \in Positions(f, n) : SlotOf(f, p) = SlotOf(f, q) => p = q
           /\ \A s \in Indices(Depc(f) + n) :
                \E p \in Positions(f, n) :
                   /\ SlotOf(f, p) = s
                   /\ p = IF s < Depc(f) THEN << "dep", s >> ELSE << "list", s - Depc(f) >>
           /\ \A i \in Indices(Depc(f)) : << "dep", i >> \in Positions(f, n) /\ SlotOf(f, << "dep", i >>) = i
           /\ \A i \in Indices(n) :
                << "list", i >> \in Positions(f, n) /\ SlotOf(f, << "list", i >>) = Depc(f) + i
           /\ \A p \in Positions(f, n) :
                \/ \E i \in Indices(Depc(f)) : p = << "dep", i >>
                \/ \E i \in Indices(n) : p = << "list", i >>
<1> DEFINE d == Depc(f)
<1>1. d \in Nat
    BY SignatureFacts
<1>2. \A p \in Positions(f, n) :
        \/ \E i \in 0 .. d - 1 : p = << "dep", i >>
        \/ \E i \in 0 .. n - 1 : p = << "list", i >>
    BY DEF Positions, Indices
<1>3. /\ \A i \in 0 .. d - 1 : << "dep", i >> \in Positions(f, n)
      /\ \A i \in 0 .. n - 1 : << "list", i >> \in Positions(f, n)
    BY DEF Positions, Indices
<1>4. \A i : SlotOf(f, << "dep", i >>) = i /\ SlotOf(f, << "list", i >>) = d + i
    BY DEF SlotOf, SlotOfDep, SlotWithinList
<1> HIDE DEF d
<1>5. \A p \in Positions(f, n) : SlotOf(f, p) \in 0 .. d + n - 1
    BY <1>1, <1>2, <1>4
<1>6. \A p, q \in Positions(f, n) : SlotOf(f, p) = SlotOf(f, q) => p = q
    BY <1>1, <1>2, <1>4
<1>7. ASSUME NEW s \in 0 .. d + n - 1
      PROVE  \E p \in Positions(f, n) :
                /\ SlotOf(f, p) = s
                /\ p = IF s < d THEN << "dep", s >> ELSE << "list", s - d >>
    <2>1. CASE s < d
        <3>1. s \in 0 .. d - 1
            BY <1>1, <2>1
        <3>2. QED
            BY <1>3, <1>4, <2>1, <3>1
    <2>2. CASE ~ s < d
        <3>1. s - d \in 0 .. n - 1 /\ d + (s - d) = s
            BY <1>1, <2>2
        <3>2. << "list", s - d >> \in Positions(f, n) /\ SlotOf(f, << "list", s - d >>) = s
            BY <1>3, <1>4, <3>1
        <3>3. QED
            BY <2>2, <3>2
    <2>3. QED
        BY <2>1, <2>2
<1>8. Positions(f, n) \subseteq {"dep", "list"} \X Nat
    BY <1>1, <1>2
<1>9. Indices(d + n) = 0 .. d + n - 1 /\ Indices(d) = 0 .. d - 1 /\ Indices(n) = 0 .. n - 1
    BY <1>1 DEF Indices
<1> HIDE DEF Indices
<1>10. \A p \in Positions(f, n) : SlotOf(f, p) \in Indices(d + n)
    BY <1>5, <1>9
<1>11. \A s \in Indices(d + n) :
         \E p \in Positions(f, n) :
            /\ SlotOf(f, p) = s
            /\ p = IF s < d THEN << "dep", s >> ELSE << "list", s - d >>
    BY <1>7, <1>9
<1>12. QED
    BY <1>2, <1>3, <1>4, <1>6, <1>8, <1>9, <1>10, <1>11 DEF d

\* The type DependOn looks up is that of the position.
LEMMA ExpectedTypes ==
    ASSUME NEW f \in Fns, NEW i \in Indices(Depc(f))
    PROVE  ExpectedType(Sig[f].params, i) = TypeOfPosition(f, << "dep", i >>)
<1> DEFINE sig == Sig[f].params
           args == AfterParam(sig)
           S == Range(sig)
<1>1. Legal(sig)
    BY TaskGraphAssumption
<1>2. sig \in Seq([kind : Kinds, type : { sig[k].type : k \in DOMAIN sig }])
    BY <1>1 DEF Legal
<1>3. sig \in Seq(S)
    BY SMTT(30), <1>2 DEF Range
<1>4. Depc(f) = Len(DepsFn(sig)) /\ Depc(f) \in Nat
    BY SignatureFacts DEF sig
<1>5. i \in Nat /\ i < Len(DepsFn(sig))
    BY <1>4 DEF Indices
<1> HIDE DEF sig, S
<1>6. args \in Seq(S)
    BY <1>3 DEF AfterParam, HasParam
<1>7. \A k \in 1 .. Len(args) : args[k] = sig[k + DepStart(sig)]
    <2>1. CASE HasParam(sig)
        <3>1. sig # << >> /\ args = Tail(sig) /\ DepStart(sig) = 1
            BY <2>1 DEF HasParam, AfterParam, DepStart
        <3>2. QED
            BY <1>3, <3>1
    <2>2. CASE ~ HasParam(sig)
        <3>1. args = sig /\ DepStart(sig) = 0
            BY <2>2 DEF AfterParam, DepStart
        <3>2. QED
            BY <1>3, <3>1
    <2>3. QED
        BY <2>1, <2>2
<1> HIDE DEF args
<1>8. i + 1 \in 1 .. Len(args) /\ DepsFn(sig)[i + 1] = args[i + 1]
    <2>1. DepsFn(sig) = IF HasVarArgs(sig) THEN SubSeq(args, 1, Len(args) - 1) ELSE args
        BY DEF DepsFn, args
    <2>2. CASE HasVarArgs(sig) /\ args # << >>
        <3>1. Len(args) \in Nat /\ Len(args) - 1 \in 0 .. Len(args)
            BY <1>6, <2>2
        <3>2. Len(SubSeq(args, 1, Len(args) - 1)) = Len(args) - 1
            <4> DEFINE m == Len(args) - 1
            <4>1. m \in Nat /\ m <= Len(args)
                BY <3>1
            <4> HIDE DEF m
            <4>2. Len(SubSeq(args, 1, m)) = m
                BY <1>6, <4>1
            <4>3. QED
                BY <4>2 DEF m
        <3>3. i + 1 \in 1 .. Len(args) - 1
            BY <1>5, <2>1, <2>2, <3>1, <3>2
        <3>4. SubSeq(args, 1, Len(args) - 1)[i + 1] = args[i + 1]
            BY <1>6, <3>1, <3>3
        <3>5. QED
            BY <2>1, <2>2, <3>1, <3>3, <3>4
    <2>3. CASE HasVarArgs(sig) /\ args = << >>
        <3>1. Len(SubSeq(<< >>, 1, 0 - 1)) = 0
            OBVIOUS
        <3>2. Len(DepsFn(sig)) = 0
            BY <2>1, <2>3, <3>1
        <3>3. QED
            BY <1>5, <3>2
    <2>4. CASE ~ HasVarArgs(sig)
        BY <1>5, <1>6, <2>1, <2>4
    <2>5. QED
        BY <2>2, <2>3, <2>4
<1>9. DepStart(sig) \in Nat
    BY DEF DepStart
<1>10. ExpectedType(sig, i) = sig[i + DepStart(sig) + 1].type
    BY DEF ExpectedType, Arg
<1>11. i + DepStart(sig) + 1 = i + 1 + DepStart(sig)
    BY <1>5, <1>9
<1>12. ExpectedType(sig, i) = DepsFn(sig)[i + 1].type
    BY <1>7, <1>8, <1>10, <1>11
<1>13. QED
    BY <1>12 DEF TypeOfPosition, sig

\* The main task has no slots and no output event.
LEMMA MainFacts ==
    ASSUME UnusedOK
    PROVE  /\ task[Main].phase \in {"running", "ended"}
           /\ task[Main].out = NoEvent /\ task[Main].fn = Main /\ task[Main].list = EmptyList
           /\ task[Main].wanted = << >> /\ task[Main].slots = << >> /\ task[Main].deps = << >>
<1>1. PICK h \in Handles, phase \in {"running", "ended"} :
        task[Main] = [NoTask EXCEPT !.phase = phase, !.result = h]
    BY DEF UnusedOK
<1>2. QED
    BY <1>1 DEF NoTask

-----------------------------------------------------------------------------
(* What a source of a type is                                              *)

\* What may be depended on exists.
LEMMA AwaitFacts ==
    ASSUME Core, NEW e \in EventIds, MayDependOn(e)
    PROVE  Exists(event[e])
<1>1. CASE \E t \in Tasks : task[t].out = e
    <2>1. PICK t \in Tasks : task[t].out = e
        BY <1>1
    <2>2. e # NoEvent
        BY TaskGraphAssumption
    <2>3. event[e].type = "once"
        BY <2>1, <2>2 DEF Core, OutOK
    <2>4. QED
        BY <2>3 DEF Exists
<1>2. CASE ~ \E t \in Tasks : task[t].out = e
    BY <1>2 DEF MayDependOn, MayAwait
<1>3. QED
    BY <1>1, <1>2

\* A claim on such an event gets payloads of the event's type, and does not wait for
\* an event that is gone.
LEMMA ClaimFacts ==
    ASSUME Core, NEW e \in EventIds, MayDependOn(e)
    PROVE  /\ Claim(e) \in Claims /\ IsClaim(Claim(e))
           /\ Claim(e)[1] = e
           /\ event[e].type # "channel" => Claim(e)[2] = event[e].base + 1
           /\ event[e].type = "channel" => Claim(e)[2] = event[e].base + 1 + event[e].dependents
           /\ Delivers(Claim(e), event[e].data)
           /\ Gone(Claim(e)) => Ready(Claim(e))
<1>1. Claim(e) \in Claims /\ IsClaim(Claim(e))
    BY SourceFacts, DistinctGuids DEF Core
<1>2. Claim(e)[1] = e /\ Claim(e)[2] = Turn(event[e])
    BY DEF Claim
<1>3. event[e] \in EventRecord
    BY DEF Core, TypeInv
<1>4. event[e].base \in Nat /\ event[e].dependents \in Nat /\ event[e].payloads \in Seq(Handles)
    BY <1>3, EventFields
<1>5. /\ event[e].type # "channel" => Turn(event[e]) = event[e].base + 1
      /\ event[e].type = "channel" => Turn(event[e]) = event[e].base + 1 + event[e].dependents
    BY <1>4 DEF Turn, ChannelNbDeps
<1>6. Turn(event[e]) \in Nat /\ Turn(event[e]) >= event[e].base + 1
    BY <1>4, <1>5
<1>7. Exists(event[e])
    BY AwaitFacts
<1>8. EventDelivers(event[e])
    BY DEF Core
<1>9. Delivers(Claim(e), event[e].data)
    <2>1. CASE Turn(event[e]) <= Len(event[e].payloads)
        <3>1. Turn(event[e]) \in event[e].base + 1 .. Len(event[e].payloads)
            BY <1>4, <1>6, <2>1
        <3>2. event[e].payloads[Turn(event[e])] \in HandlesOf(event[e].data)
            BY <1>7, <1>8, <3>1 DEF EventDelivers
        <3>3. QED
            BY <1>1, <1>2, <2>1, <3>2 DEF Delivers
    <2>2. CASE ~ Turn(event[e]) <= Len(event[e].payloads)
        BY <1>1, <1>2, <1>5, <1>7, <2>2 DEF Delivers
    <2>3. QED
        BY <2>1, <2>2
<1>10. ASSUME Gone(Claim(e)) PROVE Ready(Claim(e))
    <2>1. Spent(event[e])
        BY <1>2, <1>7, <1>10 DEF Gone, Live
    <2>2. event[e].type # "channel" /\ Len(event[e].payloads) - event[e].base > 0
        BY <2>1 DEF Spent, Triggered, Triggers
    <2>3. Turn(event[e]) <= Len(event[e].payloads)
        BY <1>4, <1>5, <2>2
    <2>4. QED
        BY <1>1, <1>2, <2>3 DEF Ready
<1>11. QED
    BY <1>1, <1>2, <1>5, <1>9, <1>10

\* Whatever the program may give for a parameter of type T delivers something of
\* type T.
LEMMA SourceDelivers ==
    ASSUME Core, NEW T, NEW x \in SourcesOf(T)
    PROVE  /\ x \in Handles \cup Claims
           /\ Delivers(x, T)
           /\ Gone(x) => Ready(x)
           /\ IsClaim(x) => \E e \in EventIds : x = Claim(e) /\ event[e].data = T /\ MayDependOn(e)
<1>1. CASE x \in HandlesOf(T)
    BY <1>1, HandleFacts DEF Delivers, Gone
<1>2. CASE x \notin HandlesOf(T)
    <2>1. PICK e \in EventIds : x = Claim(e) /\ event[e].data = T /\ MayDependOn(e)
        BY <1>2 DEF SourcesOf
    <2>2. QED
        BY <2>1, ClaimFacts
<1>3. QED
    BY <1>1, <1>2

\* A task that has not been created.
LEMMA NoTaskTypes == NoTask \in TaskRecord
<1>1. << >> \in [{} -> Handles \cup Claims \cup {Hole, Lost}] /\ << >> \in [{} -> Handles \cup Claims]
    OBVIOUS
<1>2. << >> \in SlotMaps /\ << >> \in WantedMaps
    <2>1. {} \in SUBSET Nat /\ {} \in SUBSET ({"dep", "list"} \X Nat)
        OBVIOUS
    <2>2. QED
        BY <1>1, <2>1 DEF SlotMaps, WantedMaps
<1>3. EmptyList \in ListRecord /\ << >> \in Seq(Handles) /\ NullGuid \in Handles
    BY DEF EmptyList, ListRecord, Handles
<1>4. QED
    BY <1>2, <1>3 DEF NoTask, TaskRecord, Phases

\* The fields of the record of a task.
LEMMA TaskFields ==
    ASSUME NEW r \in TaskRecord
    PROVE  /\ r.count \in Nat /\ r.slots \in SlotMaps /\ r.wanted \in WantedMaps
           /\ r.deps \in Seq(Handles) /\ r.list \in ListRecord /\ r.result \in Handles
           /\ r.out \in EventIds \cup {NoEvent} /\ r.fn \in Fns \cup {Main} /\ r.phase \in Phases
           /\ r.wanted \in [DOMAIN r.wanted -> Handles \cup Claims]
           /\ DOMAIN r.wanted \subseteq {"dep", "list"} \X Nat
           /\ r.slots \in [DOMAIN r.slots -> Handles \cup Claims \cup {Hole, Lost}]
<1>1. r.wanted \in WantedMaps /\ r.slots \in SlotMaps
    BY DEF TaskRecord
<1>2. PICK P \in SUBSET ({"dep", "list"} \X Nat) : r.wanted \in [P -> Handles \cup Claims]
    BY <1>1 DEF WantedMaps
<1>3. PICK S \in SUBSET Nat : r.slots \in [S -> Handles \cup Claims \cup {Hole, Lost}]
    BY <1>1 DEF SlotMaps
<1>4. QED
    BY <1>1, <1>2, <1>3 DEF TaskRecord

-----------------------------------------------------------------------------
(* What steps do                                                           *)

\* The sources given are of the types of their positions, and what is sent once is
\* for one position.
GivenOK(f, given) ==
    /\ \A p \in DOMAIN given : given[p] \in SourcesOf(TypeOfPosition(f, p))
    /\ \A p, q \in DOMAIN given : p # q /\ given[p] = given[q] => ~ Counts(given[p])

\* All that wait for a channel are counted.
Counted(given) ==
    \A p \in DOMAIN given : Counts(given[p]) =>
        event[given[p][1]].dependents < event'[given[p][1]].dependents

\* The ways in which a source a program may give does not get to its slot: its event
\* is gone, or a list that has been received has more places than elements.
Unattachable ==
    \/ \E T : \E x \in SourcesOf(T) : Gone(x)
    \/ \E f \in Fns : \E list \in ReceivedLists(f) : list.capacity # Len(list.items)

\* A task with the record r is created, and its output event.
Making(t, r) ==
    /\ t # Main
    /\ task[t].phase = "absent"
    /\ r \in TaskRecord
    /\ r.phase = "created"
    /\ r.list = EmptyList
    /\ SlotsOK(r)
    /\ Lost \in Range(r.slots) => Unattachable
    /\ GivenOK(r.fn, r.wanted)
    /\ r.out # NoEvent => r.out \in EventIds \ Labels /\ event[r.out].type = "absent"
    /\ task' = [task EXCEPT ![t] = r]
    /\ event' \in [EventIds -> EventRecord]
    /\ \A e \in EventIds :
         Noted(IF e = r.out THEN Created(Absent, "once", Sig[r.fn].returns, 0) ELSE event[e],
               event'[e])
    /\ Counted(r.wanted)

\* A task gets more sources and then has the record r.
Filling(t, given, r) ==
    /\ task[t].phase = "created"
    /\ DOMAIN given \cap DOMAIN task[t].wanted = {}
    /\ r \in TaskRecord
    /\ r.phase = "created" /\ r.fn = task[t].fn /\ r.out = task[t].out
    /\ r.count = task[t].count /\ r.list = task[t].list /\ r.result = task[t].result
    /\ r.wanted = Over(given, task[t].wanted)
    /\ SlotsOK(r)
    /\ Lost \in Range(r.slots) => Lost \in Range(task[t].slots)
    /\ GivenOK(r.fn, given)
    /\ task' = [task EXCEPT ![t] = r]
    /\ event' \in [EventIds -> EventRecord]
    /\ \A e \in EventIds : Noted(event[e], event'[e])
    /\ Counted(given)

\* One map over another.
LEMMA OverFacts ==
    ASSUME NEW f, NEW g
    PROVE  /\ DOMAIN Over(f, g) = DOMAIN f \cup DOMAIN g
           /\ \A x \in DOMAIN f : Over(f, g)[x] = f[x]
           /\ \A x \in DOMAIN g : x \notin DOMAIN f => Over(f, g)[x] = g[x]
           /\ \A R : f \in [DOMAIN f -> R] /\ g \in [DOMAIN g -> R] =>
                Over(f, g) \in [DOMAIN f \cup DOMAIN g -> R]
BY DEF Over

\* ocrEdtCreate with as many dependences as the template has, at the slots of the
\* positions given, makes a task.
LEMMA CreateFacts ==
    ASSUME Core, NEW t \in Tasks, NEW f \in Fns, NEW n \in Nat, NEW out \in EventIds \cup {NoEvent},
           MayCreate(t, out), n > 0 => VarArgs(f),
           NEW depv, DOMAIN depv \subseteq Indices(Depc(f) + n),
           NEW wanted, wanted \in [DOMAIN wanted -> Handles \cup Claims],
           DOMAIN wanted \subseteq Positions(f, n),
           GivenOK(f, wanted),
           \A p \in Positions(f, n) :
             IF p \in DOMAIN wanted
             THEN SlotOf(f, p) \in DOMAIN depv /\ depv[SlotOf(f, p)] = wanted[p]
             ELSE SlotOf(f, p) \notin DOMAIN depv \/ depv[SlotOf(f, p)] = Hole,
           CreateEdt(t, f, n, out, Depc(f) + n, depv, wanted)
    PROVE  (\E r : Making(t, r)) /\ UNCHANGED failure
<1> DEFINE events == IF out = NoEvent THEN event
                     ELSE [event EXCEPT ![out] = Created(Absent, "once", Sig[f].returns, 0)]
           known  == Restrict(depv, { s \in DOMAIN depv : depv[s] # Hole })
           filled == [s \in DOMAIN known |-> IF Gone(known[s]) THEN Lost ELSE known[s]]
           holes  == [s \in Indices(Depc(f) + n) |-> Hole]
           slots  == Over(filled, holes)
           r == [NoTask EXCEPT !.phase = "created", !.fn = f, !.out = out, !.count = n,
                               !.slots = slots, !.wanted = wanted]
<1>1. Depc(f) \in Nat
    BY SignatureFacts
<1>2. Depc(f) + n \in TemplateDepc(Sig[f].params, {Depc(f) + n})
    <2>1. CASE VarArgs(f)
        BY <2>1 DEF TemplateDepc, VarArgs
    <2>2. CASE ~ VarArgs(f)
        <3>1. Depc(f) + n = Depc(f)
            BY <1>1, <2>2
        <3>2. QED
            BY <2>2, <3>1 DEF TemplateDepc, VarArgs, Depc
    <2>3. QED
        BY <2>1, <2>2
<1>3. /\ task' = [task EXCEPT ![t] = r]
      /\ event' = WithDependents(events, known)
      /\ UNCHANGED failure
    BY <1>2 DEF CreateEdt
<1>4. /\ DOMAIN known = { s \in DOMAIN depv : depv[s] # Hole }
      /\ \A s \in DOMAIN known : known[s] = depv[s]
    BY DEF Restrict
<1> HIDE DEF known
<1>5. IsFiniteSet(DOMAIN known)
    <2>1. IsFiniteSet(Indices(Depc(f) + n))
        <3>1. Depc(f) + n \in Nat
            BY <1>1
        <3>2. QED
            BY <3>1, IndexFacts
    <2>2. DOMAIN known \subseteq Indices(Depc(f) + n)
        BY <1>4
    <2>3. QED
        BY <2>1, <2>2, FS_Subset
<1>6. /\ event \in [EventIds -> EventRecord] /\ task \in [Tasks -> TaskRecord]
    BY DEF Core, TypeInv
<1>7. Created(Absent, "once", Sig[f].returns, 0) \in EventRecord
      /\ Created(Absent, "once", Sig[f].returns, 0).dependents = 0
    <2>1. "once" \in Types /\ 0 \in Nat /\ Sig[f].returns \in DataTypes \cup {Void}
        BY TaskGraphAssumption DEF Types
    <2>2. QED
        BY <2>1, AbsentTypes, CreatedFacts
<1>8. events \in [EventIds -> EventRecord]
    BY <1>6, <1>7
<1>9. \A e \in EventIds :
        events[e] = IF e = out THEN Created(Absent, "once", Sig[f].returns, 0) ELSE event[e]
    BY <1>6, TaskGraphAssumption
<1>10. \A e \in EventIds : events[e].dependents = event[e].dependents
    <2>1. out # NoEvent => event[out] = Absent
        BY DEF Core, UnusedOK, MayCreate
    <2>2. Absent.dependents = 0
        BY DEF Absent
    <2>3. QED
        BY <1>7, <1>9, <2>1, <2>2
<1> HIDE DEF events
<1>11. /\ event' \in [EventIds -> EventRecord]
       /\ \A e \in EventIds : Noted(events[e], event'[e])
       /\ \A s \in DOMAIN known : Counts(known[s]) /\ known[s][1] \in EventIds =>
             events[known[s][1]].dependents < event'[known[s][1]].dependents
    <2>1. \A e \in EventIds : event[e].type \in {"counted", "channel"} =>
            events[e].type = event[e].type
        BY <1>9, TaskGraphAssumption DEF MayCreate
    <2>2. QED
        BY <1>3, <1>5, <1>8, <2>1, WithDependentsFacts
<1>12. \A p \in DOMAIN wanted :
         SlotOf(f, p) \in DOMAIN known /\ known[SlotOf(f, p)] = wanted[p]
    BY <1>4, DistinctGuids
<1>13. \A p \in Positions(f, n) \ DOMAIN wanted : SlotOf(f, p) \notin DOMAIN known
    BY <1>4
<1>14. Counted(wanted)
    <2> SUFFICES ASSUME NEW p \in DOMAIN wanted, Counts(wanted[p])
                 PROVE  event[wanted[p][1]].dependents < event'[wanted[p][1]].dependents
        BY DEF Counted
    <2>1. wanted[p][1] \in EventIds
        BY DistinctGuids DEF Counts
    <2>2. QED
        BY <1>10, <1>11, <1>12, <2>1
<1>15. DOMAIN known \subseteq Indices(Depc(f) + n)
    BY <1>4
<1>16. /\ DOMAIN slots = Indices(Depc(f) + n)
       /\ \A s \in DOMAIN known : slots[s] = IF Gone(known[s]) THEN Lost ELSE known[s]
       /\ \A s \in Indices(Depc(f) + n) \ DOMAIN known : slots[s] = Hole
    BY <1>15 DEF Over
<1> HIDE DEF slots
<1>17. Matches(f, n, slots, wanted)
    <2> SUFFICES ASSUME NEW p \in Positions(f, n)
                 PROVE  IF p \in DOMAIN wanted
                        THEN \/ slots[SlotOf(f, p)] = wanted[p]
                             \/ slots[SlotOf(f, p)] = Lost /\ Ready(wanted[p])
                        ELSE slots[SlotOf(f, p)] = Hole
        BY <1>16 DEF Matches
    <2>1. SlotOf(f, p) \in Indices(Depc(f) + n)
        BY PositionFacts
    <2>2. CASE p \in DOMAIN wanted
        <3>1. Gone(wanted[p]) => Ready(wanted[p])
            BY <2>2, SourceDelivers DEF GivenOK
        <3>2. QED
            BY <1>12, <1>16, <2>2, <3>1
    <2>3. CASE p \notin DOMAIN wanted
        BY <1>13, <1>16, <2>1, <2>3
    <2>4. QED
        BY <2>2, <2>3
<1>18. slots \in SlotMaps
    <2>1. \A s \in DOMAIN slots : slots[s] \in Handles \cup Claims \cup {Hole, Lost}
        <3> SUFFICES ASSUME NEW s \in DOMAIN slots
                     PROVE  slots[s] \in Handles \cup Claims \cup {Hole, Lost}
            OBVIOUS
        <3>1. PICK p \in Positions(f, n) : SlotOf(f, p) = s
            BY <1>16, PositionFacts
        <3>2. QED
            BY <1>17, <3>1 DEF Matches
    <2>2. slots = [s \in DOMAIN slots |-> slots[s]]
        BY DEF slots, Over
    <2>3. slots \in [DOMAIN slots -> Handles \cup Claims \cup {Hole, Lost}]
        BY <2>1, <2>2
    <2>4. DOMAIN slots \in SUBSET Nat
        BY <1>1, <1>16 DEF Indices
    <2>5. QED
        BY <2>3, <2>4 DEF SlotMaps
<1>19. wanted \in WantedMaps
    <2>1. DOMAIN wanted \in SUBSET ({"dep", "list"} \X Nat)
        BY PositionFacts
    <2>2. QED
        BY <2>1 DEF WantedMaps
<1>20. r \in TaskRecord
    BY <1>18, <1>19, NoTaskTypes DEF TaskRecord, Phases
<1>21. /\ r.phase = "created" /\ r.fn = f /\ r.out = out /\ r.count = n /\ r.slots = slots
       /\ r.wanted = wanted /\ r.list = EmptyList
    BY DEF NoTask
<1> HIDE DEF r
<1>22. SlotsOK(r)
    BY <1>17, <1>21 DEF SlotsOK
<1>23. Lost \in Range(slots) => Unattachable
    <2> SUFFICES ASSUME Lost \in Range(slots) PROVE Unattachable
        OBVIOUS
    <2>1. PICK s \in DOMAIN slots : slots[s] = Lost
        BY DEF Range
    <2>2. PICK p \in Positions(f, n) : SlotOf(f, p) = s
        BY <1>16, <2>1, PositionFacts
    <2>3. s \in DOMAIN known
        BY <1>16, <2>1, DistinctGuids
    <2>4. p \in DOMAIN wanted
        BY <1>13, <2>2, <2>3
    <2>5. known[s] = wanted[p] /\ wanted[p] # Lost
        BY <1>12, <2>2, <2>4, DistinctGuids
    <2>6. Gone(wanted[p])
        BY <1>16, <2>1, <2>3, <2>5
    <2>7. wanted[p] \in SourcesOf(TypeOfPosition(f, p))
        BY <2>4 DEF GivenOK
    <2>8. QED
        BY <2>6, <2>7 DEF Unattachable
<1>24. t # Main /\ task[t].phase = "absent"
       /\ (out # NoEvent => out \in EventIds \ Labels /\ event[out].type = "absent")
    <2>1. task[t].phase = "absent" /\ (out # NoEvent => out \in EventIds \ Labels /\ event[out].type = "absent")
        BY DEF MayCreate
    <2>2. task[Main].phase # "absent"
        BY DEF Core, UnusedOK, NoTask
    <2>3. QED
        BY <2>1, <2>2
<1>25. \A e \in EventIds :
         Noted(IF e = r.out THEN Created(Absent, "once", Sig[r.fn].returns, 0) ELSE event[e],
               event'[e])
    BY <1>9, <1>11, <1>21
<1>26. Making(t, r)
    BY <1>3, <1>11, <1>14, <1>20, <1>21, <1>22, <1>24, <1>25, <1>23 DEF Making
<1>27. QED
    BY <1>3, <1>26

\* The program ends with an assertion.
Failing(assertion) ==
    UNCHANGED << task, event >> /\ failure'.assertion = assertion

\* A failed assertion.
LEMMA FailFacts ==
    ASSUME NEW assertion, NEW out, NEW list, Fail(assertion, out, list)
    PROVE  Failing(assertion)
BY DEF Fail, Failing

\* ocrAddDependence at the slots of the positions given fills them, or a slot was
\* not empty.
LEMMA AttachFacts ==
    ASSUME Core, NEW t \in Tasks, task[t].phase = "created",
           NEW given, given \in [DOMAIN given -> Handles \cup Claims],
           DOMAIN given \subseteq Positions(task[t].fn, task[t].count) \ DOMAIN task[t].wanted,
           GivenOK(task[t].fn, given),
           NEW adds,
           \A p \in DOMAIN given :
             /\ SlotOf(task[t].fn, p) \in DOMAIN adds
             /\ adds[SlotOf(task[t].fn, p)] = given[p],
           \A s \in DOMAIN adds : s \in DOMAIN task[t].slots =>
             \E p \in DOMAIN given : SlotOf(task[t].fn, p) = s,
           \A s \in DOMAIN adds : s \notin DOMAIN task[t].slots => Unattachable,
           Attach(t, adds, given)
    PROVE  \/ Failing("dependence") /\ Unattachable
           \/ (\E r : Filling(t, given, r)) /\ UNCHANGED failure
<1> DEFINE f == task[t].fn
           n == task[t].count
           wanted == task[t].wanted
           slots == task[t].slots
           newSlots == Over(adds, slots)
           newWanted == Over(given, wanted)
           r == [task[t] EXCEPT !.slots = newSlots, !.wanted = newWanted]
<1>1. /\ event \in [EventIds -> EventRecord] /\ task \in [Tasks -> TaskRecord]
      /\ task[t] \in TaskRecord
    BY DEF Core, TypeInv
<1>2. t # Main
    <2>1. task[Main].phase \in {"running", "ended"}
        BY MainFacts DEF Core
    <2>2. QED
        BY <2>1
<1>3. SlotsOK(task[t])
    BY <1>2 DEF Core
<1>4. f \in Fns /\ n \in Nat /\ Matches(f, n, slots, wanted) /\ (n > 0 => VarArgs(f))
    BY <1>1, <1>3, TaskFields DEF SlotsOK
<1>5. Depc(f) \in Nat
    BY <1>4, SignatureFacts
<1>6. CASE AttachFails(slots, adds)
    <2>1. Fail("dependence", task[t].out, EmptyList)
        BY <1>6 DEF Attach
    <2>2. PICK s \in DOMAIN adds : s \notin DOMAIN slots \/ slots[s] # Hole \/ Gone(adds[s])
        BY <1>6 DEF AttachFails
    <2>3. Unattachable
        <3>1. CASE s \notin DOMAIN slots
            BY <3>1
        <3>2. CASE s \in DOMAIN slots
            <4>1. PICK p \in DOMAIN given : SlotOf(f, p) = s
                BY <3>2
            <4>2. slots[s] = Hole
                BY <1>4, <4>1 DEF Matches
            <4>3. Gone(given[p])
                BY <2>2, <3>2, <4>1, <4>2
            <4>4. given[p] \in SourcesOf(TypeOfPosition(f, p))
                BY DEF GivenOK
            <4>5. QED
                BY <4>3, <4>4 DEF Unattachable
        <3>3. QED
            BY <3>1, <3>2
    <2>4. QED
        BY <2>1, <2>3, FailFacts
<1>7. CASE ~ AttachFails(slots, adds)
    <2>1. /\ task' = [task EXCEPT ![t] = r]
          /\ event' = WithDependents(event, adds)
          /\ UNCHANGED failure
        BY <1>1, <1>7 DEF Attach
    <2>2. DOMAIN adds \subseteq DOMAIN slots
        BY <1>7 DEF AttachFails
    <2>3. DOMAIN slots = Indices(Depc(f) + n)
        BY <1>4 DEF Matches
    <2>4. IsFiniteSet(DOMAIN adds)
        <3>1. Depc(f) + n \in Nat
            BY <1>4, <1>5
        <3>2. IsFiniteSet(DOMAIN slots)
            BY <2>3, <3>1, IndexFacts
        <3>3. QED
            BY <2>2, <3>2, FS_Subset
    <2>5. /\ event' \in [EventIds -> EventRecord]
          /\ \A e \in EventIds : Noted(event[e], event'[e])
          /\ \A s \in DOMAIN adds : Counts(adds[s]) /\ adds[s][1] \in EventIds =>
                event[adds[s][1]].dependents < event'[adds[s][1]].dependents
        BY <1>1, <2>1, <2>4, WithDependentsFacts
    <2>6. Counted(given)
        <3> SUFFICES ASSUME NEW p \in DOMAIN given, Counts(given[p])
                     PROVE  event[given[p][1]].dependents < event'[given[p][1]].dependents
            BY DEF Counted
        <3>1. given[p][1] \in EventIds
            BY DistinctGuids DEF Counts
        <3>2. QED
            BY <2>5, <3>1
    <2>7. /\ DOMAIN newSlots = Indices(Depc(f) + n)
          /\ \A s \in DOMAIN adds : newSlots[s] = adds[s]
          /\ \A s \in DOMAIN slots \ DOMAIN adds : newSlots[s] = slots[s]
        BY <2>2, <2>3 DEF Over
    <2>8. /\ DOMAIN newWanted = DOMAIN given \cup DOMAIN wanted
          /\ \A p \in DOMAIN given : newWanted[p] = given[p]
          /\ \A p \in DOMAIN wanted \ DOMAIN given : newWanted[p] = wanted[p]
        BY DEF Over
    <2>9. wanted \in [DOMAIN wanted -> Handles \cup Claims]
          /\ slots \in [DOMAIN slots -> Handles \cup Claims \cup {Hole, Lost}]
        BY <1>1, TaskFields
    <2>10. newWanted \in [DOMAIN given \cup DOMAIN wanted -> Handles \cup Claims]
        BY <2>9, OverFacts
    <2>11. DOMAIN wanted \subseteq Positions(f, n)
        BY <1>4 DEF Matches
    <2>12. ASSUME NEW p \in Positions(f, n), p \notin DOMAIN given
           PROVE  SlotOf(f, p) \notin DOMAIN adds
        <3>1. SUFFICES ASSUME SlotOf(f, p) \in DOMAIN adds
                       PROVE  FALSE
            OBVIOUS
        <3>2. PICK q \in DOMAIN given : SlotOf(f, q) = SlotOf(f, p)
            BY <2>2, <3>1
        <3>3. q \in Positions(f, n)
            OBVIOUS
        <3>4. p = q
            BY <1>4, <3>2, <3>3, PositionFacts
        <3>5. QED
            BY <2>12, <3>4
    <2> HIDE DEF newSlots, newWanted
    <2>13. Matches(f, n, newSlots, newWanted)
        <3> SUFFICES ASSUME NEW p \in Positions(f, n)
                     PROVE  IF p \in DOMAIN newWanted
                            THEN \/ newSlots[SlotOf(f, p)] = newWanted[p]
                                 \/ newSlots[SlotOf(f, p)] = Lost /\ Ready(newWanted[p])
                            ELSE newSlots[SlotOf(f, p)] = Hole
            BY <2>7, <2>8, <2>11 DEF Matches
        <3>1. SlotOf(f, p) \in DOMAIN slots
            BY <1>4, <2>3, PositionFacts
        <3>2. CASE p \in DOMAIN given
            BY <2>7, <2>8, <3>2
        <3>3. CASE p \notin DOMAIN given
            <4>1. newSlots[SlotOf(f, p)] = slots[SlotOf(f, p)]
                BY <2>7, <2>12, <3>1, <3>3
            <4>2. QED
                BY <1>4, <2>8, <3>3, <4>1 DEF Matches
        <3>4. QED
            BY <3>2, <3>3
    <2>14. \A s \in DOMAIN adds : adds[s] \in Handles \cup Claims
        BY <2>2
    <2>15. Lost \in Range(newSlots) => Lost \in Range(slots)
        <3> SUFFICES ASSUME Lost \in Range(newSlots) PROVE Lost \in Range(slots)
            OBVIOUS
        <3>1. PICK s \in DOMAIN newSlots : newSlots[s] = Lost
            BY DEF Range
        <3>2. s \notin DOMAIN adds
            BY <2>7, <2>14, <3>1, DistinctGuids
        <3>3. s \in DOMAIN slots /\ slots[s] = Lost
            BY <2>3, <2>7, <3>1, <3>2
        <3>4. QED
            BY <3>3 DEF Range
    <2>16. newSlots \in [DOMAIN newSlots -> Handles \cup Claims \cup {Hole, Lost}]
        <3>1. \A s \in DOMAIN adds : adds[s] \in Handles \cup Claims
            BY <2>14
        <3>2. \A s \in DOMAIN newSlots : newSlots[s] \in Handles \cup Claims \cup {Hole, Lost}
            BY <2>3, <2>7, <2>9, <3>1
        <3>3. newSlots = [s \in DOMAIN newSlots |-> newSlots[s]]
            BY DEF newSlots, Over
        <3>4. QED
            BY <3>2, <3>3
    <2>17. newSlots \in SlotMaps /\ newWanted \in WantedMaps
        <3>1. DOMAIN newSlots \in SUBSET Nat
            BY <1>4, <1>5, <2>7 DEF Indices
        <3>2. DOMAIN newWanted \in SUBSET ({"dep", "list"} \X Nat)
            BY <1>4, <2>8, <2>11, PositionFacts
        <3>3. QED
            BY <2>8, <2>10, <2>16, <3>1, <3>2 DEF SlotMaps, WantedMaps
    <2>18. r \in TaskRecord
        BY <1>1, <2>17 DEF TaskRecord
    <2>19. /\ r.phase = "created" /\ r.fn = f /\ r.out = task[t].out /\ r.count = n
           /\ r.list = task[t].list /\ r.result = task[t].result
           /\ r.slots = newSlots /\ r.wanted = newWanted
        BY <1>1 DEF TaskRecord
    <2> HIDE DEF r
    <2>20. SlotsOK(r)
        BY <1>4, <2>13, <2>19 DEF SlotsOK
    <2>21. Filling(t, given, r)
        BY <2>1, <2>5, <2>6, <2>18, <2>19, <2>20, <2>15 DEF Filling, newWanted
    <2>22. QED
        BY <2>1, <2>21
<1>8. QED
    BY <1>6, <1>7

-----------------------------------------------------------------------------
(* Tasks are created                                                       *)

\* A list is of the type of the function it is for.
LEMMA ListDelivers ==
    ASSUME Core, NEW f \in Fns, NEW list \in Lists(f)
    PROVE  /\ list \in ListRecord
           /\ Len(list.items) <= list.capacity
           /\ \A j \in 1 .. Len(list.items) : list.items[j] \in HandlesOf(ListType(f))
           /\ list \notin ReceivedLists(f) => Len(list.items) = list.capacity
<1>1. list \in ListRecord
    BY ListFacts DEF Core
<1>2. CASE list \in ReceivedLists(f)
    <2>1. PICK t \in Tasks : /\ task[t].phase = "running" /\ task[t].fn \in Forwarding
                             /\ ListType(task[t].fn) = ListType(f) /\ list = task[t].list
        BY <1>2 DEF ReceivedLists, Running
    <2>2. Len(list.items) <= list.capacity
        BY <2>1 DEF Core, ListOK
    <2>3. ASSUME NEW j \in 1 .. Len(list.items) PROVE list.items[j] \in HandlesOf(ListType(f))
        <3>1. CASE t = Main
            <4>1. list = EmptyList
                BY <2>1, <3>1, MainFacts DEF Core
            <4>2. QED
                BY <2>3, <4>1 DEF EmptyList
        <3>2. CASE t # Main
            <4> DEFINE r == task[t]
            <4>1. r \in TaskRecord /\ SlotsOK(r) /\ RunOK(r) /\ TaskDelivers(r)
                BY <3>2 DEF Core, TypeInv
            <4> HIDE DEF r
            <4>2. r.phase = "running" /\ list = r.list /\ ListType(r.fn) = ListType(f)
                BY <2>1 DEF r
            <4>3. r.fn \in Fns /\ r.count \in Nat
                BY <4>1, <4>2, TaskFields DEF SlotsOK
            <4>4. Len(list.items) = r.count /\ DOMAIN r.wanted = Positions(r.fn, r.count)
                BY <4>1, <4>2 DEF RunOK
            <4> DEFINE i == j - 1
                       p == << "list", i >>
            <4>5. i \in Indices(r.count) /\ i + 1 = j
                BY <2>3, <4>3, <4>4 DEF Indices
            <4>6. p \in Positions(r.fn, r.count)
                BY <4>3, <4>5, PositionFacts
            <4>7. Ready(r.wanted[p]) /\ ArgumentOf(r, p) = Payload(r.wanted[p])
                BY <4>1, <4>2, <4>4, <4>6 DEF RunOK
            <4>8. Delivers(r.wanted[p], TypeOfPosition(r.fn, p))
                BY <4>1, <4>2, <4>4, <4>6 DEF TaskDelivers
            <4>9. ArgumentOf(r, p) = list.items[j]
                BY <4>2, <4>5 DEF ArgumentOf
            <4>10. TypeOfPosition(r.fn, p) = ListType(f)
                BY <4>2 DEF TypeOfPosition
            <4>11. r.wanted[p] \in Handles \cup Claims
                BY <4>1, <4>4, <4>6, TaskFields
            <4> HIDE DEF p, i
            <4>12. Payload(r.wanted[p]) \in HandlesOf(ListType(f))
                BY <4>7, <4>8, <4>10, <4>11, DistinctGuids DEF Payload, Delivers, Ready
            <4>13. QED
                BY <4>7, <4>9, <4>12
        <3>3. QED
            BY <3>1, <3>2
    <2>4. QED
        BY <1>1, <1>2, <2>2, <2>3
<1>3. CASE list \notin ReceivedLists(f)
    <2> DEFINE Made(n) ==
            [items : [1 .. n -> HandlesOf(ListType(f)) \ {NullGuid}], capacity : {n}]
               All == { Made(n) : n \in 0 .. MaxList }
    <2>1. Lists(f) = ReceivedLists(f) \cup (UNION All)
        BY DEF Lists
    <2> HIDE DEF All
    <2>2. PICK made \in All : list \in made
        BY <1>3, <2>1
    <2>3. PICK n \in 0 .. MaxList : list \in Made(n)
        BY <2>2 DEF All
    <2>4. n \in Nat
        BY TaskGraphAssumption
    <2>5. list.capacity = n /\ list.items \in [1 .. n -> HandlesOf(ListType(f))]
        BY <2>3
    <2>6. Len(list.items) = n
        BY <1>1, <2>4, <2>5 DEF ListRecord
    <2>7. QED
        BY <1>1, <2>4, <2>5, <2>6
<1>4. QED
    BY <1>2, <1>3

\* A task that is created with its list makes every position's slot.
LEMMA FullTaskFacts ==
    ASSUME Core, NEW t \in Tasks, NEW f \in Fns, NEW out \in EventIds \cup {NoEvent}, NEW finish,
           MayCreate(t, out),
           NEW list \in ListRecord, list.capacity > 0 => VarArgs(f),
           \A j \in 1 .. Len(list.items) : list.items[j] \in HandlesOf(ListType(f)),
           NEW deps,
           \A i, j \in Indices(Depc(f)) : i # j /\ deps[i] = deps[j] => ~ Counts(deps[i]),
           NEW wanted, wanted = [p \in DOMAIN wanted |-> wanted[p]],
           DOMAIN wanted \subseteq Positions(f, Len(list.items)),
           \A i \in Indices(Depc(f)) :
             IF << "dep", i >> \in DOMAIN wanted
             THEN /\ wanted[<< "dep", i >>] = deps[i]
                  /\ deps[i] \in SourcesOf(TypeOfPosition(f, << "dep", i >>))
             ELSE deps[i] = Hole,
           \A i \in Indices(Len(list.items)) :
             << "list", i >> \in DOMAIN wanted /\ wanted[<< "list", i >>] = list.items[i + 1],
           CreateFullTask(t, f, out, finish, deps, list, wanted)
    PROVE  \/ Failing("finish") \/ Failing("incomplete")
           \/ (\E r : Making(t, r)) /\ UNCHANGED failure
<1>1. CASE FinishFails(out, finish)
    <2>1. Fail("finish", out, EmptyList)
        BY <1>1 DEF CreateFullTask
    <2>2. QED
        BY <2>1, FailFacts
<1>2. CASE ~ FinishFails(out, finish) /\ Len(list.items) # list.capacity
    <2>1. Fail("incomplete", out, list)
        BY <1>2 DEF CreateFullTask
    <2>2. QED
        BY <2>1, FailFacts
<1>3. CASE ~ FinishFails(out, finish) /\ Len(list.items) = list.capacity
    <2> DEFINE n == list.capacity
               depv == Depv(f, deps, list)
    <2>1. n \in Nat /\ Depc(f) \in Nat /\ n = Len(list.items) /\ list.items \in Seq(Handles)
        BY <1>3, SignatureFacts DEF ListRecord
    <2>2. CreateEdt(t, f, n, out, Cardinality(DOMAIN depv), depv, wanted)
        BY <1>3 DEF CreateFullTask
    <2>3. DOMAIN depv = Indices(Depc(f) + n)
        BY DEF Depv
    <2>4. Cardinality(DOMAIN depv) = Depc(f) + n
        <3>1. Depc(f) + n \in Nat
            BY <2>1
        <3>2. QED
            BY <2>3, <3>1, IndexFacts
    <2> HIDE DEF n
    <2>5. \A i \in Indices(Depc(f)) : i \in DOMAIN depv /\ depv[i] = deps[i]
        BY <2>1, <2>3 DEF Depv, Indices, n
    <2>6. ASSUME NEW i \in Indices(n)
          PROVE  Depc(f) + i \in DOMAIN depv /\ depv[Depc(f) + i] = list.items[i + 1]
        <3>1. i \in Nat /\ i < n
            BY <2>1 DEF Indices
        <3>2. Depc(f) + i \in Indices(Depc(f) + n)
            BY <2>1, <3>1 DEF Indices
        <3>3. ~ Depc(f) + i < Depc(f) /\ (Depc(f) + i) - Depc(f) = i
            BY <2>1, <3>1
        <3>4. depv[Depc(f) + i] = Element(list, i)
            <4> DEFINE s == Depc(f) + i
            <4>1. s \in Indices(Depc(f) + list.capacity) /\ ~ s < Depc(f) /\ s - Depc(f) = i
                <5>1. list.capacity = n
                    BY DEF n
                <5>2. QED
                    BY <3>2, <3>3, <5>1
            <4> HIDE DEF s
            <4>2. depv[s] = Element(list, s - Depc(f))
                BY <4>1 DEF Depv
            <4>3. QED
                BY <4>1, <4>2 DEF s
        <3>5. QED
            BY <2>1, <2>3, <3>1, <3>2, <3>4 DEF Element
    <2> HIDE DEF depv
    <2>7. \A p \in Positions(f, n) :
            IF p \in DOMAIN wanted
            THEN SlotOf(f, p) \in DOMAIN depv /\ depv[SlotOf(f, p)] = wanted[p]
            ELSE SlotOf(f, p) \notin DOMAIN depv \/ depv[SlotOf(f, p)] = Hole
        <3> SUFFICES ASSUME NEW p \in Positions(f, n)
                     PROVE  IF p \in DOMAIN wanted
                            THEN SlotOf(f, p) \in DOMAIN depv /\ depv[SlotOf(f, p)] = wanted[p]
                            ELSE SlotOf(f, p) \notin DOMAIN depv \/ depv[SlotOf(f, p)] = Hole
            OBVIOUS
        <3>1. CASE \E i \in Indices(Depc(f)) : p = << "dep", i >>
            <4>1. PICK i \in Indices(Depc(f)) : p = << "dep", i >>
                BY <3>1
            <4>2. SlotOf(f, p) = i
                BY <2>1, <4>1, PositionFacts
            <4>3. QED
                BY <2>5, <4>1, <4>2
        <3>2. CASE \E i \in Indices(n) : p = << "list", i >>
            <4>1. PICK i \in Indices(n) : p = << "list", i >>
                BY <3>2
            <4>2. SlotOf(f, p) = Depc(f) + i
                BY <2>1, <4>1, PositionFacts
            <4>3. QED
                BY <2>1, <2>6, <4>1, <4>2
        <3>3. QED
            BY <2>1, <3>1, <3>2, PositionFacts
    <2>8. ASSUME NEW p \in DOMAIN wanted
          PROVE  \/ \E i \in Indices(Depc(f)) :
                       /\ p = << "dep", i >> /\ wanted[p] = deps[i]
                       /\ wanted[p] \in SourcesOf(TypeOfPosition(f, p))
                 \/ \E i \in Indices(n) :
                       /\ p = << "list", i >> /\ wanted[p] \in HandlesOf(ListType(f))
        <3>1. p \in Positions(f, n)
            BY <2>1
        <3>2. CASE \E i \in Indices(Depc(f)) : p = << "dep", i >>
            BY <3>2
        <3>3. CASE \E i \in Indices(n) : p = << "list", i >>
            <4>1. PICK i \in Indices(n) : p = << "list", i >>
                BY <3>3
            <4>2. i + 1 \in 1 .. Len(list.items)
                BY <2>1 DEF Indices
            <4>3. QED
                BY <2>1, <4>1, <4>2
        <3>4. QED
            BY <2>1, <3>1, <3>2, <3>3, PositionFacts
    <2>9. GivenOK(f, wanted)
        <3>1. ASSUME NEW p \in DOMAIN wanted PROVE wanted[p] \in SourcesOf(TypeOfPosition(f, p))
            BY <2>8 DEF SourcesOf, TypeOfPosition
        <3>2. ASSUME NEW p \in DOMAIN wanted, NEW q \in DOMAIN wanted, p # q, wanted[p] = wanted[q]
              PROVE  ~ Counts(wanted[p])
            <4>1. CASE wanted[p] \in HandlesOf(ListType(f))
                BY <4>1, HandleFacts DEF Counts
            <4>2. CASE wanted[p] \notin HandlesOf(ListType(f))
                <5>1. PICK i \in Indices(Depc(f)) : p = << "dep", i >> /\ wanted[p] = deps[i]
                    BY <2>8, <4>2
                <5>2. PICK j \in Indices(Depc(f)) : q = << "dep", j >> /\ wanted[q] = deps[j]
                    BY <2>8, <3>2, <4>2
                <5>3. QED
                    BY <3>2, <5>1, <5>2
            <4>3. QED
                BY <4>1, <4>2
        <3>3. QED
            BY <3>1, <3>2 DEF GivenOK
    <2>10. wanted \in [DOMAIN wanted -> Handles \cup Claims]
        <3>1. \A p \in DOMAIN wanted : wanted[p] \in Handles \cup Claims
            BY <2>9, SourceDelivers DEF GivenOK
        <3>2. QED
            BY <3>1
    <2>11. /\ CreateEdt(t, f, n, out, Depc(f) + n, depv, wanted)
           /\ n > 0 => VarArgs(f)
           /\ DOMAIN depv \subseteq Indices(Depc(f) + n)
           /\ DOMAIN wanted \subseteq Positions(f, n)
        BY <2>1, <2>2, <2>3, <2>4 DEF n, depv
    <2>12. (\E r : Making(t, r)) /\ UNCHANGED failure
        BY <2>1, <2>7, <2>9, <2>10, <2>11, CreateFacts
    <2>13. QED
        BY <2>12
<1>4. QED
    BY <1>1, <1>2, <1>3

\* TaskBuilder::CreateTask.
LEMMA CreateTaskFacts ==
    ASSUME Core, NEW t \in Tasks, NEW f \in Fns, NEW finish, CreateTask(t, f, finish)
    PROVE  \/ Failing("finish") \/ Failing("incomplete")
           \/ (\E r : Making(t, r)) /\ UNCHANGED failure
<1>1. PICK deps \in Given(f, Depc(f)), list \in IF VarArgs(f) THEN Lists(f) ELSE {EmptyList} :
        CreateFullTask(t, f, NoEvent, finish, deps, list, Over(WantedDeps(deps), WantedList(list)))
    BY DEF CreateTask
<1>2. MayCreate(t, NoEvent) /\ NoEvent \in EventIds \cup {NoEvent}
    BY DEF CreateTask
<1>3. /\ list \in ListRecord /\ (list.capacity > 0 => VarArgs(f))
      /\ \A j \in 1 .. Len(list.items) : list.items[j] \in HandlesOf(ListType(f))
    <2>1. CASE VarArgs(f)
        BY <1>1, <2>1, ListDelivers
    <2>2. CASE ~ VarArgs(f)
        <3>1. list = EmptyList
            BY <1>1, <2>2
        <3>2. EmptyList.items = << >> /\ EmptyList.capacity = 0 /\ EmptyList \in ListRecord
            BY DEF EmptyList, ListRecord
        <3>3. \A j \in 1 .. Len(<< >>) : FALSE
            OBVIOUS
        <3>4. QED
            BY <3>1, <3>2, <3>3
    <2>3. QED
        BY <2>1, <2>2
<1>4. Depc(f) \in Nat /\ Depc(f) = Len(DepsFn(Sig[f].params)) /\ list.items \in Seq(Handles)
    BY <1>3, SignatureFacts DEF ListRecord
<1>5. /\ DOMAIN deps = Indices(Depc(f))
      /\ \A i \in Indices(Depc(f)) : deps[i] \in SourcesOf(DepsFn(Sig[f].params)[i + 1].type) \cup {Hole}
      /\ \A i, j \in Indices(Depc(f)) : i # j /\ deps[i] = deps[j] => ~ Counts(deps[i])
    BY <1>1 DEF Given
<1> DEFINE n == Len(list.items)
           wd == WantedDeps(deps)
           wl == WantedList(list)
           wanted == Over(wd, wl)
<1>6. /\ DOMAIN wd = { q \in {"dep"} \X Indices(Depc(f)) : deps[q[2]] # Hole }
      /\ \A p \in DOMAIN wd : wd[p] = deps[p[2]]
    BY <1>5 DEF WantedDeps
<1>7. DOMAIN wl = {"list"} \X Indices(n) /\ \A p \in DOMAIN wl : wl[p] = list.items[p[2] + 1]
    BY DEF WantedList
<1> HIDE DEF wd, wl
<1>8. /\ DOMAIN wanted = DOMAIN wd \cup DOMAIN wl
      /\ \A p \in DOMAIN wd : wanted[p] = wd[p]
      /\ \A p \in DOMAIN wl : p \notin DOMAIN wd => wanted[p] = wl[p]
      /\ wanted = [p \in DOMAIN wanted |-> wanted[p]]
    BY DEF Over
<1> HIDE DEF wanted, n
<1>9. DOMAIN wanted \subseteq Positions(f, n)
    BY <1>6, <1>7, <1>8 DEF Positions
<1>10. \A i \in Indices(Depc(f)) :
         IF << "dep", i >> \in DOMAIN wanted
         THEN /\ wanted[<< "dep", i >>] = deps[i]
              /\ deps[i] \in SourcesOf(TypeOfPosition(f, << "dep", i >>))
         ELSE deps[i] = Hole
    <2> SUFFICES ASSUME NEW i \in Indices(Depc(f))
                 PROVE  IF << "dep", i >> \in DOMAIN wanted
                        THEN /\ wanted[<< "dep", i >>] = deps[i]
                             /\ deps[i] \in SourcesOf(TypeOfPosition(f, << "dep", i >>))
                        ELSE deps[i] = Hole
        OBVIOUS
    <2>1. TypeOfPosition(f, << "dep", i >>) = DepsFn(Sig[f].params)[i + 1].type
        BY DEF TypeOfPosition
    <2>2. << "dep", i >> \notin DOMAIN wl
        BY <1>7
    <2>3. << "dep", i >> \in DOMAIN wd <=> deps[i] # Hole
        BY <1>6
    <2>4. << "dep", i >> \in DOMAIN wd => wanted[<< "dep", i >>] = deps[i]
        BY <1>6, <1>8
    <2>5. QED
        BY <1>5, <1>8, <2>1, <2>2, <2>3, <2>4
<1>11. \A i \in Indices(n) :
         << "list", i >> \in DOMAIN wanted /\ wanted[<< "list", i >>] = list.items[i + 1]
    <2> SUFFICES ASSUME NEW i \in Indices(n)
                 PROVE  << "list", i >> \in DOMAIN wanted
                        /\ wanted[<< "list", i >>] = list.items[i + 1]
        OBVIOUS
    <2>1. << "list", i >> \in DOMAIN wl /\ << "list", i >> \notin DOMAIN wd
        BY <1>6, <1>7
    <2>2. QED
        BY <1>7, <1>8, <2>1
<1>12. CreateFullTask(t, f, NoEvent, finish, deps, list, wanted)
    BY <1>1 DEF wanted, wd, wl
<1>13. QED
    BY <1>2, <1>3, <1>5, <1>8, <1>9, <1>10, <1>11, <1>12, FullTaskFacts DEF n

\* CreateTaskPartial and CreateFuturePartial: the holes they pad with are the slots
\* of the positions that are not given.
LEMMA CreatePartialFacts ==
    ASSUME Core, NEW t \in Tasks, NEW f \in Fns, NEW out \in EventIds \cup {NoEvent}, NEW finish,
           CreatePartial(t, f, out, finish)
    PROVE  \/ Failing("finish") \/ Failing("incomplete")
           \/ (\E r : Making(t, r)) /\ UNCHANGED failure
<1>1. PICK m \in 1 .. Depc(f) - 1 : \E given \in Given(f, m) :
       CreateFullTask(t, f, out, finish, Over(given, Padding(f, m)), EmptyList, WantedDeps(given))
    BY DEF CreatePartial
<1>2. PICK given \in Given(f, m) :
        CreateFullTask(t, f, out, finish, Over(given, Padding(f, m)), EmptyList, WantedDeps(given))
    BY <1>1
<1>3. MayCreate(t, out)
    BY DEF CreatePartial
<1>4. /\ EmptyList \in ListRecord /\ ~ EmptyList.capacity > 0 /\ Len(EmptyList.items) = 0
      /\ \A j \in 1 .. Len(EmptyList.items) : FALSE
    BY DEF EmptyList, ListRecord
<1>5. Depc(f) \in Nat /\ Depc(f) = Len(DepsFn(Sig[f].params))
    BY SignatureFacts
<1>6. m \in Nat /\ m < Depc(f)
    BY <1>5
<1>7. Indices(m) \subseteq Indices(Depc(f)) /\ Indices(0) = {}
    BY <1>5, <1>6 DEF Indices
<1>8. /\ DOMAIN given = Indices(m)
      /\ \A i \in Indices(m) : given[i] \in SourcesOf(DepsFn(Sig[f].params)[i + 1].type) \cup {Hole}
      /\ \A i, j \in Indices(m) : i # j /\ given[i] = given[j] => ~ Counts(given[i])
    BY <1>2 DEF Given
<1> DEFINE deps == Over(given, Padding(f, m))
           wanted == WantedDeps(given)
<1>9. /\ \A i \in Indices(m) : deps[i] = given[i]
      /\ \A i \in Indices(Depc(f)) \ Indices(m) : deps[i] = Hole
    <2>1. \A i \in Indices(m) : deps[i] = given[i]
        BY <1>8 DEF Over
    <2>2. ASSUME NEW i \in Indices(Depc(f)) \ Indices(m) PROVE deps[i] = Hole
        <3>1. i \in m .. Depc(f) - 1
            BY <1>5, <1>6 DEF Indices
        <3>2. i \in DOMAIN Padding(f, m) /\ Padding(f, m)[i] = Hole
            <4> DEFINE last == m + MissingDeps(Sig[f].params, m) - 1
            <4>1. i \in m .. last
                BY <1>5, <1>6, <3>1 DEF MissingDeps, Depc
            <4>2. Padding(f, m) = [k \in m .. last |-> Hole]
                BY DEF Padding, DefaultDependence
            <4> HIDE DEF last
            <4>3. QED
                BY <4>1, <4>2
        <3>3. QED
            BY <1>8, <3>2 DEF Over
    <2>3. QED
        BY <2>1, <2>2
<1>10. /\ DOMAIN wanted = { q \in {"dep"} \X Indices(m) : given[q[2]] # Hole }
       /\ \A p \in DOMAIN wanted : wanted[p] = given[p[2]]
       /\ wanted = [p \in DOMAIN wanted |-> wanted[p]]
    BY <1>8 DEF WantedDeps
<1> HIDE DEF deps, wanted
<1>11. DOMAIN wanted \subseteq Positions(f, 0)
    BY <1>7, <1>10 DEF Positions
<1>12. \A i, j \in Indices(Depc(f)) : i # j /\ deps[i] = deps[j] => ~ Counts(deps[i])
    BY <1>8, <1>9, DistinctGuids DEF Counts
<1>13. \A i \in Indices(Depc(f)) :
         IF << "dep", i >> \in DOMAIN wanted
         THEN /\ wanted[<< "dep", i >>] = deps[i]
              /\ deps[i] \in SourcesOf(TypeOfPosition(f, << "dep", i >>))
         ELSE deps[i] = Hole
    <2> SUFFICES ASSUME NEW i \in Indices(Depc(f))
                 PROVE  IF << "dep", i >> \in DOMAIN wanted
                        THEN /\ wanted[<< "dep", i >>] = deps[i]
                             /\ deps[i] \in SourcesOf(TypeOfPosition(f, << "dep", i >>))
                        ELSE deps[i] = Hole
        OBVIOUS
    <2>1. TypeOfPosition(f, << "dep", i >>) = DepsFn(Sig[f].params)[i + 1].type
        BY DEF TypeOfPosition
    <2>2. << "dep", i >> \in DOMAIN wanted <=> i \in Indices(m) /\ given[i] # Hole
        BY <1>10
    <2>3. << "dep", i >> \in DOMAIN wanted => wanted[<< "dep", i >>] = given[i]
        BY <1>10
    <2>4. QED
        BY <1>8, <1>9, <2>1, <2>2, <2>3
<1>14. CreateFullTask(t, f, out, finish, deps, EmptyList, wanted)
    BY <1>2 DEF deps, wanted
<1>15. /\ DOMAIN wanted \subseteq Positions(f, Len(EmptyList.items))
       /\ \A i \in Indices(Len(EmptyList.items)) : FALSE
    BY <1>4, <1>7, <1>11
<1>16. QED
    BY <1>3, <1>4, <1>10, <1>12, <1>13, <1>14, <1>15, FullTaskFacts

\* A task that is created without dependences has a hole in every slot.
LEMMA CreateNullTaskFacts ==
    ASSUME Core, NEW t \in Tasks, NEW f \in Fns, NEW out \in EventIds \cup {NoEvent}, NEW finish,
           NEW n \in Nat, CreateNullTask(t, f, out, finish, n)
    PROVE  \/ Failing("finish")
           \/ (\E r : Making(t, r)) /\ UNCHANGED failure
<1>1. MayCreate(t, out) /\ (n > 0 => VarArgs(f))
    BY DEF CreateNullTask
<1>2. CASE FinishFails(out, finish)
    <2>1. Fail("finish", out, EmptyList)
        BY <1>2 DEF CreateNullTask
    <2>2. QED
        BY <2>1, FailFacts
<1>3. CASE ~ FinishFails(out, finish)
    <2> DEFINE none == << >>
    <2>1. CreateEdt(t, f, n, out, Depc(f) + n, none, none)
        BY <1>3 DEF CreateNullTask, NullDepc
    <2>2. DOMAIN none = {} /\ none \in [DOMAIN none -> Handles \cup Claims]
        OBVIOUS
    <2> HIDE DEF none
    <2>3. GivenOK(f, none)
        BY <2>2 DEF GivenOK
    <2>4. \A p \in Positions(f, n) :
             IF p \in DOMAIN none
             THEN SlotOf(f, p) \in DOMAIN none /\ none[SlotOf(f, p)] = none[p]
             ELSE SlotOf(f, p) \notin DOMAIN none \/ none[SlotOf(f, p)] = Hole
        BY <2>2
    <2>5. DOMAIN none \subseteq Indices(Depc(f) + n) /\ DOMAIN none \subseteq Positions(f, n)
        BY <2>2
    <2>6. QED
        BY <1>1, <2>1, <2>2, <2>3, <2>4, <2>5, CreateFacts
<1>4. QED
    BY <1>2, <1>3

\* All creators.
LEMMA CreatesFacts ==
    ASSUME Core, Creates
    PROVE  \/ Failing("finish") \/ Failing("incomplete")
           \/ (\E t \in Tasks : \E r : Making(t, r)) /\ UNCHANGED failure
<1>1. PICK t \in Tasks, f \in Fns, finish \in FlagSets :
        \/ CreateTask(t, f, finish)
        \/ \E out \in EventIds \cup {NoEvent} :
              \/ CreatePartial(t, f, out, finish)
              \/ \E n \in 0 .. MaxList : CreateNullTask(t, f, out, finish, n)
    BY DEF Creates
<1>2. CASE CreateTask(t, f, finish)
    BY <1>2, CreateTaskFacts
<1>3. CASE \E out \in EventIds \cup {NoEvent} : CreatePartial(t, f, out, finish)
    BY <1>3, CreatePartialFacts
<1>4. CASE \E out \in EventIds \cup {NoEvent} : \E n \in 0 .. MaxList :
             CreateNullTask(t, f, out, finish, n)
    <2>1. PICK out \in EventIds \cup {NoEvent}, n \in 0 .. MaxList : CreateNullTask(t, f, out, finish, n)
        BY <1>4
    <2>2. n \in Nat
        BY TaskGraphAssumption
    <2>3. QED
        BY <2>1, <2>2, CreateNullTaskFacts
<1>5. QED
    BY <1>1, <1>2, <1>3, <1>4

-----------------------------------------------------------------------------
(* Tasks get sources                                                       *)

\* A task of which no source is missing any more is cancelled by nobody.
Dropping(t) ==
    /\ task[t].phase = "created"
    /\ ~ Filled(t)
    /\ \A x \in Range(task[t].slots) : ~ Counts(x)
    /\ task' = [task EXCEPT ![t].phase = "destroyed"]
    /\ UNCHANGED << event, failure >>

Fillings(t) ==
    \/ Failing("dependence") /\ Unattachable
    \/ (\E given, r : Filling(t, given, r)) /\ UNCHANGED failure

\* A task that has been created and not started.
LEMMA CreatedTaskFacts ==
    ASSUME Core, NEW t \in Tasks, task[t].phase = "created"
    PROVE  /\ t # Main
           /\ task[t].fn \in Fns /\ task[t].count \in Nat /\ Depc(task[t].fn) \in Nat
           /\ Matches(task[t].fn, task[t].count, task[t].slots, task[t].wanted)
           /\ task[t] \in TaskRecord
<1>1. task[Main].phase \in {"running", "ended"}
    BY MainFacts DEF Core
<1>2. t # Main
    BY <1>1
<1>3. task[t] \in TaskRecord /\ SlotsOK(task[t])
    BY <1>2 DEF Core, TypeInv
<1>4. QED
    BY <1>2, <1>3, TaskFields, SignatureFacts DEF SlotsOK

\* One source for one position.
LEMMA OneFacts ==
    ASSUME Core, NEW t \in Tasks, task[t].phase = "created",
           NEW p \in Positions(task[t].fn, task[t].count) \ DOMAIN task[t].wanted,
           NEW x \in SourcesOf(TypeOfPosition(task[t].fn, p)),
           Attach(t, [s \in {SlotOf(task[t].fn, p)} |-> x], [q \in {p} |-> x])
    PROVE  Fillings(t)
<1> DEFINE given == [q \in {p} |-> x]
           adds == [s \in {SlotOf(task[t].fn, p)} |-> x]
<1>1. DOMAIN given = {p} /\ given[p] = x /\ x \in Handles \cup Claims
    BY SourceDelivers
<1>2. DOMAIN adds = {SlotOf(task[t].fn, p)} /\ adds[SlotOf(task[t].fn, p)] = x
    OBVIOUS
<1>3. given \in [DOMAIN given -> Handles \cup Claims]
    BY <1>1
<1>4. Attach(t, adds, given)
    OBVIOUS
<1> HIDE DEF given, adds
<1>5. GivenOK(task[t].fn, given)
    BY <1>1 DEF GivenOK
<1>6. SlotOf(task[t].fn, p) \in DOMAIN task[t].slots
    BY CreatedTaskFacts, PositionFacts DEF Matches
<1>7. QED
    BY <1>1, <1>2, <1>3, <1>4, <1>5, <1>6, AttachFacts DEF Fillings

\* Task::DependOn<slot>.
LEMMA DependOnFacts ==
    ASSUME Core, NEW t \in Tasks, NEW i \in Indices(Depc(task[t].fn)), NEW x, DependOn(t, i, x)
    PROVE  Fillings(t)
<1> DEFINE f == task[t].fn
           p == << "dep", i >>
<1>1. /\ task[t].phase = "created"
      /\ p \in Positions(f, task[t].count) \ DOMAIN task[t].wanted
      /\ x \in SourcesOf(ExpectedType(Sig[f].params, i))
      /\ Attach(t, [s \in {SlotOfDep(f, i)} |-> x], [q \in {p} |-> x])
    BY DEF DependOn, MayFill, Expected
<1>2. f \in Fns
    BY <1>1, CreatedTaskFacts
<1>3. ExpectedType(Sig[f].params, i) = TypeOfPosition(f, p)
    BY <1>2, ExpectedTypes
<1>4. SlotOfDep(f, i) = SlotOf(f, p)
    BY DEF SlotOf
<1>5. QED
    BY <1>1, <1>3, <1>4, OneFacts

\* DependOnWithinList.
LEMMA DependOnWithinListFacts ==
    ASSUME Core, NEW t \in Tasks, NEW i, NEW x, DependOnWithinList(t, i, x)
    PROVE  Fillings(t)
<1> DEFINE f == task[t].fn
           p == << "list", i >>
<1>1. /\ task[t].phase = "created"
      /\ p \in Positions(f, task[t].count) \ DOMAIN task[t].wanted
      /\ x \in SourcesOf(ListType(f))
      /\ Attach(t, [s \in {SlotWithinList(f, i)} |-> x], [q \in {p} |-> x])
    BY DEF DependOnWithinList, MayFill
<1>2. SlotWithinList(f, i) = SlotOf(f, p) /\ ListType(f) = TypeOfPosition(f, p)
    BY DEF SlotOf, TypeOfPosition
<1>3. QED
    BY <1>1, <1>2, OneFacts

\* DependOnRange.
LEMMA DependOnRangeFacts ==
    ASSUME Core, NEW t \in Tasks, NEW start \in Indices(Depc(task[t].fn)),
           NEW until \in start + 1 .. Depc(task[t].fn),
           NEW range \in [Indices(until - start) -> Handles],
           DependOnRange(t, start, until, range)
    PROVE  Fillings(t)
<1> DEFINE f == task[t].fn
           given == [p \in {"dep"} \X (start .. until - 1) |-> range[p[2] - start]]
           adds == [s \in start .. until - 1 |-> range[s - start]]
<1>1. /\ task[t].phase = "created"
      /\ {"dep"} \X (start .. until - 1) \subseteq Positions(f, task[t].count) \ DOMAIN task[t].wanted
      /\ \A s \in start .. until - 1 :
            ExpectedType(Sig[f].params, s) = ExpectedType(Sig[f].params, start)
      /\ Range(range) \subseteq HandlesOf(ExpectedType(Sig[f].params, start))
      /\ Attach(t, adds, given)
    BY DEF DependOnRange, MayFill, Expected
<1>2. f \in Fns /\ task[t].count \in Nat /\ Depc(f) \in Nat
      /\ Matches(f, task[t].count, task[t].slots, task[t].wanted)
    BY <1>1, CreatedTaskFacts
<1>3. start \in Nat /\ until \in Nat /\ start < until /\ until <= Depc(f)
    BY <1>2 DEF Indices
<1>4. ASSUME NEW s \in start .. until - 1
      PROVE  /\ s \in Indices(Depc(f))
             /\ range[s - start] \in HandlesOf(TypeOfPosition(f, << "dep", s >>))
    <2>1. s \in Indices(Depc(f)) /\ s - start \in Indices(until - start)
        BY <1>2, <1>3 DEF Indices
    <2>2. range[s - start] \in Range(range)
        BY <2>1 DEF Range
    <2>3. TypeOfPosition(f, << "dep", s >>) = ExpectedType(Sig[f].params, s)
        BY <1>2, <2>1, ExpectedTypes
    <2>4. QED
        BY <1>1, <2>1, <2>2, <2>3
<1>5. /\ DOMAIN given = {"dep"} \X (start .. until - 1)
      /\ \A s \in start .. until - 1 : given[<< "dep", s >>] = range[s - start]
      /\ given = [p \in DOMAIN given |-> given[p]]
    OBVIOUS
<1>6. DOMAIN adds = start .. until - 1 /\ \A s \in start .. until - 1 : adds[s] = range[s - start]
    OBVIOUS
<1> HIDE DEF given, adds
<1>7. \A p \in DOMAIN given : \E s \in start .. until - 1 :
         /\ p = << "dep", s >> /\ SlotOf(f, p) = s
         /\ given[p] = range[s - start]
         /\ given[p] \in HandlesOf(TypeOfPosition(f, p))
    <2> SUFFICES ASSUME NEW p \in DOMAIN given
                 PROVE  \E s \in start .. until - 1 :
                           /\ p = << "dep", s >> /\ SlotOf(f, p) = s
                           /\ given[p] = range[s - start]
                           /\ given[p] \in HandlesOf(TypeOfPosition(f, p))
        OBVIOUS
    <2>1. PICK s \in start .. until - 1 : p = << "dep", s >>
        BY <1>5
    <2>2. SlotOf(f, p) = s
        BY <2>1 DEF SlotOf, SlotOfDep
    <2>3. QED
        BY <1>4, <1>5, <2>1, <2>2
<1>8. given \in [DOMAIN given -> Handles \cup Claims]
    BY <1>5, <1>7, HandleFacts
<1>9. GivenOK(f, given)
    BY <1>7, HandleFacts DEF GivenOK, SourcesOf, Counts
<1>10. \A p \in DOMAIN given : SlotOf(f, p) \in DOMAIN adds /\ adds[SlotOf(f, p)] = given[p]
    BY <1>6, <1>7
<1>11. ASSUME NEW s \in DOMAIN adds PROVE \E p \in DOMAIN given : SlotOf(f, p) = s
    <2>1. << "dep", s >> \in DOMAIN given /\ SlotOf(f, << "dep", s >>) = s
        BY <1>5, <1>6 DEF SlotOf, SlotOfDep
    <2>2. QED
        BY <2>1
<1>12. DOMAIN given \subseteq Positions(f, task[t].count) \ DOMAIN task[t].wanted
    BY <1>1, <1>5
<1>13. \A s \in DOMAIN adds : s \in DOMAIN task[t].slots
    <2>1. DOMAIN task[t].slots = Indices(Depc(f) + task[t].count)
        BY <1>2 DEF Matches
    <2>2. QED
        BY <1>2, <1>3, <1>6, <2>1 DEF Indices
<1>14. QED
    BY <1>1, <1>8, <1>9, <1>10, <1>11, <1>12, <1>13, AttachFacts DEF Fillings

\* DependOnList.
LEMMA DependOnListFacts ==
    ASSUME Core, NEW t \in Tasks, NEW list \in Lists(task[t].fn), DependOnList(t, list)
    PROVE  Fillings(t)
<1> DEFINE f == task[t].fn
           n == task[t].count
           given == WantedList(list)
           adds == ListAdds(f, list)
<1>1. /\ task[t].phase = "created"
      /\ Len(list.items) = n
      /\ {"list"} \X Indices(n) \subseteq Positions(f, n) \ DOMAIN task[t].wanted
      /\ Attach(t, adds, given)
    BY DEF DependOnList, MayFill
<1>2. f \in Fns /\ n \in Nat /\ Depc(f) \in Nat /\ Matches(f, n, task[t].slots, task[t].wanted)
    BY <1>1, CreatedTaskFacts
<1>3. /\ list.items \in Seq(Handles) /\ list.capacity \in Nat /\ n <= list.capacity
      /\ \A j \in 1 .. n : list.items[j] \in HandlesOf(ListType(f))
    BY <1>1, <1>2, ListDelivers DEF ListRecord
<1>4. /\ DOMAIN given = {"list"} \X Indices(n)
      /\ \A i \in Indices(n) : given[<< "list", i >>] = list.items[i + 1]
      /\ given = [p \in DOMAIN given |-> given[p]]
    BY <1>1 DEF WantedList
<1>5. ASSUME NEW i \in Indices(n)
      PROVE  /\ Depc(f) + i \in DOMAIN adds
             /\ adds[Depc(f) + i] = list.items[i + 1]
    <2> DEFINE s == Depc(f) + i
    <2>1. i \in Nat /\ i < n
        BY <1>2 DEF Indices
    <2>2. s \in Depc(f) .. Depc(f) + list.capacity - 1 /\ s - Depc(f) = i
        BY <1>2, <1>3, <2>1
    <2> HIDE DEF s
    <2>3. s \in DOMAIN adds /\ adds[s] = Element(list, s - Depc(f))
        BY <2>2 DEF ListAdds
    <2>4. Element(list, i) = list.items[i + 1]
        BY <1>1, <2>1 DEF Element
    <2>5. QED
        BY <2>2, <2>3, <2>4 DEF s
<1>6. \A s \in DOMAIN adds : s \in Int /\ s >= Depc(f) /\ s < Depc(f) + list.capacity
    BY <1>2, <1>3 DEF ListAdds
<1> HIDE DEF given, adds
<1>7. \A p \in DOMAIN given : \E i \in Indices(n) :
         /\ p = << "list", i >> /\ SlotOf(f, p) = Depc(f) + i
         /\ given[p] = list.items[i + 1]
         /\ given[p] \in HandlesOf(TypeOfPosition(f, p))
    <2> SUFFICES ASSUME NEW p \in DOMAIN given
                 PROVE  \E i \in Indices(n) :
                           /\ p = << "list", i >> /\ SlotOf(f, p) = Depc(f) + i
                           /\ given[p] = list.items[i + 1]
                           /\ given[p] \in HandlesOf(TypeOfPosition(f, p))
        OBVIOUS
    <2>1. PICK i \in Indices(n) : p = << "list", i >>
        BY <1>4
    <2>2. i + 1 \in 1 .. n
        BY <1>2 DEF Indices
    <2>3. SlotOf(f, p) = Depc(f) + i /\ TypeOfPosition(f, p) = ListType(f)
        BY <2>1 DEF SlotOf, SlotWithinList, TypeOfPosition
    <2>4. QED
        BY <1>3, <1>4, <2>1, <2>2, <2>3
<1>8. given \in [DOMAIN given -> Handles \cup Claims]
    BY <1>4, <1>7, HandleFacts
<1>9. GivenOK(f, given)
    BY <1>7, HandleFacts DEF GivenOK, SourcesOf, Counts
<1>10. \A p \in DOMAIN given : SlotOf(f, p) \in DOMAIN adds /\ adds[SlotOf(f, p)] = given[p]
    BY <1>5, <1>7
<1>11. ASSUME NEW s \in DOMAIN adds, s \in DOMAIN task[t].slots
       PROVE  \E p \in DOMAIN given : SlotOf(f, p) = s
    <2>1. s \in Indices(Depc(f) + n) /\ s >= Depc(f)
        BY <1>2, <1>6, <1>11 DEF Matches
    <2>2. s - Depc(f) \in Indices(n) /\ Depc(f) + (s - Depc(f)) = s
        BY <1>2, <2>1 DEF Indices
    <2>3. << "list", s - Depc(f) >> \in DOMAIN given
        BY <1>4, <2>2
    <2>4. SlotOf(f, << "list", s - Depc(f) >>) = s
        BY <2>2 DEF SlotOf, SlotWithinList
    <2>5. QED
        BY <2>3, <2>4
<1>12. DOMAIN given \subseteq Positions(f, n) \ DOMAIN task[t].wanted
    BY <1>1, <1>4
<1>13. ASSUME NEW s \in DOMAIN adds, s \notin DOMAIN task[t].slots
       PROVE  Unattachable
    <2>1. s \notin Indices(Depc(f) + n)
        BY <1>2, <1>13 DEF Matches
    <2>2. list.capacity # Len(list.items)
        BY <1>1, <1>2, <1>3, <1>6, <2>1 DEF Indices
    <2>3. list \in ReceivedLists(f)
        BY <1>2, <2>2, ListDelivers
    <2>4. QED
        BY <1>2, <2>2, <2>3 DEF Unattachable
<1>14. QED
    BY <1>1, <1>8, <1>9, <1>10, <1>11, <1>12, <1>13, AttachFacts DEF Fillings

\* All calls that attach sources to a task, and Task::Destroy.
LEMMA FillsFacts ==
    ASSUME Core, Fills
    PROVE  \E t \in Tasks : Fillings(t) \/ Dropping(t)
<1>1. PICK t \in Tasks :
        /\ task[t].phase = "created"
        /\ \/ \E x \in Sources :
              \/ \E i \in Indices(Depc(task[t].fn)) : DependOn(t, i, x)
              \/ \E i \in Indices(task[t].count) : DependOnWithinList(t, i, x)
           \/ \E start \in Indices(Depc(task[t].fn)) :
              \E until \in start + 1 .. Depc(task[t].fn) :
              \E range \in [Indices(until - start) -> Handles] :
                DependOnRange(t, start, until, range)
           \/ VarArgs(task[t].fn) /\ \E list \in Lists(task[t].fn) : DependOnList(t, list)
           \/ DestroyTask(t)
    BY DEF Fills
<1>2. CASE \E x \in Sources : \E i \in Indices(Depc(task[t].fn)) : DependOn(t, i, x)
    BY <1>2, DependOnFacts
<1>3. CASE \E x \in Sources : \E i \in Indices(task[t].count) : DependOnWithinList(t, i, x)
    BY <1>3, DependOnWithinListFacts
<1>4. CASE \E start \in Indices(Depc(task[t].fn)) :
              \E until \in start + 1 .. Depc(task[t].fn) :
              \E range \in [Indices(until - start) -> Handles] :
                DependOnRange(t, start, until, range)
    BY <1>4, DependOnRangeFacts
<1>5. CASE \E list \in Lists(task[t].fn) : DependOnList(t, list)
    BY <1>5, DependOnListFacts
<1>6. CASE DestroyTask(t)
    BY <1>6 DEF DestroyTask, Dropping
<1>7. QED
    BY <1>1, <1>2, <1>3, <1>4, <1>5, <1>6

-----------------------------------------------------------------------------
(* Events are created, triggered and destroyed                             *)

\* An event becomes what new is: it gets a payload or a source.
Gaining(ev, new) ==
    /\ Exists(ev)
    /\ Persists(ev, new)
    /\ CountOK(new)
    /\ RoomOK(new)
    /\ AddsOne(ev, new)
    /\ new.payloads = ev.payloads \/ Len(ev.payloads) <= MaxPayloads
    /\ new.source \in {ev.source, NullGuid} \cup SourcesOf(ev.data)

Renewing(e, new) ==
    /\ ~ Live(event[e])
    /\ e \in Labels \/ event[e].type = "absent"
    /\ \E type \in Types, data \in DataTypes, count \in Nat :
         /\ new = Created(event[e], type, data, count)
         /\ type = "channel" => e \notin Labels
    /\ RoomOK(new)

Destroying(e, new) ==
    /\ Exists(event[e])
    /\ new = [event[e] EXCEPT !.type = "destroyed"]
    /\ ~ IsClaim(event[e].source)
    /\ \A t \in Tasks : task[t].phase = "created" =>
          \A x \in Range(task[t].slots) : IsClaim(x) => x[1] # e
    /\ \A d \in EventIds : IsClaim(event[d].source) => event[d].source[1] # e

\* Something is done with e, which is no output event; slots of others may get attached.
Calling(e) ==
    /\ UNCHANGED << task, failure >>
    /\ \A t \in Tasks : task[t].out # e
    /\ event' \in [EventIds -> EventRecord]
    /\ \A d \in EventIds \ {e} : Noted(event[d], event'[d])
    /\ Gaining(event[e], event'[e]) \/ Renewing(e, event'[e]) \/ Destroying(e, event'[e])

\* What the invariant says of one event, and what writing it changes.
LEMMA EventCoreFacts ==
    ASSUME Core, NEW e \in EventIds
    PROVE  /\ event \in [EventIds -> EventRecord] /\ event[e] \in EventRecord
           /\ CountOK(event[e]) /\ RoomOK(event[e]) /\ EventDelivers(event[e])
           /\ event[e].payloads \in Seq(Handles) /\ event[e].base \in Nat
           /\ \A new \in EventRecord : event' = [event EXCEPT ![e] = new] =>
                /\ event' \in [EventIds -> EventRecord] /\ event'[e] = new
                /\ \A d \in EventIds \ {e} : Noted(event[d], event'[d])
<1>1. event \in [EventIds -> EventRecord] /\ event[e] \in EventRecord
    BY DEF Core, TypeInv
<1>2. ASSUME NEW d \in EventIds PROVE Noted(event[d], event[d])
    <2> DEFINE n == event[d].dependents
    <2>1. event[d] \in EventRecord /\ n \in Nat
        BY <1>1, EventFields
    <2>2. n >= n
        BY <2>1
    <2>3. event[d] = [event[d] EXCEPT !.dependents = n]
        BY <2>1 DEF EventRecord
    <2> HIDE DEF n
    <2>4. QED
        BY <2>1, <2>2, <2>3 DEF Noted, n
<1>3. QED
    BY <1>1, <1>2, EventFields DEF Core

\* A payload for e.
LEMMA GainingFacts ==
    ASSUME Core, NEW e \in EventIds, Exists(event[e]), NEW new,
           Persists(event[e], new), CountOK(new), AddsOne(event[e], new),
           new.source = event[e].source \/ new.source = NullGuid,
           \/ event[e].type # "channel"
           \/ Len(event[e].payloads) < MaxPayloads
           \/ IsClaim(event[e].source) /\ new.source = NullGuid
    PROVE  Gaining(event[e], new)
<1> DEFINE ev == event[e]
<1>1. ev \in EventRecord /\ CountOK(ev) /\ RoomOK(ev) /\ ev.payloads \in Seq(Handles) /\ ev.base \in Nat
    BY EventCoreFacts
<1>2. MaxPayloads \in Nat /\ Len(ev.payloads) \in Nat
    BY <1>1, TaskGraphAssumption
<1>3. new.type = ev.type /\ new.base = ev.base /\ Exists(new)
    BY DEF Persists, Exists
<1>4. ev.base <= MaxPayloads /\ (ev.type # "channel" => Len(ev.payloads) <= ev.base + 1)
      /\ (ev.type = "channel" /\ IsClaim(ev.source) => Len(ev.payloads) <= MaxPayloads)
    BY <1>1 DEF RoomOK
<1>5. ~ IsClaim(NullGuid)
    BY DistinctGuids
<1> HIDE DEF ev
<1>6. CASE new.payloads = ev.payloads
    <2>1. RoomOK(new)
        BY <1>3, <1>4, <1>5, <1>6 DEF RoomOK, ev
    <2>2. QED
        BY <1>6, <2>1 DEF Gaining, ev
<1>7. CASE new.payloads # ev.payloads
    <2>1. PICK h \in HandlesOf(ev.data) : new.payloads = Append(ev.payloads, h)
        BY <1>7 DEF AddsOne, ev
    <2>2. Len(new.payloads) = Len(ev.payloads) + 1
        BY <1>1, <2>1
    <2>3. CASE ev.type = "channel"
        <3>1. Len(ev.payloads) <= MaxPayloads
            BY <1>2, <1>4, <2>3 DEF ev
        <3>2. IsClaim(new.source) => Len(ev.payloads) < MaxPayloads
            BY <1>5, <2>3 DEF ev
        <3>3. RoomOK(new)
            BY <1>2, <1>3, <1>4, <2>2, <2>3, <3>2 DEF RoomOK
        <3>4. QED
            BY <3>1, <3>3 DEF Gaining, ev
    <2>4. CASE ev.type # "channel"
        <3>1. ~ Len(ev.payloads) - ev.base > 0
            BY <1>7, <2>4 DEF AddsOne, Triggered, Triggers, ev
        <3>2. ev.base <= Len(ev.payloads)
            BY <1>1 DEF CountOK
        <3>3. Len(ev.payloads) = ev.base
            BY <1>1, <1>2, <3>1, <3>2
        <3>4. RoomOK(new)
            BY <1>1, <1>2, <1>3, <1>4, <2>2, <2>4, <3>3 DEF RoomOK
        <3>5. QED
            BY <1>4, <3>3, <3>4 DEF Gaining, ev
    <2>5. QED
        BY <2>3, <2>4
<1>8. QED
    BY <1>6, <1>7

\* e gets to new, and nothing else happens.
LEMMA CallingFacts ==
    ASSUME Core, NEW e \in EventIds, \A t \in Tasks : task[t].out # e,
           NEW new, Gaining(event[e], new),
           event' = [event EXCEPT ![e] = new], UNCHANGED << task, failure >>
    PROVE  Calling(e)
<1>1. new \in EventRecord
    BY DEF Gaining, Persists
<1>2. QED
    BY <1>1, EventCoreFacts DEF Calling

\* Event::Satisfy.
LEMMA SatisfyFacts ==
    ASSUME Core, NEW e \in EventIds, NEW h, Satisfy(e, h)
    PROVE  Calling(e)
<1> DEFINE new == Satisfied(event[e], h)
<1>1. /\ Exists(event[e]) /\ (\A t \in Tasks : task[t].out # e)
      /\ Len(event[e].payloads) < MaxPayloads
      /\ h \in HandlesOf(event[e].data)
      /\ event' = [event EXCEPT ![e] = new] /\ UNCHANGED << task, failure >>
    BY EventCoreFacts DEF Satisfy, MayCount, OwnEvent
<1>2. Persists(event[e], new) /\ CountOK(new) /\ AddsOne(event[e], new)
      /\ new.source = event[e].source
    BY <1>1, EventCoreFacts, SatisfiedFacts
<1> HIDE DEF new
<1>3. Gaining(event[e], new)
    BY <1>1, <1>2, GainingFacts
<1>4. QED
    BY <1>1, <1>3, CallingFacts

\* Up and Down.
LEMMA CountFacts ==
    ASSUME Core, NEW e \in EventIds, CountUp(e) \/ CountDown(e)
    PROVE  Calling(e)
<1>1. /\ Exists(event[e]) /\ (\A t \in Tasks : task[t].out # e)
      /\ Live(event[e]) /\ event[e].type = "latch"
      /\ UNCHANGED << task, failure >>
    BY DEF CountUp, CountDown, MayCount, OwnEvent, MayTrigger
<1>2. PICK new \in {Up(event[e]), Down(event[e])} : event' = [event EXCEPT ![e] = new]
    BY EventCoreFacts DEF CountUp, CountDown
<1>3. ~ Triggered(event[e])
    BY <1>1 DEF Live, Spent
<1>4. Persists(event[e], new) /\ CountOK(new) /\ AddsOne(event[e], new)
      /\ new.source = event[e].source
    BY <1>1, <1>3, EventCoreFacts, LatchFacts
<1>5. Gaining(event[e], new)
    BY <1>1, <1>4, GainingFacts
<1>6. QED
    BY <1>1, <1>2, <1>5, CallingFacts

\* A new event follows those that had its label before.
LEMMA CreatedGood ==
    ASSUME Core, NEW e \in EventIds, NEW type \in Types, NEW data \in DataTypes, NEW count \in Nat,
           ~ Live(event[e]), e \in Labels \/ event[e].type = "absent",
           Len(event[e].payloads) <= MaxPayloads,
           type = "channel" => e \notin Labels
    PROVE  Renewing(e, Created(event[e], type, data, count))
           /\ Created(event[e], type, data, count) \in EventRecord
<1> DEFINE new == Created(event[e], type, data, count)
<1>1. /\ new \in EventRecord /\ new.base = Len(event[e].payloads)
      /\ new.payloads = event[e].payloads /\ new.source = Hole
    BY EventCoreFacts, CreatedFacts
<1>2. Len(event[e].payloads) \in Nat
    BY EventCoreFacts
<1>3. RoomOK(new)
    <2> HIDE DEF new
    <2>1. Len(event[e].payloads) <= Len(event[e].payloads) + 1
        BY <1>2
    <2>2. QED
        BY <1>1, <2>1, DistinctGuids DEF RoomOK
<1>4. QED
    BY <1>1, <1>3 DEF Renewing

\* The creation of an event without a label,
LEMMA CreateEventFacts ==
    ASSUME Core, NEW e \in EventIds, NEW type \in EventTypes, NEW data \in DataTypes,
           NEW count \in Nat, CreateEvent(e, type, data, count)
    PROVE  Calling(e)
<1> DEFINE new == Created(event[e], type, data, count)
<1>1. /\ event[e].type = "absent" /\ e \notin Labels
      /\ event' = [event EXCEPT ![e] = Created(Absent, type, data, count)]
      /\ UNCHANGED << task, failure >>
    BY DEF CreateEvent
<1>2. event[e] = Absent
    BY <1>1 DEF Core, UnusedOK
<1>3. type \in Types
    BY TaskGraphAssumption
<1>4. ~ Live(event[e])
    BY <1>1 DEF Live, Exists
<1>5. Len(event[e].payloads) <= MaxPayloads
    BY <1>2, TaskGraphAssumption DEF Absent
<1>6. Renewing(e, new) /\ new \in EventRecord
    BY <1>1, <1>3, <1>4, <1>5, CreatedGood
<1>7. \A t \in Tasks : task[t].out # e
    <2> SUFFICES ASSUME NEW t \in Tasks, task[t].out = e PROVE FALSE
        OBVIOUS
    <2>1. event[e].type = "once"
        BY TaskGraphAssumption DEF Core, OutOK
    <2>2. QED
        BY <1>1, <2>1
<1>8. event' = [event EXCEPT ![e] = new]
    BY <1>1, <1>2
<1> HIDE DEF new
<1>9. QED
    BY <1>1, <1>6, <1>7, <1>8, EventCoreFacts DEF Calling

\* and with one.
LEMMA CreateLabeledFacts ==
    ASSUME Core, NEW e \in EventIds, NEW type \in EventTypes, NEW data \in DataTypes,
           NEW count \in Nat, NEW flags, CreateLabeled(e, type, data, count, flags)
    PROVE  Calling(e) \/ Failing("self") \/ Failing("exists")
<1> DEFINE new == Created(event[e], type, data, count)
<1>1. e \in Labels /\ type \in RangeTypes /\ Len(event[e].payloads) < MaxPayloads
    BY DEF CreateLabeled
<1>2. CASE SelfFails(flags)
    <2>1. Fail("self", e, EmptyList)
        BY <1>2 DEF CreateLabeled
    <2>2. QED
        BY <2>1, FailFacts
<1>3. CASE ~ SelfFails(flags) /\ Live(event[e])
    <2>1. Fail("exists", e, EmptyList)
        BY <1>3 DEF CreateLabeled
    <2>2. QED
        BY <2>1, FailFacts
<1>4. CASE ~ SelfFails(flags) /\ ~ Live(event[e])
    <2>1. event' = [event EXCEPT ![e] = new] /\ UNCHANGED << task, failure >>
        BY <1>4, EventCoreFacts DEF CreateLabeled
    <2>2. type \in Types /\ type # "channel"
        BY <1>1 DEF RangeTypes, Types
    <2>3. Len(event[e].payloads) \in Nat
        BY EventCoreFacts
    <2>4. Len(event[e].payloads) <= MaxPayloads
        BY <1>1, <2>3, TaskGraphAssumption
    <2>5. Renewing(e, new) /\ new \in EventRecord
        BY <1>1, <1>4, <2>2, <2>4, CreatedGood
    <2>6. \A t \in Tasks : task[t].out # e
        BY <1>1, TaskGraphAssumption DEF Core, OutOK
    <2> HIDE DEF new
    <2>7. QED
        BY <2>1, <2>5, <2>6, EventCoreFacts DEF Calling
<1>5. QED
    BY <1>2, <1>3, <1>4

\* Event::Destroy.
LEMMA DestroyFacts ==
    ASSUME Core, NEW e \in EventIds, Destroy(e)
    PROVE  Calling(e)
<1> DEFINE new == [event[e] EXCEPT !.type = "destroyed"]
<1>1. event' = [event EXCEPT ![e] = new] /\ UNCHANGED << task, failure >>
    BY EventCoreFacts DEF Destroy
<1>2. new \in EventRecord
    BY EventCoreFacts, EventFields
<1>3. Destroying(e, new) /\ \A t \in Tasks : task[t].out # e
    BY DEF Destroy, Destroying, OwnEvent
<1> HIDE DEF new
<1>4. QED
    BY <1>1, <1>2, <1>3, EventCoreFacts DEF Calling

\* OCR triggers an event whose own source is ready.
LEMMA PropagateFacts ==
    ASSUME Core, NEW e \in EventIds, Propagate(e)
    PROVE  Calling(e)
<1> DEFINE x == event[e].source
           mid == Satisfied(event[e], Payload(x))
           new == [mid EXCEPT !.source = NullGuid]
<1>1. /\ IsClaim(x) /\ Ready(x) /\ failure = NoFailure
      /\ event' = [event EXCEPT ![e] = new] /\ UNCHANGED << task, failure >>
    BY EventCoreFacts DEF Propagate
<1>2. Payload(x) \in HandlesOf(event[e].data)
    <2>1. EventDelivers(event[e])
        BY EventCoreFacts
    <2>2. Delivers(x, event[e].data)
        BY <1>1, <2>1 DEF EventDelivers
    <2>3. QED
        BY <1>1, <2>2, DistinctGuids DEF Delivers, Payload, Ready
<1>3. Exists(event[e])
    <2>1. EventDelivers(event[e])
        BY EventCoreFacts
    <2>2. QED
        BY <1>1, <2>1 DEF EventDelivers
<1>4. Persists(event[e], mid) /\ CountOK(mid) /\ AddsOne(event[e], mid)
    BY <1>2, EventCoreFacts, SatisfiedFacts
<1> HIDE DEF mid
<1>5. mid \in EventRecord
    BY <1>4 DEF Persists
<1>6. new \in EventRecord
    BY <1>5, EventFields, DistinctGuids
<1>7. /\ new.type = mid.type /\ new.data = mid.data /\ new.count = mid.count
      /\ new.counter = mid.counter /\ new.base = mid.base /\ new.payloads = mid.payloads
      /\ new.dependents = mid.dependents /\ new.ups = mid.ups /\ new.downs = mid.downs
      /\ new.source = NullGuid
    BY <1>5 DEF EventRecord
<1> HIDE DEF new
<1>8. Persists(event[e], new) /\ CountOK(new) /\ AddsOne(event[e], new)
    BY <1>4, <1>6, <1>7 DEF Persists, Keeps, CountOK, Triggered, Triggers, AddsOne
<1>9. Gaining(event[e], new)
    BY <1>1, <1>3, <1>7, <1>8, GainingFacts
<1>10. \A t \in Tasks : task[t].out # e
    <2> SUFFICES ASSUME NEW t \in Tasks, task[t].out = e PROVE FALSE
        OBVIOUS
    <2>1. event[e].source = Hole
        BY TaskGraphAssumption DEF Core, OutOK
    <2>2. QED
        BY <1>1, <2>1, DistinctGuids
<1>11. QED
    BY <1>1, <1>9, <1>10, CallingFacts

\* Event::DependOn.
LEMMA EventDependOnFacts ==
    ASSUME Core, NEW e \in EventIds, NEW x, EventDependOn(e, x)
    PROVE  \/ Calling(e)
           \/ Failing("dependence") /\ Unattachable
<1>1. /\ Exists(event[e]) /\ (\A t \in Tasks : task[t].out # e)
      /\ Len(event[e].payloads) < MaxPayloads /\ event[e].source = Hole
      /\ x \in SourcesOf(event[e].data)
    BY DEF EventDependOn, MayCount, OwnEvent
<1>2. CASE Gone(x)
    <2>1. Fail("dependence", e, EmptyList)
        BY <1>2 DEF EventDependOn
    <2>2. Unattachable
        BY <1>1, <1>2 DEF Unattachable
    <2>3. QED
        BY <2>1, <2>2, FailFacts
<1>3. CASE ~ Gone(x) /\ ~ IsClaim(x)
    <2> DEFINE new == Satisfied(event[e], x)
    <2>1. event' = [event EXCEPT ![e] = new] /\ UNCHANGED << task, failure >>
        BY <1>3, EventCoreFacts DEF EventDependOn
    <2>2. x \in HandlesOf(event[e].data)
        BY <1>1, <1>3, SourceDelivers DEF Delivers
    <2>3. Persists(event[e], new) /\ CountOK(new) /\ AddsOne(event[e], new)
          /\ new.source = event[e].source
        BY <2>2, EventCoreFacts, SatisfiedFacts
    <2> HIDE DEF new
    <2>4. Gaining(event[e], new)
        BY <1>1, <2>3, GainingFacts
    <2>5. QED
        BY <1>1, <2>1, <2>4, CallingFacts
<1>4. CASE ~ Gone(x) /\ IsClaim(x)
    <2> DEFINE mid == [event[e] EXCEPT !.source = x]
               events == [event EXCEPT ![e] = mid]
               adds == [s \in {0} |-> x]
    <2>1. event' = WithDependents(events, adds) /\ UNCHANGED << task, failure >>
        BY <1>4, EventCoreFacts DEF EventDependOn
    <2>2. x \in Handles \cup Claims
        BY <1>1, SourceDelivers
    <2>3. mid \in EventRecord
        BY <2>2, EventCoreFacts, EventFields
    <2>4. events \in [EventIds -> EventRecord] /\ events[e] = mid
          /\ \A d \in EventIds \ {e} : events[d] = event[d]
        BY <2>3, EventCoreFacts
    <2>5. IsFiniteSet(DOMAIN adds)
        BY FS_Singleton
    <2> HIDE DEF events, adds
    <2>6. /\ event' \in [EventIds -> EventRecord]
          /\ \A d \in EventIds : Noted(events[d], event'[d])
        <3>1. mid.type = event[e].type
            BY EventCoreFacts DEF EventRecord
        <3>2. \A d \in EventIds : events[d].type = event[d].type
            BY <2>4, <3>1
        <3>3. QED
            BY <2>1, <2>4, <2>5, <3>2, WithDependentsFacts
    <2>7. \A d \in EventIds \ {e} : Noted(event[d], event'[d])
        BY <2>4, <2>6
    <2>8. /\ mid.type = event[e].type /\ mid.data = event[e].data /\ mid.count = event[e].count
          /\ mid.counter = event[e].counter /\ mid.base = event[e].base
          /\ mid.payloads = event[e].payloads /\ mid.dependents = event[e].dependents
          /\ mid.ups = event[e].ups /\ mid.downs = event[e].downs /\ mid.source = x
        BY EventCoreFacts DEF EventRecord
    <2> HIDE DEF mid
    <2>9. PICK new : new = event'[e] /\ Noted(mid, new)
        BY <2>4, <2>6
    <2>10. /\ new \in EventRecord
           /\ new.type = mid.type /\ new.data = mid.data /\ new.count = mid.count
           /\ new.counter = mid.counter /\ new.base = mid.base /\ new.payloads = mid.payloads
           /\ new.source = mid.source /\ new.ups = mid.ups /\ new.downs = mid.downs
           /\ mid.dependents <= new.dependents
        BY <2>3, <2>9, NotedFacts DEF Noted
    <2>11. Persists(event[e], new)
        <3>1. Keeps(event[e], new)
            BY <2>8, <2>10, EventCoreFacts, KeepsFacts
        <3>2. Len(event[e].payloads) \in Nat
            BY EventCoreFacts
        <3>3. \A k \in Len(event[e].payloads) + 1 .. Len(new.payloads) : FALSE
            BY <2>8, <2>10, <3>2
        <3>4. QED
            BY <2>8, <2>10, <3>1, <3>3 DEF Persists
    <2>12. CountOK(new)
        <3>1. CountOK(event[e])
            BY EventCoreFacts
        <3>2. QED
            BY <2>8, <2>10, <3>1 DEF CountOK, Triggered, Triggers
    <2>13. RoomOK(new)
        <3>1. RoomOK(event[e]) /\ Len(event[e].payloads) \in Nat
            BY EventCoreFacts
        <3>2. Len(event[e].payloads) <= MaxPayloads
            BY <1>1, <3>1, TaskGraphAssumption
        <3>3. QED
            BY <2>8, <2>10, <3>1, <3>2 DEF RoomOK, Exists
    <2>14. Gaining(event[e], new)
        BY <1>1, <2>8, <2>10, <2>11, <2>12, <2>13 DEF Gaining, AddsOne
    <2>15. QED
        BY <1>1, <2>1, <2>6, <2>7, <2>9, <2>14 DEF Calling
<1>5. QED
    BY <1>2, <1>3, <1>4

\* All calls about events.
LEMMA EventCallsFacts ==
    ASSUME Core, EventCalls
    PROVE  \/ \E e \in EventIds : Calling(e)
           \/ Failing("dependence") /\ Unattachable
           \/ Failing("self") \/ Failing("exists")
<1>1. PICK e \in EventIds :
        \/ \E type \in EventTypes, data \in DataTypes, n \in EventCounts \cup {0} :
              \/ CreateEvent(e, type, data, n)
              \/ \E flags \in LabelFlags : CreateLabeled(e, type, data, n, flags)
        \/ \E h \in Handles : Satisfy(e, h)
        \/ CountUp(e)
        \/ CountDown(e)
        \/ \E x \in Sources : EventDependOn(e, x)
        \/ Propagate(e)
        \/ Destroy(e)
    BY DEF EventCalls
<1>2. CASE \E type \in EventTypes, data \in DataTypes, n \in EventCounts \cup {0} :
              \/ CreateEvent(e, type, data, n)
              \/ \E flags \in LabelFlags : CreateLabeled(e, type, data, n, flags)
    <2>1. PICK type \in EventTypes, data \in DataTypes, n \in EventCounts \cup {0} :
              \/ CreateEvent(e, type, data, n)
              \/ \E flags \in LabelFlags : CreateLabeled(e, type, data, n, flags)
        BY <1>2
    <2>2. n \in Nat
        BY TaskGraphAssumption
    <2>3. CASE CreateEvent(e, type, data, n)
        BY <2>2, <2>3, CreateEventFacts
    <2>4. CASE \E flags \in LabelFlags : CreateLabeled(e, type, data, n, flags)
        BY <2>2, <2>4, CreateLabeledFacts
    <2>5. QED
        BY <2>1, <2>3, <2>4
<1>3. CASE \E h \in Handles : Satisfy(e, h)
    BY <1>3, SatisfyFacts
<1>4. CASE CountUp(e) \/ CountDown(e)
    BY <1>4, CountFacts
<1>5. CASE \E x \in Sources : EventDependOn(e, x)
    BY <1>5, EventDependOnFacts
<1>6. CASE Propagate(e)
    BY <1>6, PropagateFacts
<1>7. CASE Destroy(e)
    BY <1>7, DestroyFacts
<1>8. QED
    BY <1>1, <1>2, <1>3, <1>4, <1>5, <1>6, <1>7

-----------------------------------------------------------------------------
(* Tasks start and end                                                     *)

\* A list has no room left, unless there are parameters before it.
FullOK(r) == Depc(r.fn) = 0 => r.list.capacity = Len(r.list.items)

\* A task gets its arguments and then has the record r.
Starting(t, r) ==
    /\ task[t].phase = "created"
    /\ t # Main
    /\ \A s \in DOMAIN task[t].slots : Ready(task[t].slots[s])
    /\ r \in TaskRecord
    /\ r.phase = "running" /\ r.fn = task[t].fn /\ r.out = task[t].out
    /\ r.slots = task[t].slots /\ r.count = task[t].count /\ r.wanted = task[t].wanted
    /\ RunOK(r) /\ ListOK(r) /\ FullOK(r)
    /\ task' = [task EXCEPT ![t] = r]
    /\ UNCHANGED << event, failure >>

\* A task returns, and then has the record r; its output event is triggered.
Ending(t, r) ==
    /\ task[t].phase = "running"
    /\ \E h \in Handles :
         /\ r = [task[t] EXCEPT !.phase = "ended", !.result = h]
         /\ task[t].out # NoEvent => event'[task[t].out].payloads = << h >>
    /\ task' = [task EXCEPT ![t] = r]
    /\ event' \in [EventIds -> EventRecord]
    /\ \A e \in EventIds : e # task[t].out => event'[e] = event[e]
    /\ task[t].out # NoEvent =>
         LET ev == event[task[t].out]
             new == event'[task[t].out]
         IN  Persists(ev, new) /\ new.source = ev.source /\ CountOK(new) /\ RoomOK(new)
             /\ AddsOne(ev, new) /\ Len(ev.payloads) <= MaxPayloads
    /\ UNCHANGED failure

\* The handle or payload that a ready slot stands for.
LEMMA ReadyFacts ==
    ASSUME event \in [EventIds -> EventRecord], NEW x \in Handles \cup Claims \cup {Hole, Lost}, Ready(x)
    PROVE  Payload(x) \in Handles /\ x \in Handles \cup Claims
<1>1. x # Hole /\ x # Lost
    BY DistinctGuids DEF Ready
<1>2. CASE x \in Handles
    BY <1>2, DistinctGuids DEF Payload
<1>3. CASE x \in Claims
    <2>1. IsClaim(x) /\ x[1] \in EventIds /\ x[2] \in Nat /\ x[2] > 0 /\ x \notin Handles
        BY <1>3, DistinctGuids
    <2>2. x[2] <= Len(event[x[1]].payloads)
        BY <2>1 DEF Ready
    <2>3. event[x[1]].payloads \in Seq(Handles)
        BY <2>1, EventFields
    <2>4. event[x[1]].payloads[x[2]] \in Handles
        BY <2>1, <2>2, <2>3
    <2>5. QED
        BY <1>3, <2>1, <2>4 DEF Payload
<1>4. QED
    BY <1>1, <1>2, <1>3

\* The arguments in the slots of a task, split among its parameters.
LEMMA ArgsFacts ==
    ASSUME NEW d \in Nat, NEW n \in Nat, NEW args \in [1 .. d + n -> Handles]
    PROVE  /\ SubSeq(args, 1, d) \in Seq(Handles) /\ Len(SubSeq(args, 1, d)) = d
           /\ \A i \in Indices(d) : SubSeq(args, 1, d)[i + 1] = args[i + 1]
           /\ ReceivedList(d, args) \in ListRecord
           /\ Len(ReceivedList(d, args).items) = n
           /\ Len(ReceivedList(d, args).items) <= ReceivedList(d, args).capacity
           /\ \A i \in Indices(n) : ReceivedList(d, args).items[i + 1] = args[d + i + 1]
<1>1. d + n \in Nat
    OBVIOUS
<1>2. args \in Seq(Handles) /\ Len(args) = d + n
    BY <1>1
<1>3. ReceivedList(d, args) = [items |-> SubSeq(args, d + 1, d + n), capacity |-> d + n]
    BY <1>2 DEF ReceivedList
<1>4. SubSeq(args, 1, d) \in Seq(Handles) /\ Len(SubSeq(args, 1, d)) = d
    BY <1>1, <1>2
<1>5. ASSUME NEW i \in Indices(d) PROVE SubSeq(args, 1, d)[i + 1] = args[i + 1]
    <2>1. i + 1 \in 1 .. d
        BY <1>5 DEF Indices
    <2>2. QED
        BY <1>1, <1>2, <2>1
<1>6. SubSeq(args, d + 1, d + n) \in Seq(Handles) /\ Len(SubSeq(args, d + 1, d + n)) = n
    BY <1>1, <1>2
<1>7. \A i \in Indices(n) : SubSeq(args, d + 1, d + n)[i + 1] = args[d + i + 1]
    <2> SUFFICES ASSUME NEW i \in Indices(n)
                 PROVE  SubSeq(args, d + 1, d + n)[i + 1] = args[d + i + 1]
        OBVIOUS
    <2> DEFINE m == d + n
               j == i + 1
               a == d + 1
    <2>1. j \in 1 .. n /\ j \in Nat
        BY DEF Indices
    <2>2. a \in Nat \ {0} /\ m \in Nat /\ j \in 1 .. (m - a) + 1 /\ (a + j) - 1 = d + i + 1
        BY <2>1 DEF Indices
    <2> HIDE DEF m, j, a
    <2>3. SubSeq(args, a, m)[j] = args[(a + j) - 1]
        BY <2>1, <2>2
    <2>4. QED
        BY <2>2, <2>3 DEF m, j, a
<1>8. n <= d + n
    OBVIOUS
<1>9. ReceivedList(d, args) \in ListRecord
    BY <1>1, <1>3, <1>6 DEF ListRecord
<1>10. ReceivedList(d, args).items = SubSeq(args, d + 1, d + n) /\ ReceivedList(d, args).capacity = d + n
    BY <1>3
<1> DEFINE items == SubSeq(args, d + 1, d + n)
<1> HIDE DEF items
<1>11. \A i \in Indices(n) : ReceivedList(d, args).items[i + 1] = args[d + i + 1]
    <2>1. \A i \in Indices(n) : items[i + 1] = args[d + i + 1]
        BY <1>7 DEF items
    <2>2. ReceivedList(d, args).items = items
        BY <1>10 DEF items
    <2>3. QED
        BY <2>1, <2>2
<1>12. Len(ReceivedList(d, args).items) = n
    BY <1>6, <1>10
<1>13. Len(ReceivedList(d, args).items) <= ReceivedList(d, args).capacity
    BY <1>8, <1>10, <1>12
<1>14. QED
    BY <1>4, <1>5, <1>9, <1>11, <1>12, <1>13

\* InternalFn starts the task's function.
LEMMA StartFacts ==
    ASSUME Core, NEW t \in Tasks, Start(t)
    PROVE  \E r : Starting(t, r)
<1> DEFINE f == task[t].fn
           n == task[t].count
           d == Depc(f)
           slots == task[t].slots
           depc == Cardinality(DOMAIN slots)
           args == [i \in 1 .. depc |-> Payload(slots[i - 1])]
           deps == SubSeq(args, 1, d)
           list == IF VarArgs(f) THEN ReceivedList(d, args) ELSE EmptyList
           r == [task[t] EXCEPT !.phase = "running", !.deps = deps, !.list = list]
<1>1. task[t].phase = "created" /\ \A s \in DOMAIN slots : Ready(slots[s])
    BY DEF Start
<1>2. /\ t # Main /\ task[t] \in TaskRecord /\ task \in [Tasks -> TaskRecord]
      /\ f \in Fns /\ n \in Nat /\ d \in Nat
      /\ Matches(f, n, slots, task[t].wanted) /\ event \in [EventIds -> EventRecord]
    BY <1>1, CreatedTaskFacts DEF Core, TypeInv
<1>3. n > 0 => VarArgs(f)
    BY <1>1, <1>2 DEF Core, SlotsOK
<1>4. DOMAIN slots = Indices(d + n) /\ d + n \in Nat
    BY <1>2 DEF Matches
<1>5. depc = d + n
    BY <1>4, IndexFacts
<1>6. \A s \in DOMAIN slots : Payload(slots[s]) \in Handles /\ slots[s] # Hole /\ slots[s] # Lost
    <2>1. slots \in [DOMAIN slots -> Handles \cup Claims \cup {Hole, Lost}]
        BY <1>2, TaskFields
    <2>2. QED
        BY <1>1, <1>2, <2>1, ReadyFacts, DistinctGuids
<1>7. args \in [1 .. d + n -> Handles] /\ \A i \in Indices(d + n) : args[i + 1] = Payload(slots[i])
    <2>1. ASSUME NEW i \in 1 .. d + n PROVE i - 1 \in DOMAIN slots
        BY <1>2, <1>4 DEF Indices
    <2>2. ASSUME NEW i \in Indices(d + n) PROVE i + 1 \in 1 .. d + n /\ (i + 1) - 1 = i
        BY <1>2 DEF Indices
    <2>3. QED
        BY <1>5, <1>6, <2>1, <2>2
<1>8. task' = [task EXCEPT ![t] = r] /\ UNCHANGED << event, failure >>
    <2>1. ~ (depc < d \/ (~ VarArgs(f) /\ depc # d))
        BY <1>2, <1>3, <1>5
    <2>2. /\ task' = [task EXCEPT
                        ![t].phase = "running",
                        ![t].deps = SubSeq(args, 1, Depc(f)),
                        ![t].list = IF VarArgs(f) THEN ReceivedList(Depc(f), args) ELSE EmptyList]
          /\ UNCHANGED << event, failure >>
        BY <2>1 DEF Start
    <2>3. QED
        BY <1>2, <2>2
<1> HIDE DEF args, depc
<1>9. /\ deps \in Seq(Handles) /\ Len(deps) = d
      /\ \A i \in Indices(d) : deps[i + 1] = args[i + 1]
      /\ list \in ListRecord /\ Len(list.items) = n /\ Len(list.items) <= list.capacity
      /\ \A i \in Indices(n) : list.items[i + 1] = args[d + i + 1]
    <2>1. CASE VarArgs(f)
        <3>1. list = ReceivedList(d, args)
            BY <2>1
        <3>2. /\ deps \in Seq(Handles) /\ Len(deps) = d
              /\ \A i \in Indices(d) : deps[i + 1] = args[i + 1]
            BY <1>2, <1>7, ArgsFacts
        <3>3. /\ ReceivedList(d, args) \in ListRecord
              /\ Len(ReceivedList(d, args).items) = n
              /\ Len(ReceivedList(d, args).items) <= ReceivedList(d, args).capacity
              /\ \A i \in Indices(n) : ReceivedList(d, args).items[i + 1] = args[d + i + 1]
            <4> HIDE DEF d, n
            <4>1. d \in Nat /\ n \in Nat /\ args \in [1 .. d + n -> Handles]
                BY <1>2, <1>7
            <4>2. QED
                BY ZenonT(60), <4>1, ArgsFacts
        <3> HIDE DEF deps, list
        <3>4. QED
            BY <3>1, <3>2, <3>3
    <2>2. CASE ~ VarArgs(f)
        <3>1. n = 0
            BY <1>2, <1>3, <2>2
        <3>2. \A i \in Indices(n) : FALSE
            BY <3>1 DEF Indices
        <3>3. list \in ListRecord /\ Len(list.items) = 0 /\ list.capacity = 0
            BY <2>2 DEF EmptyList, ListRecord
        <3>4. /\ deps \in Seq(Handles) /\ Len(deps) = d
              /\ \A i \in Indices(d) : deps[i + 1] = args[i + 1]
            BY <1>2, <1>7, ArgsFacts
        <3>5. Len(list.items) = n /\ Len(list.items) <= list.capacity
            BY <3>1, <3>3
        <3> HIDE DEF deps, list
        <3>6. QED
            BY <3>2, <3>3, <3>4, <3>5
    <2>3. QED
        BY <2>1, <2>2
<1> HIDE DEF deps, list
<1>10. r \in TaskRecord
    BY <1>2, <1>9 DEF TaskRecord, Phases
<1>11. /\ r.phase = "running" /\ r.fn = f /\ r.out = task[t].out /\ r.slots = slots /\ r.count = n
       /\ r.wanted = task[t].wanted /\ r.deps = deps /\ r.list = list
    BY <1>2 DEF TaskRecord
<1> HIDE DEF r
<1>12. ASSUME NEW p \in Positions(f, n)
       PROVE  /\ p \in DOMAIN task[t].wanted
              /\ slots[SlotOf(f, p)] = task[t].wanted[p]
              /\ SlotOf(f, p) \in DOMAIN slots
    <2>1. SlotOf(f, p) \in DOMAIN slots
        BY <1>2, <1>4, PositionFacts
    <2>2. slots[SlotOf(f, p)] # Hole /\ slots[SlotOf(f, p)] # Lost
        BY <1>6, <2>1
    <2>3. QED
        BY <1>2, <2>1, <2>2 DEF Matches
<1>13. DOMAIN task[t].wanted = Positions(f, n)
    BY <1>2, <1>12 DEF Matches
<1>14. ASSUME NEW p \in Positions(f, n)
       PROVE  Ready(task[t].wanted[p]) /\ ArgumentOf(r, p) = Payload(task[t].wanted[p])
    <2>1. Ready(task[t].wanted[p])
        BY <1>1, <1>12
    <2>2. CASE \E i \in Indices(d) : p = << "dep", i >>
        <3>1. PICK i \in Indices(d) : p = << "dep", i >>
            BY <2>2
        <3>2. SlotOf(f, p) = i /\ i \in Indices(d + n)
            BY <1>2, <1>4, <1>12, <3>1, PositionFacts
        <3>3. ArgumentOf(r, p) = deps[i + 1]
            BY <1>11, <3>1 DEF ArgumentOf
        <3>4. QED
            BY <1>7, <1>9, <1>12, <2>1, <3>2, <3>3
    <2>3. CASE \E i \in Indices(n) : p = << "list", i >>
        <3>1. PICK i \in Indices(n) : p = << "list", i >>
            BY <2>3
        <3>2. SlotOf(f, p) = d + i /\ d + i \in Indices(d + n)
            BY <1>2, <1>4, <1>12, <3>1, PositionFacts
        <3>3. ArgumentOf(r, p) = list.items[i + 1]
            BY <1>11, <3>1 DEF ArgumentOf
        <3>4. QED
            BY <1>7, <1>9, <1>12, <2>1, <3>2, <3>3
    <2>4. QED
        BY <1>2, <2>2, <2>3, PositionFacts
<1>15. RunOK(r) /\ ListOK(r)
    BY <1>9, <1>11, <1>13, <1>14 DEF RunOK, ListOK
<1>16. FullOK(r)
    <2> SUFFICES ASSUME d = 0 PROVE list.capacity = Len(list.items)
        BY <1>11 DEF FullOK
    <2>1. CASE VarArgs(f)
        <3>1. list.capacity = Len(args)
            BY <2>1 DEF list, ReceivedList
        <3>2. Len(args) = d + n
            BY <1>4, <1>7
        <3>3. QED
            BY <1>2, <1>9, <3>1, <3>2
    <2>2. CASE ~ VarArgs(f)
        BY <2>2 DEF list, EmptyList
    <2>3. QED
        BY <2>1, <2>2
<1>17. QED
    BY <1>1, <1>2, <1>8, <1>10, <1>11, <1>15, <1>16 DEF Starting

\* The function returns, and the task's output event gets what it has returned.
LEMMA FinishFacts ==
    ASSUME Core, NEW t \in Tasks, Finish(t)
    PROVE  \E r : Ending(t, r)
<1> DEFINE f == task[t].fn
           out == task[t].out
<1>1. /\ task \in [Tasks -> TaskRecord] /\ event \in [EventIds -> EventRecord]
      /\ task[t] \in TaskRecord
    BY DEF Core, TypeInv
<1>2. task[t].phase = "running" /\ UNCHANGED failure
    BY DEF Finish
<1>3. PICK h \in IF t = Main THEN {NullGuid} ELSE HandlesOf(Sig[f].returns) :
        /\ task' = [task EXCEPT ![t].phase = "ended", ![t].result = h]
        /\ event' = IF out = NoEvent THEN event
                    ELSE [event EXCEPT ![out] = Satisfied(@, ReturnGuid(f, h))]
    BY DEF Finish
<1> DEFINE r == [task[t] EXCEPT !.phase = "ended", !.result = h]
<1>4. h \in Handles
    BY <1>3, HandleFacts
<1>5. task' = [task EXCEPT ![t] = r]
    BY <1>1, <1>3
<1>6. CASE out = NoEvent
    BY <1>1, <1>2, <1>3, <1>4, <1>5, <1>6 DEF Ending
<1>7. CASE out # NoEvent
    <2> DEFINE ev == event[out]
               new == Satisfied(ev, h)
    <2>1. /\ out \in EventIds /\ ev.type = "once" /\ ev.source = Hole /\ ev.base = 0
          /\ ev.data = Sig[f].returns /\ ev.payloads = << >>
        BY <1>2, <1>7 DEF Core, OutOK
    <2>2. t # Main
        BY <1>7, MainFacts DEF Core
    <2>3. h \in HandlesOf(ev.data) /\ ReturnGuid(f, h) = h
        <3>1. h \in HandlesOf(Sig[f].returns)
            BY <1>3, <2>2
        <3>2. QED
            BY <2>1, <3>1, HandleFacts DEF ReturnGuid
    <2>4. event' = [event EXCEPT ![out] = new]
        BY <1>1, <1>3, <1>7, <2>1, <2>3
    <2>5. ev \in EventRecord /\ CountOK(ev) /\ ~ Triggered(ev) /\ Exists(ev)
        BY <1>1, <2>1 DEF Core, Triggered, Triggers, Exists
    <2>6. /\ Persists(ev, new) /\ CountOK(new) /\ AddsOne(ev, new) /\ new.source = ev.source
          /\ new.payloads = Append(ev.payloads, h)
        BY <2>1, <2>3, <2>5, SatisfiedFacts
    <2> HIDE DEF new
    <2>7. new.payloads = << h >> /\ Len(new.payloads) = 1 /\ Len(ev.payloads) = 0
        BY <2>1, <2>6
    <2>8. RoomOK(new) /\ Len(ev.payloads) <= MaxPayloads
        <3>1. new.base = 0 /\ new.type = "once" /\ MaxPayloads \in Nat
            BY <2>1, <2>6, TaskGraphAssumption DEF Persists
        <3>2. QED
            BY <2>7, <3>1 DEF RoomOK
    <2>9. event' \in [EventIds -> EventRecord] /\ event'[out] = new
          /\ \A e \in EventIds : e # out => event'[e] = event[e]
        BY <1>1, <2>1, <2>4, <2>6 DEF Persists
    <2>10. QED
        BY <1>2, <1>4, <1>5, <2>6, <2>7, <2>8, <2>9 DEF Ending
<1>8. QED
    BY <1>6, <1>7

-----------------------------------------------------------------------------
(* Steps keep the invariant                                                *)

\* What is ready stays so and stands for the same, whatever else happens to events.
LEMMA ReadyStays ==
    ASSUME event \in [EventIds -> EventRecord], event' \in [EventIds -> EventRecord],
           \A e \in EventIds : Keeps(event[e], event'[e])
    PROVE  /\ \A x \in Handles \cup Claims : Ready(x) => Ready(x)' /\ Payload(x)' = Payload(x)
           /\ \A r \in TaskRecord : SlotsOK(r) => SlotsOK(r)'
           /\ \A r \in TaskRecord : RunOK(r) => RunOK(r)'
<1>1. ASSUME NEW x \in Handles \cup Claims, Ready(x)
      PROVE  Ready(x)' /\ Payload(x)' = Payload(x)
    <2>1. CASE x \in Handles
        BY <2>1, DistinctGuids DEF Ready, Payload
    <2>2. CASE x \in Claims
        <3>1. IsClaim(x) /\ x[1] \in EventIds /\ x[2] \in Nat /\ x[2] > 0 /\ x \notin Handles
            BY <2>2, DistinctGuids
        <3>2. x[2] <= Len(event[x[1]].payloads)
            BY <1>1, <3>1 DEF Ready
        <3>3. Keeps(event[x[1]], event'[x[1]])
            BY <3>1
        <3>4. event[x[1]].payloads \in Seq(Handles) /\ event'[x[1]].payloads \in Seq(Handles)
            BY <3>1, EventFields
        <3>5. Len(event[x[1]].payloads) \in Nat /\ Len(event'[x[1]].payloads) \in Nat
            BY <3>4
        <3>6. x[2] \in 1 .. Len(event[x[1]].payloads) /\ x[2] <= Len(event'[x[1]].payloads)
            BY <3>1, <3>2, <3>3, <3>5 DEF Keeps
        <3>7. event'[x[1]].payloads[x[2]] = event[x[1]].payloads[x[2]]
            BY <3>3, <3>6 DEF Keeps
        <3>8. Ready(x)'
            BY <3>1, <3>6 DEF Ready, IsClaim
        <3>9. QED
            BY <3>1, <3>7, <3>8 DEF Payload, IsClaim
    <2>3. QED
        BY <2>1, <2>2
<1>2. ASSUME NEW r \in TaskRecord, SlotsOK(r) PROVE SlotsOK(r)'
    <2>1. \A p \in DOMAIN r.wanted : Ready(r.wanted[p]) => Ready(r.wanted[p])'
        BY <1>1, TaskFields
    <2>2. r.phase # "absent" => Matches(r.fn, r.count, r.slots, r.wanted)'
        BY <1>2, <2>1 DEF SlotsOK, Matches
    <2>3. QED
        BY <1>2, <2>2 DEF SlotsOK
<1>3. ASSUME NEW r \in TaskRecord, RunOK(r) PROVE RunOK(r)'
    <2>1. \A p \in DOMAIN r.wanted :
            Ready(r.wanted[p]) => Ready(r.wanted[p])' /\ Payload(r.wanted[p])' = Payload(r.wanted[p])
        BY <1>1, TaskFields
    <2>2. QED
        BY <1>3, <2>1 DEF RunOK
<1>4. QED
    BY <1>1, <1>2, <1>3

\* What has led or will lead to a datablock goes on to.
LEMMA DeliversStays ==
    ASSUME event \in [EventIds -> EventRecord], event' \in [EventIds -> EventRecord],
           \A e \in EventIds : Keeps(event[e], event'[e]),
           NEW x \in Handles \cup Claims, NEW T, Delivers(x, T),
           IsClaim(x) => Ready(x) \/ Persists(event[x[1]], event'[x[1]])
    PROVE  Delivers(x, T)'
<1>1. CASE x \in Handles
    BY <1>1, DistinctGuids DEF Delivers
<1>2. CASE x \in Claims
    <2>1. IsClaim(x) /\ x[1] \in EventIds /\ x[2] \in Nat /\ x[2] > 0 /\ x \notin Handles
        BY <1>2, DistinctGuids
    <2> DEFINE e == x[1]
               k == x[2]
    <2>2. Keeps(event[e], event'[e])
        BY <2>1
    <2>3. Len(event[e].payloads) \in Nat /\ Len(event'[e].payloads) \in Nat
        BY <2>1, EventFields
    <2>4. Delivers(x, T)' <=> IF k <= Len(event'[e].payloads)
                              THEN event'[e].payloads[k] \in HandlesOf(T)
                              ELSE Exists(event'[e]) /\ event'[e].data = T
                                   /\ (event'[e].type = "channel" \/ k = event'[e].base + 1)
        BY <2>1 DEF Delivers, IsClaim
    <2>5. CASE k <= Len(event[e].payloads)
        <3>1. event[e].payloads[k] \in HandlesOf(T)
            BY <2>1, <2>5 DEF Delivers
        <3>2. k \in 1 .. Len(event[e].payloads) /\ k <= Len(event'[e].payloads)
            BY <2>1, <2>2, <2>3, <2>5 DEF Keeps
        <3>3. QED
            BY <2>2, <2>4, <3>1, <3>2 DEF Keeps
    <2>6. CASE ~ k <= Len(event[e].payloads)
        <3>1. /\ Exists(event[e]) /\ event[e].data = T
              /\ event[e].type = "channel" \/ k = event[e].base + 1
            BY <2>1, <2>6 DEF Delivers
        <3>2. ~ Ready(x)
            BY <2>1, <2>6 DEF Ready
        <3>3. Persists(event[e], event'[e])
            BY <2>1, <3>2
        <3>4. k <= Len(event'[e].payloads) => k \in Len(event[e].payloads) + 1 .. Len(event'[e].payloads)
            BY <2>1, <2>3, <2>6
        <3>5. QED
            BY <2>4, <3>1, <3>3, <3>4 DEF Persists, Exists
    <2>7. QED
        BY <2>5, <2>6
<1>3. QED
    BY <1>1, <1>2

\* The payloads of an event are of its type.
LEMMA PayloadsStay ==
    ASSUME NEW ev \in EventRecord, NEW new \in EventRecord, Persists(ev, new),
           \A k \in ev.base + 1 .. Len(ev.payloads) : ev.payloads[k] \in HandlesOf(ev.data)
    PROVE  \A k \in new.base + 1 .. Len(new.payloads) : new.payloads[k] \in HandlesOf(ev.data)
<1> SUFFICES ASSUME NEW k \in new.base + 1 .. Len(new.payloads)
             PROVE  new.payloads[k] \in HandlesOf(ev.data)
    OBVIOUS
<1>1. ev.payloads \in Seq(Handles) /\ new.payloads \in Seq(Handles) /\ ev.base \in Nat
    BY EventFields
<1>2. Len(ev.payloads) \in Nat /\ Len(new.payloads) \in Nat /\ new.base = ev.base
    BY <1>1 DEF Persists
<1>3. CASE k <= Len(ev.payloads)
    <2>1. k \in ev.base + 1 .. Len(ev.payloads) /\ k \in 1 .. Len(ev.payloads)
        BY <1>1, <1>2, <1>3
    <2>2. QED
        BY <2>1 DEF Persists, Keeps
<1>4. CASE ~ k <= Len(ev.payloads)
    <2>1. k \in Len(ev.payloads) + 1 .. Len(new.payloads)
        BY <1>1, <1>2, <1>4
    <2>2. QED
        BY <2>1 DEF Persists
<1>5. QED
    BY <1>3, <1>4

\* Events get payloads and dependents, and output events are made.
Growing ==
    /\ event' \in [EventIds -> EventRecord]
    /\ \A e \in EventIds :
         /\ CountOK(event'[e]) /\ RoomOK(event'[e])
         /\ \/ Persists(event[e], event'[e]) /\ event'[e].source = event[e].source
               /\ (event[e].type = "absent" => event'[e] = event[e])
            \/ /\ event[e].type = "absent" /\ event'[e].type # "absent"
               /\ event'[e].source = Hole /\ event'[e].payloads = << >>

\* When no event loses anything, what has been delivered stays delivered.
LEMMA GrowingFacts ==
    ASSUME Core, Growing
    PROVE  /\ event \in [EventIds -> EventRecord] /\ event' \in [EventIds -> EventRecord]
           /\ \A e \in EventIds : Keeps(event[e], event'[e])
           /\ \A x \in Handles \cup Claims : \A T : Delivers(x, T) => Delivers(x, T)'
           /\ \A e \in EventIds : CountOK(event'[e]) /\ RoomOK(event'[e]) /\ EventDelivers(event[e])'
           /\ \A e \in EventIds : event'[e].type = "absent" => event'[e] = Absent
<1>1. event \in [EventIds -> EventRecord] /\ event' \in [EventIds -> EventRecord]
    BY DEF Core, TypeInv, Growing
<1>2. \A e \in EventIds : event[e].type = "absent" => event[e] = Absent
    BY DEF Core, UnusedOK
<1>3. Len(<< >>) = 0
    OBVIOUS
<1>4. \A e \in EventIds : Keeps(event[e], event'[e])
    <2> SUFFICES ASSUME NEW e \in EventIds PROVE Keeps(event[e], event'[e])
        OBVIOUS
    <2>1. CASE Persists(event[e], event'[e])
        BY <2>1 DEF Persists
    <2>2. CASE ~ Persists(event[e], event'[e])
        <3>1. event[e] = Absent /\ event'[e].payloads = << >>
            BY <1>2, <2>2 DEF Growing
        <3>2. event[e].payloads = event'[e].payloads
            BY <3>1 DEF Absent
        <3>3. QED
            BY <1>1, <3>2, KeepsFacts
    <2>3. QED
        BY <2>1, <2>2
<1>5. ASSUME NEW x \in Handles \cup Claims, NEW T, Delivers(x, T) PROVE Delivers(x, T)'
    <2>1. ASSUME IsClaim(x) PROVE Persists(event[x[1]], event'[x[1]])
        <3>1. x \in Claims /\ x[1] \in EventIds /\ x[2] \in Nat /\ x[2] > 0
            BY <2>1, DistinctGuids
        <3>2. event[x[1]].type # "absent"
            <4> SUFFICES ASSUME event[x[1]].type = "absent" PROVE FALSE
                OBVIOUS
            <4>1. event[x[1]].payloads = << >> /\ ~ Exists(event[x[1]])
                BY <1>2, <3>1 DEF Absent, Exists
            <4>2. ~ x[2] <= Len(event[x[1]].payloads)
                BY <1>3, <3>1, <4>1
            <4>3. QED
                BY <1>5, <2>1, <4>1, <4>2 DEF Delivers
        <3>3. QED
            BY <3>1, <3>2 DEF Growing
    <2>2. QED
        BY <1>1, <1>4, <1>5, <2>1, DeliversStays
<1>6. ASSUME NEW e \in EventIds PROVE EventDelivers(event[e])'
    <2>1. EventDelivers(event[e])
        BY DEF Core
    <2>2. CASE Persists(event[e], event'[e]) /\ event'[e].source = event[e].source
        <3>1. PICK x, T : x = event[e].source /\ T = event[e].data
            OBVIOUS
        <3>2. event'[e].source = x /\ event'[e].data = T /\ event'[e].type = event[e].type
              /\ event'[e].base = event[e].base
            BY <2>2, <3>1 DEF Persists
        <3>3. x \in Handles \cup Claims \cup {Hole}
            BY <1>1, <3>1 DEF EventRecord
        <3>4. IsClaim(x) => Exists(event'[e]) /\ Delivers(x, T)'
            BY <1>5, <2>1, <3>1, <3>2, <3>3, DistinctGuids DEF EventDelivers, Exists
        <3>5. Exists(event'[e]) => \A k \in event'[e].base + 1 .. Len(event'[e].payloads) :
                event'[e].payloads[k] \in HandlesOf(T)
            BY <1>1, <2>1, <2>2, <3>1, <3>2, PayloadsStay DEF EventDelivers, Exists
        <3>6. (IsClaim(event[e].source) => Exists(event[e]) /\ Delivers(event[e].source, event[e].data))'
            BY <3>2, <3>4 DEF IsClaim
        <3>7. QED
            BY <3>2, <3>5, <3>6 DEF EventDelivers
    <2>3. CASE event'[e].source = Hole /\ event'[e].payloads = << >>
        <3>1. \A k \in event'[e].base + 1 .. Len(event'[e].payloads) : FALSE
            <4>1. event'[e].base \in Nat
                BY <1>1, EventFields
            <4>2. QED
                BY <1>3, <2>3, <4>1
        <3>2. ~ IsClaim(event'[e].source)
            BY <2>3, DistinctGuids
        <3>3. QED
            BY <3>1, <3>2 DEF EventDelivers, IsClaim
    <2>4. QED
        BY <2>2, <2>3 DEF Growing
<1>7. \A e \in EventIds : event'[e].type = "absent" => event'[e] = Absent
    BY <1>2 DEF Growing, Persists
<1>8. QED
    BY <1>1, <1>4, <1>5, <1>6, <1>7 DEF Growing

\* An output event on which nothing has been done.
Same(ev, new) ==
    /\ new.type = ev.type /\ new.source = ev.source /\ new.base = ev.base /\ new.data = ev.data
    /\ new.payloads = ev.payloads

\* A step that writes one task and its output event keeps the output events of all.
LEMMA OutStays ==
    ASSUME Core, NEW t \in Tasks, NEW r, task' = [task EXCEPT ![t] = r],
           r.out # NoEvent =>
              /\ r.out \in EventIds \ Labels
              /\ event'[r.out].type = "once" /\ event'[r.out].source = Hole
              /\ event'[r.out].base = 0 /\ event'[r.out].data = Sig[r.fn].returns
              /\ event'[r.out].payloads = IF r.phase = "ended" THEN << r.result >> ELSE << >>,
           \A u \in Tasks \ {t} : task[u].out # NoEvent =>
              task[u].out # r.out /\ Same(event[task[u].out], event'[task[u].out])
    PROVE  \A u \in Tasks : OutOK(u)'
<1>1. task'[t] = r /\ \A u \in Tasks \ {t} : task'[u] = task[u]
    BY DEF Core, TypeInv
<1>2. OutOK(t)'
    BY <1>1 DEF OutOK
<1>3. ASSUME NEW u \in Tasks \ {t} PROVE OutOK(u)'
    <2>1. OutOK(u)
        BY DEF Core
    <2>2. PICK q : q = task[u]
        OBVIOUS
    <2>3. task'[u] = q /\ task[u] = q
        BY <1>1, <2>2
    <2>4. CASE q.out = NoEvent
        BY <2>3, <2>4 DEF OutOK
    <2>5. CASE q.out # NoEvent
        <3>1. /\ q.out \in EventIds \ Labels
              /\ event[q.out].type = "once" /\ event[q.out].source = Hole /\ event[q.out].base = 0
              /\ event[q.out].data = Sig[q.fn].returns
              /\ event[q.out].payloads = IF q.phase = "ended" THEN << q.result >> ELSE << >>
              /\ \A v \in Tasks : task[v].out = q.out => v = u
            BY <2>1, <2>3, <2>5 DEF OutOK
        <3>2. Same(event[q.out], event'[q.out]) /\ q.out # r.out
            BY <2>3, <2>5
        <3>3. \A v \in Tasks : task'[v].out = q.out => v = u
            BY <1>1, <3>1, <3>2
        <3>4. QED
            BY <2>3, <3>1, <3>2, <3>3 DEF OutOK, Same
    <2>6. QED
        BY <2>4, <2>5
<1>4. QED
    BY <1>2, <1>3

\* Only the record of t changes, and it becomes a good one.
LEMMA TaskStep ==
    ASSUME Core, Growing, NEW t \in Tasks, NEW r \in TaskRecord,
           task' = [task EXCEPT ![t] = r], r.phase # "absent", ListOK(r),
           t # Main => SlotsOK(r) /\ RunOK(r) /\ TaskDelivers(r),
           t = Main => \E h \in Handles, phase \in {"running", "ended"} :
                          r = [NoTask EXCEPT !.phase = phase, !.result = h],
           \A u \in Tasks : OutOK(u)'
    PROVE  Core'
<1>1. /\ task \in [Tasks -> TaskRecord] /\ event' \in [EventIds -> EventRecord]
      /\ event \in [EventIds -> EventRecord]
    BY DEF Core, TypeInv, Growing
<1>2. task'[t] = r /\ \A u \in Tasks \ {t} : task'[u] = task[u]
    BY <1>1
<1>3. TypeInv'
    BY <1>1 DEF TypeInv
<1>4. UnusedOK'
    <2>1. \A u \in Tasks : task'[u].phase = "absent" => task'[u] = NoTask
        BY <1>2 DEF Core, UnusedOK
    <2>2. \A e \in EventIds : event'[e].type = "absent" => event'[e] = Absent
        BY GrowingFacts
    <2>3. \E h \in Handles, phase \in {"running", "ended"} :
             task'[Main] = [NoTask EXCEPT !.phase = phase, !.result = h]
        BY <1>2, TaskGraphAssumption DEF Core, UnusedOK
    <2>4. QED
        BY <2>1, <2>2, <2>3 DEF UnusedOK
<1>5. ASSUME NEW u \in Tasks \ {Main}
      PROVE  (SlotsOK(task[u]) /\ RunOK(task[u]) /\ TaskDelivers(task[u]))'
    <2>1. PICK q \in TaskRecord : q = task'[u]
        BY <1>3 DEF TypeInv
    <2>2. SlotsOK(q) /\ RunOK(q) /\ TaskDelivers(q)
        BY <1>2, <2>1 DEF Core
    <2>3. SlotsOK(q)' /\ RunOK(q)'
        BY <1>1, <2>2, GrowingFacts, ReadyStays
    <2>4. TaskDelivers(q)'
        <3>1. \A p \in DOMAIN q.wanted : q.wanted[p] \in Handles \cup Claims
            BY TaskFields
        <3>2. \A p \in DOMAIN q.wanted : Delivers(q.wanted[p], TypeOfPosition(q.fn, p)) =>
                Delivers(q.wanted[p], TypeOfPosition(q.fn, p))'
            BY <3>1, GrowingFacts
        <3>3. QED
            BY <2>2, <3>2 DEF TaskDelivers
    <2>5. task'[u] = q
        BY <2>1
    <2>6. QED
        BY <2>3, <2>4, <2>5
<1>6. \A u \in Tasks : ListOK(task[u])'
    BY <1>2 DEF Core, ListOK
<1>7. \A e \in EventIds : (CountOK(event[e]) /\ RoomOK(event[e]) /\ EventDelivers(event[e]))'
    BY GrowingFacts DEF CountOK, RoomOK, Triggered, Triggers, Exists, IsClaim
<1>8. QED
    BY <1>3, <1>4, <1>5, <1>6, <1>7 DEF Core

\* Events that only get dependents.
LEMMA NotedGrows ==
    ASSUME Core, NEW e \in EventIds, Noted(event[e], event'[e])
    PROVE  /\ Persists(event[e], event'[e]) /\ Same(event[e], event'[e])
           /\ CountOK(event'[e]) /\ RoomOK(event'[e])
           /\ event[e].type = "absent" => event'[e] = event[e]
<1>1. event[e] \in EventRecord /\ CountOK(event[e]) /\ RoomOK(event[e])
    BY EventCoreFacts
<1>2. PICK new : new = event'[e]
    OBVIOUS
<1>3. /\ new.type = event[e].type /\ new.data = event[e].data /\ new.base = event[e].base
      /\ new.payloads = event[e].payloads /\ new.source = event[e].source
      /\ Persists(event[e], new) /\ CountOK(new)
    BY <1>1, <1>2, NotedFacts
<1>4. RoomOK(new)
    BY <1>1, <1>3 DEF RoomOK, Exists
<1>5. event[e].type = "absent" => new = event[e]
    BY <1>2 DEF Noted
<1>6. QED
    BY <1>2, <1>3, <1>4, <1>5 DEF Same

\* Attaching slots to events takes nothing from them;
LEMMA NotedGrowing ==
    ASSUME Core, event' \in [EventIds -> EventRecord],
           \A e \in EventIds : Noted(event[e], event'[e])
    PROVE  Growing /\ \A e \in EventIds : Same(event[e], event'[e])
<1>1. \A e \in EventIds :
        /\ Persists(event[e], event'[e]) /\ Same(event[e], event'[e])
        /\ CountOK(event'[e]) /\ RoomOK(event'[e])
        /\ event[e].type = "absent" => event'[e] = event[e]
    BY NotedGrows
<1>2. QED
    BY <1>1 DEF Growing, Same

\* nor does a step that leaves them alone.
LEMMA SteadyGrowing ==
    ASSUME Core, UNCHANGED event
    PROVE  Growing /\ \A e \in EventIds : Same(event[e], event'[e])
<1>1. event' \in [EventIds -> EventRecord]
    BY DEF Core, TypeInv
<1>2. \A e \in EventIds : Noted(event[e], event'[e])
    <2> SUFFICES ASSUME NEW e \in EventIds PROVE Noted(event[e], event'[e])
        OBVIOUS
    <2>1. event[e] \in EventRecord /\ event[e].dependents \in Nat
        BY EventFields DEF Core, TypeInv
    <2>2. event[e].dependents >= event[e].dependents
          /\ event[e] = [event[e] EXCEPT !.dependents = event[e].dependents]
        BY <2>1 DEF EventRecord
    <2>3. QED
        BY <2>1, <2>2 DEF Noted
<1>3. QED
    BY <1>1, <1>2, NotedGrowing

\* One lemma for each kind of step: it keeps the invariant. A task is made.
LEMMA MakingKeepsCore ==
    ASSUME Core, NEW t \in Tasks, NEW r, Making(t, r)
    PROVE  Core' /\ Growing
<1> DEFINE made == Created(Absent, "once", Sig[r.fn].returns, 0)
<1>1. /\ t # Main /\ task[t].phase = "absent" /\ r \in TaskRecord /\ r.phase = "created"
      /\ r.list = EmptyList /\ SlotsOK(r) /\ GivenOK(r.fn, r.wanted)
      /\ r.out # NoEvent => r.out \in EventIds \ Labels /\ event[r.out].type = "absent"
      /\ task' = [task EXCEPT ![t] = r]
      /\ event' \in [EventIds -> EventRecord]
      /\ \A e \in EventIds : Noted(IF e = r.out THEN made ELSE event[e], event'[e])
    BY DEF Making
<1>2. r.fn \in Fns
    BY <1>1 DEF SlotsOK
<1>3. /\ made \in EventRecord /\ made.type = "once" /\ made.data = Sig[r.fn].returns
      /\ made.base = 0 /\ made.payloads = << >> /\ made.source = Hole /\ CountOK(made)
    <2>1. "once" \in Types /\ 0 \in Nat /\ Sig[r.fn].returns \in DataTypes \cup {Void}
        BY <1>2, TaskGraphAssumption DEF Types
    <2>2. Absent.payloads = << >>
        BY DEF Absent
    <2>3. Len(Absent.payloads) = 0
        BY <2>2
    <2>4. /\ made \in EventRecord /\ made.type = "once" /\ made.data = Sig[r.fn].returns
          /\ made.base = Len(Absent.payloads) /\ made.payloads = Absent.payloads
          /\ made.source = Hole /\ CountOK(made)
        BY <2>1, AbsentTypes, CreatedFacts
    <2>5. QED
        BY <2>2, <2>3, <2>4
<1> HIDE DEF made
<1>4. ASSUME r.out \in EventIds PROVE event'[r.out] = made
    <2>1. Noted(made, event'[r.out])
        BY <1>1, <1>4
    <2>2. QED
        BY <1>3, <2>1 DEF Noted
<1>5. RoomOK(made)
    <2>1. Len(made.payloads) = 0 /\ MaxPayloads \in Nat
        BY <1>3, TaskGraphAssumption
    <2>2. QED
        BY <1>3, <2>1 DEF RoomOK
<1>6. \A e \in EventIds : e # r.out => Noted(event[e], event'[e])
    BY <1>1
<1>7. Growing
    <2> SUFFICES ASSUME NEW e \in EventIds
                 PROVE  /\ CountOK(event'[e]) /\ RoomOK(event'[e])
                        /\ \/ /\ Persists(event[e], event'[e]) /\ event'[e].source = event[e].source
                              /\ (event[e].type = "absent" => event'[e] = event[e])
                           \/ /\ event[e].type = "absent" /\ event'[e].type # "absent"
                              /\ event'[e].source = Hole /\ event'[e].payloads = << >>
        BY <1>1 DEF Growing
    <2>1. CASE e = r.out
        <3>1. event'[e] = made /\ event[e].type = "absent"
            BY <1>1, <1>4, <2>1, TaskGraphAssumption
        <3>2. QED
            BY <1>3, <1>5, <3>1
    <2>2. CASE e # r.out
        BY <1>6, <2>2, NotedGrows DEF Same
    <2>3. QED
        BY <2>1, <2>2
<1>8. ListOK(r)
    <2>1. Len(r.list.items) = 0 /\ r.list.capacity = 0
        BY <1>1 DEF EmptyList
    <2>2. QED
        BY <2>1 DEF ListOK
<1>9. RunOK(r)
    BY <1>1 DEF RunOK
<1>10. TaskDelivers(r)
    BY <1>1, SourceDelivers DEF TaskDelivers, GivenOK
<1>11. \A u \in Tasks : OutOK(u)'
    <2>1. r.out # NoEvent =>
              /\ r.out \in EventIds \ Labels
              /\ event'[r.out].type = "once" /\ event'[r.out].source = Hole
              /\ event'[r.out].base = 0 /\ event'[r.out].data = Sig[r.fn].returns
              /\ event'[r.out].payloads = IF r.phase = "ended" THEN << r.result >> ELSE << >>
        BY <1>1, <1>3, <1>4
    <2>2. ASSUME NEW u \in Tasks \ {t}, task[u].out # NoEvent
          PROVE  task[u].out # r.out /\ Same(event[task[u].out], event'[task[u].out])
        <3>1. task[u].out \in EventIds /\ event[task[u].out].type = "once"
            BY <2>2 DEF Core, OutOK
        <3>2. task[u].out # r.out
            BY <1>1, <2>2, <3>1
        <3>3. QED
            BY <1>6, <3>1, <3>2, NotedGrows
    <2>3. QED
        BY <1>1, <2>1, <2>2, OutStays
<1>12. r.phase # "absent"
    BY <1>1
<1>13. QED
    BY <1>1, <1>7, <1>8, <1>9, <1>10, <1>11, <1>12, TaskStep

\* A step that leaves output events and the main task alone.
LEMMA QuietStep ==
    ASSUME Core, Growing, \A e \in EventIds : Same(event[e], event'[e]),
           NEW t \in Tasks, task[t].phase = "created", NEW r \in TaskRecord,
           task' = [task EXCEPT ![t] = r], r.phase \notin {"absent", "ended"},
           r.fn = task[t].fn, r.out = task[t].out,
           ListOK(r), SlotsOK(r), RunOK(r), TaskDelivers(r)
    PROVE  Core'
<1>1. t # Main
    BY CreatedTaskFacts
<1>2. OutOK(t)
    BY DEF Core
<1>3. r.out # NoEvent =>
          /\ r.out \in EventIds \ Labels
          /\ event'[r.out].type = "once" /\ event'[r.out].source = Hole
          /\ event'[r.out].base = 0 /\ event'[r.out].data = Sig[r.fn].returns
          /\ event'[r.out].payloads = IF r.phase = "ended" THEN << r.result >> ELSE << >>
    BY <1>2 DEF OutOK, Same
<1>4. ASSUME NEW u \in Tasks \ {t}, task[u].out # NoEvent
      PROVE  task[u].out # r.out /\ Same(event[task[u].out], event'[task[u].out])
    BY ZenonT(30), <1>4 DEF Core, OutOK
<1>5. \A u \in Tasks : OutOK(u)'
    BY <1>3, <1>4, OutStays
<1>6. QED
    BY <1>1, <1>5, TaskStep

\* A task gets sources.
LEMMA FillingKeepsCore ==
    ASSUME Core, NEW t \in Tasks, NEW given, NEW r, Filling(t, given, r)
    PROVE  Core' /\ Growing
<1>1. /\ task[t].phase = "created" /\ r \in TaskRecord /\ r.phase = "created"
      /\ r.fn = task[t].fn /\ r.out = task[t].out /\ r.list = task[t].list
      /\ r.wanted = Over(given, task[t].wanted) /\ SlotsOK(r) /\ GivenOK(r.fn, given)
      /\ task' = [task EXCEPT ![t] = r]
      /\ event' \in [EventIds -> EventRecord]
      /\ \A e \in EventIds : Noted(event[e], event'[e])
    BY DEF Filling
<1>2. t # Main
    BY <1>1, CreatedTaskFacts
<1>3. Growing /\ \A e \in EventIds : Same(event[e], event'[e])
    BY <1>1, NotedGrowing
<1>4. ListOK(r) /\ RunOK(r)
    BY <1>1 DEF Core, ListOK, RunOK
<1>5. TaskDelivers(r)
    <2> SUFFICES ASSUME NEW p \in DOMAIN r.wanted
                 PROVE  Delivers(r.wanted[p], TypeOfPosition(r.fn, p))
        BY DEF TaskDelivers
    <2>1. CASE p \in DOMAIN given
        <3>1. r.wanted[p] = given[p]
            BY <1>1, <2>1 DEF Over
        <3>2. QED
            BY <1>1, <2>1, <3>1, SourceDelivers DEF GivenOK
    <2>2. CASE p \notin DOMAIN given
        <3>1. p \in DOMAIN task[t].wanted /\ r.wanted[p] = task[t].wanted[p]
            BY <1>1, <2>2 DEF Over
        <3>2. TaskDelivers(task[t])
            BY <1>2 DEF Core
        <3>3. QED
            BY <1>1, <3>1, <3>2 DEF TaskDelivers
    <2>3. QED
        BY <2>1, <2>2
<1>6. QED
    BY <1>1, <1>3, <1>4, <1>5, QuietStep

\* A task is destroyed.
LEMMA DroppingKeepsCore ==
    ASSUME Core, NEW t \in Tasks, Dropping(t)
    PROVE  Core' /\ Growing
<1> DEFINE r == [task[t] EXCEPT !.phase = "destroyed"]
<1>1. task[t].phase = "created" /\ UNCHANGED event /\ task \in [Tasks -> TaskRecord]
    BY DEF Dropping, Core, TypeInv
<1>2. t # Main /\ SlotsOK(task[t]) /\ ListOK(task[t]) /\ task[t] \in TaskRecord
    BY <1>1, CreatedTaskFacts DEF Core
<1>3. task' = [task EXCEPT ![t] = r]
    BY <1>1 DEF Dropping
<1>4. /\ r.phase = "destroyed" /\ r.fn = task[t].fn /\ r.out = task[t].out /\ r.slots = task[t].slots
      /\ r.count = task[t].count /\ r.wanted = task[t].wanted /\ r.list = task[t].list
    BY <1>2 DEF TaskRecord
<1>5. r \in TaskRecord
    BY <1>2 DEF TaskRecord, Phases
<1> HIDE DEF r
<1>6. ListOK(r) /\ SlotsOK(r) /\ RunOK(r) /\ TaskDelivers(r)
    BY <1>1, <1>2, <1>4 DEF ListOK, SlotsOK, RunOK, TaskDelivers
<1>7. Growing /\ \A e \in EventIds : Same(event[e], event'[e])
    BY <1>1, SteadyGrowing
<1>8. QED
    BY <1>1, <1>3, <1>4, <1>5, <1>6, <1>7, QuietStep

\* A task starts.
LEMMA StartingKeepsCore ==
    ASSUME Core, NEW t \in Tasks, NEW r, Starting(t, r)
    PROVE  Core' /\ Growing
<1>1. /\ task[t].phase = "created" /\ t # Main /\ r \in TaskRecord /\ r.phase = "running"
      /\ r.fn = task[t].fn /\ r.out = task[t].out /\ r.slots = task[t].slots
      /\ r.count = task[t].count /\ r.wanted = task[t].wanted /\ RunOK(r) /\ ListOK(r)
      /\ task' = [task EXCEPT ![t] = r] /\ UNCHANGED event
    BY DEF Starting
<1>2. SlotsOK(task[t]) /\ TaskDelivers(task[t])
    BY <1>1 DEF Core
<1>3. SlotsOK(r) /\ TaskDelivers(r)
    BY <1>1, <1>2 DEF SlotsOK, TaskDelivers
<1>4. Growing /\ \A e \in EventIds : Same(event[e], event'[e])
    BY <1>1, SteadyGrowing
<1>5. QED
    BY <1>1, <1>3, <1>4, QuietStep

\* A task ends.
LEMMA EndingKeepsCore ==
    ASSUME Core, NEW t \in Tasks, NEW r, Ending(t, r)
    PROVE  Core' /\ Growing
<1> DEFINE out == task[t].out
<1>1. PICK h \in Handles :
        /\ r = [task[t] EXCEPT !.phase = "ended", !.result = h]
        /\ out # NoEvent => event'[out].payloads = << h >>
    BY DEF Ending
<1>2. /\ task[t].phase = "running" /\ task' = [task EXCEPT ![t] = r]
      /\ event' \in [EventIds -> EventRecord]
      /\ \A e \in EventIds : e # out => event'[e] = event[e]
      /\ out # NoEvent =>
            /\ Persists(event[out], event'[out]) /\ event'[out].source = event[out].source
            /\ CountOK(event'[out]) /\ RoomOK(event'[out])
    BY DEF Ending
<1>3. task[t] \in TaskRecord /\ event \in [EventIds -> EventRecord] /\ OutOK(t) /\ ListOK(task[t])
    BY DEF Core, TypeInv
<1>4. /\ r.phase = "ended" /\ r.fn = task[t].fn /\ r.out = out /\ r.slots = task[t].slots
      /\ r.count = task[t].count /\ r.wanted = task[t].wanted /\ r.list = task[t].list
      /\ r.deps = task[t].deps /\ r.result = h
    BY <1>1, <1>3 DEF TaskRecord
<1>5. r \in TaskRecord
    BY <1>1, <1>3 DEF TaskRecord, Phases
<1>6. \A e \in EventIds : Persists(event[e], event[e])
    BY <1>3, AppendFacts, HandleFacts
<1>7. Growing
    <2> SUFFICES ASSUME NEW e \in EventIds
                 PROVE  /\ CountOK(event'[e]) /\ RoomOK(event'[e])
                        /\ \/ /\ Persists(event[e], event'[e]) /\ event'[e].source = event[e].source
                              /\ (event[e].type = "absent" => event'[e] = event[e])
                           \/ /\ event[e].type = "absent" /\ event'[e].type # "absent"
                              /\ event'[e].source = Hole /\ event'[e].payloads = << >>
        BY <1>2 DEF Growing
    <2>1. CASE e = out
        <3>1. out # NoEvent
            BY <2>1, TaskGraphAssumption
        <3>2. event[e].type = "once"
            BY <1>3, <2>1, <3>1 DEF OutOK
        <3>3. QED
            BY <1>2, <2>1, <3>1, <3>2
    <2>2. CASE e # out
        BY <1>2, <1>6, <2>2, EventCoreFacts
    <2>3. QED
        BY <2>1, <2>2
<1>8. ListOK(r)
    BY <1>3, <1>4 DEF ListOK
<1>9. \A u \in Tasks : OutOK(u)'
    <2>1. r.out # NoEvent =>
              /\ r.out \in EventIds \ Labels
              /\ event'[r.out].type = "once" /\ event'[r.out].source = Hole
              /\ event'[r.out].base = 0 /\ event'[r.out].data = Sig[r.fn].returns
              /\ event'[r.out].payloads = IF r.phase = "ended" THEN << r.result >> ELSE << >>
        BY <1>1, <1>2, <1>3, <1>4 DEF OutOK, Persists
    <2>2. ASSUME NEW u \in Tasks \ {t}, task[u].out # NoEvent
          PROVE  task[u].out # r.out /\ Same(event[task[u].out], event'[task[u].out])
        <3>1. OutOK(u)
            BY DEF Core
        <3>2. task[u].out \in EventIds /\ \A v \in Tasks : task[v].out = task[u].out => v = u
            BY <2>2, <3>1 DEF OutOK
        <3>3. task[u].out # r.out
            BY <1>4, <3>2
        <3>4. QED
            BY <1>2, <1>4, <3>2, <3>3 DEF Same
    <2>3. QED
        BY <1>2, <2>1, <2>2, OutStays
<1>10. ASSUME t # Main PROVE SlotsOK(r) /\ RunOK(r) /\ TaskDelivers(r)
    <2>1. SlotsOK(task[t]) /\ RunOK(task[t]) /\ TaskDelivers(task[t])
        BY <1>10 DEF Core
    <2>2. SlotsOK(r) /\ TaskDelivers(r)
        BY <1>2, <1>4, <2>1 DEF SlotsOK, TaskDelivers
    <2>3. \A p : ArgumentOf(r, p) = ArgumentOf(task[t], p)
        BY <1>4 DEF ArgumentOf
    <2>4. RunOK(r)
        BY <1>2, <1>4, <2>1, <2>3 DEF RunOK
    <2>5. QED
        BY <2>2, <2>4
<1>11. ASSUME t = Main
       PROVE  \E g \in Handles, phase \in {"running", "ended"} :
                 r = [NoTask EXCEPT !.phase = phase, !.result = g]
    <2>1. PICK g \in Handles, phase \in {"running", "ended"} :
            task[t] = [NoTask EXCEPT !.phase = phase, !.result = g]
        BY <1>11 DEF Core, UnusedOK
    <2>2. r = [NoTask EXCEPT !.phase = "ended", !.result = h]
        BY <1>1, <2>1 DEF NoTask
    <2>3. QED
        BY <2>2
<1>12. r.phase # "absent"
    BY <1>4
<1>13. QED
    BY <1>2, <1>5, <1>7, <1>8, <1>9, <1>10, <1>11, <1>12, TaskStep

\* What waits for an event waits for one that is there.
LEMMA PendingFacts ==
    ASSUME Core, NEW x \in Claims, NEW T, Delivers(x, T), ~ Live(event[x[1]])
    PROVE  Ready(x)
<1>1. IsClaim(x) /\ x[1] \in EventIds /\ x[2] \in Nat /\ x \notin Handles
    BY DistinctGuids
<1> DEFINE ev == event[x[1]]
<1>2. ev.payloads \in Seq(Handles) /\ ev.base \in Nat
    BY <1>1, EventCoreFacts
<1>3. Len(ev.payloads) \in Nat
    BY <1>2
<1>4. SUFFICES ASSUME ~ x[2] <= Len(ev.payloads) PROVE FALSE
    BY <1>1 DEF Ready
<1>5. Exists(ev) /\ (ev.type = "channel" \/ x[2] = ev.base + 1)
    BY <1>1, <1>4 DEF Delivers
<1>6. Spent(ev)
    BY <1>5 DEF Live
<1>7. ev.type # "channel" /\ Len(ev.payloads) - ev.base > 0
    BY <1>6 DEF Spent, Triggered, Triggers
<1>8. QED
    BY <1>2, <1>3, <1>4, <1>5, <1>7

\* A claim that a slot or an event makes is not on an event that is being destroyed.
Claimed(x) ==
    \/ \E t \in Tasks \ {Main} : task[t].phase # "destroyed" /\ x \in Range(task[t].wanted)
    \/ \E d \in EventIds : x = event[d].source

\* Whoever still waits for an event that is destroyed has its payload already.
LEMMA ClaimedFacts ==
    ASSUME Core, NEW x \in Claims, Claimed(x), NEW e \in EventIds, NEW new,
           Destroying(e, new), x[1] = e
    PROVE  Ready(x)
<1>1. IsClaim(x)
    BY DistinctGuids
<1>2. ~ \E d \in EventIds : x = event[d].source
    BY <1>1 DEF Destroying
<1>3. PICK t \in Tasks \ {Main} : task[t].phase # "destroyed" /\ x \in Range(task[t].wanted)
    BY <1>2 DEF Claimed
<1>4. SlotsOK(task[t]) /\ RunOK(task[t]) /\ task[t] \in TaskRecord
    BY DEF Core, TypeInv
<1>5. PICK p \in DOMAIN task[t].wanted : x = task[t].wanted[p]
    BY <1>3 DEF Range
<1>6. task[t].phase # "absent"
    <2> SUFFICES ASSUME task[t].phase = "absent" PROVE FALSE
        OBVIOUS
    <2>1. task[t].wanted = << >>
        BY DEF Core, UnusedOK, NoTask
    <2>2. QED
        BY <1>5, <2>1
<1>7. CASE task[t].phase \in {"running", "ended"}
    BY <1>4, <1>5, <1>7 DEF RunOK
<1>8. CASE task[t].phase = "created"
    <2>1. /\ task[t].fn \in Fns /\ task[t].count \in Nat
          /\ Matches(task[t].fn, task[t].count, task[t].slots, task[t].wanted)
        BY <1>8, CreatedTaskFacts
    <2>2. p \in Positions(task[t].fn, task[t].count)
        BY <1>5, <2>1 DEF Matches
    <2>3. SlotOf(task[t].fn, p) \in DOMAIN task[t].slots
        BY <2>1, <2>2, PositionFacts DEF Matches
    <2>4. \/ task[t].slots[SlotOf(task[t].fn, p)] = x
          \/ Ready(x)
        BY <1>5, <2>1, <2>2 DEF Matches
    <2>5. task[t].slots[SlotOf(task[t].fn, p)] = x => x \in Range(task[t].slots)
        BY <2>3 DEF Range
    <2>6. x \notin Range(task[t].slots)
        BY <1>1, <1>8 DEF Destroying
    <2>7. QED
        BY <2>4, <2>5, <2>6
<1>9. QED
    BY <1>3, <1>4, <1>6, <1>7, <1>8 DEF SlotsOK, TaskRecord, Phases

\* A call about one event takes nothing from the others, nor from whoever depends on
\* it.
LEMMA CallingKeeps ==
    ASSUME Core, NEW e \in EventIds, Calling(e)
    PROVE  /\ event \in [EventIds -> EventRecord] /\ event' \in [EventIds -> EventRecord]
           /\ \A d \in EventIds : Keeps(event[d], event'[d])
           /\ \A d \in EventIds \ {e} :
                 Persists(event[d], event'[d]) /\ Same(event[d], event'[d])
                 /\ CountOK(event'[d]) /\ RoomOK(event'[d])
                 /\ (event[d].type = "absent" => event'[d] = event[d])
           /\ \A x \in Handles \cup Claims : \A T :
                 Delivers(x, T) /\ (Claimed(x) \/ ~ Destroying(e, event'[e])) => Delivers(x, T)'
<1>1. event \in [EventIds -> EventRecord] /\ event' \in [EventIds -> EventRecord]
    BY DEF Calling, Core, TypeInv
<1>2. \A d \in EventIds \ {e} :
         Persists(event[d], event'[d]) /\ Same(event[d], event'[d])
         /\ CountOK(event'[d]) /\ RoomOK(event'[d])
         /\ (event[d].type = "absent" => event'[d] = event[d])
    BY NotedGrows DEF Calling
<1>3. Gaining(event[e], event'[e]) => Persists(event[e], event'[e])
    BY DEF Gaining
<1>4. PICK new \in EventRecord : new = event'[e]
    BY <1>1
<1>5. Keeps(event[e], event'[e])
    <2>1. CASE Gaining(event[e], new)
        BY <1>4, <2>1 DEF Gaining, Persists
    <2>2. CASE Renewing(e, new)
        <3>1. PICK type \in Types, data \in DataTypes, count \in Nat :
                new = Created(event[e], type, data, count)
            BY <2>2 DEF Renewing
        <3>2. new.payloads = event[e].payloads
            BY <3>1, EventCoreFacts, CreatedFacts
        <3>3. QED
            BY <1>1, <1>4, <3>2, KeepsFacts
    <2>3. CASE Destroying(e, new)
        <3>1. new.payloads = event[e].payloads
            BY <2>3, EventCoreFacts DEF Destroying, EventRecord
        <3>2. QED
            BY <1>1, <1>4, <3>1, KeepsFacts
    <2>4. QED
        BY <1>4, <2>1, <2>2, <2>3 DEF Calling
<1>6. \A d \in EventIds : Keeps(event[d], event'[d])
    BY <1>2, <1>5 DEF Persists
<1>7. ASSUME NEW x \in Handles \cup Claims, NEW T, Delivers(x, T),
             Claimed(x) \/ ~ Destroying(e, event'[e])
      PROVE  Delivers(x, T)'
    <2>1. ASSUME IsClaim(x) PROVE Ready(x) \/ Persists(event[x[1]], event'[x[1]])
        <3>1. x \in Claims /\ x[1] \in EventIds
            BY <2>1, DistinctGuids
        <3>2. CASE x[1] # e
            BY <1>2, <3>1, <3>2
        <3>3. CASE x[1] = e /\ Gaining(event[e], event'[e])
            BY <1>3, <3>3
        <3>4. CASE x[1] = e /\ Renewing(e, event'[e])
            <4>1. ~ Live(event[x[1]])
                BY <3>4 DEF Renewing
            <4>2. QED
                BY <1>7, <3>1, <4>1, PendingFacts
        <3>5. CASE x[1] = e /\ Destroying(e, event'[e])
            <4>1. Destroying(e, new) /\ Claimed(x)
                BY <1>4, <1>7, <3>5
            <4>2. QED
                BY <3>1, <3>5, <4>1, ClaimedFacts
        <3>6. QED
            BY <3>2, <3>3, <3>4, <3>5 DEF Calling
    <2>2. QED
        BY <1>1, <1>6, <1>7, <2>1, DeliversStays
<1>8. QED
    BY <1>1, <1>2, <1>6, <1>7

\* A call about an event keeps the invariant.
LEMMA CallingKeepsCore ==
    ASSUME Core, NEW e \in EventIds, Calling(e)
    PROVE  Core'
<1>1. /\ task \in [Tasks -> TaskRecord] /\ UNCHANGED task /\ (\A t \in Tasks : task[t].out # e)
      /\ event \in [EventIds -> EventRecord] /\ event' \in [EventIds -> EventRecord]
    BY CallingKeeps DEF Core, TypeInv, Calling
<1>2. PICK new \in EventRecord : new = event'[e]
    BY <1>1
<1>3. Gaining(event[e], new) \/ Renewing(e, new) \/ Destroying(e, new)
    BY <1>2 DEF Calling
<1>4. event[e] \in EventRecord /\ CountOK(event[e]) /\ RoomOK(event[e]) /\ EventDelivers(event[e])
    BY EventCoreFacts
<1>5. TypeInv'
    BY <1>1 DEF TypeInv
<1>6. ASSUME Renewing(e, new)
      PROVE  /\ new.type \in Types /\ new.base = Len(new.payloads) /\ new.source = Hole
             /\ CountOK(new) /\ RoomOK(new)
    <2>1. PICK type \in Types, data \in DataTypes, count \in Nat :
            new = Created(event[e], type, data, count)
        BY <1>6 DEF Renewing
    <2>2. data \in DataTypes \cup {Void}
        OBVIOUS
    <2>3. /\ new.type = type /\ new.base = Len(event[e].payloads) /\ new.payloads = event[e].payloads
          /\ new.source = Hole /\ CountOK(new)
        BY <1>4, <2>1, <2>2, CreatedFacts
    <2>4. QED
        BY <1>6, <2>3 DEF Renewing
<1>7. ASSUME Destroying(e, new)
      PROVE  /\ new.type = "destroyed" /\ ~ IsClaim(new.source)
             /\ new.base = event[e].base /\ new.payloads = event[e].payloads
    BY <1>4, <1>7 DEF Destroying, EventRecord
<1>8. ASSUME Gaining(event[e], new)
      PROVE  new.type = event[e].type /\ new.data = event[e].data /\ Exists(new)
    BY <1>8 DEF Gaining, Persists, Exists
<1>9. UnusedOK'
    <2>1. new.type # "absent"
        BY <1>3, <1>6, <1>7, <1>8 DEF Types, Exists
    <2>2. \A d \in EventIds : event'[d].type = "absent" => event'[d] = Absent
        <3> SUFFICES ASSUME NEW d \in EventIds, event'[d].type = "absent"
                     PROVE  event'[d] = Absent
            OBVIOUS
        <3>1. d # e
            BY <1>2, <2>1
        <3>2. event[d].type = "absent" /\ event'[d] = event[d]
            BY <3>1, CallingKeeps DEF Persists
        <3>3. QED
            BY <3>2 DEF Core, UnusedOK
    <2>3. QED
        BY <1>1, <2>2 DEF Core, UnusedOK
<1>10. ASSUME NEW t \in Tasks \ {Main}
       PROVE  (SlotsOK(task[t]) /\ RunOK(task[t]) /\ TaskDelivers(task[t]))'
    <2>1. PICK q \in TaskRecord : q = task[t] /\ task'[t] = q
        BY <1>1
    <2>2. SlotsOK(q) /\ RunOK(q) /\ TaskDelivers(q)
        BY <2>1 DEF Core
    <2>3. SlotsOK(q)' /\ RunOK(q)'
        BY <1>1, <2>2, CallingKeeps, ReadyStays
    <2>4. TaskDelivers(q)'
        <3> SUFFICES ASSUME q.phase # "destroyed", NEW p \in DOMAIN q.wanted
                     PROVE  Delivers(q.wanted[p], TypeOfPosition(q.fn, p))'
            BY DEF TaskDelivers
        <3>1. q.wanted[p] \in Handles \cup Claims
            BY TaskFields
        <3>2. Delivers(q.wanted[p], TypeOfPosition(q.fn, p))
            BY <2>2 DEF TaskDelivers
        <3>3. Claimed(q.wanted[p])
            BY <2>1 DEF Claimed, Range
        <3>4. QED
            BY <3>1, <3>2, <3>3, CallingKeeps
    <2>5. QED
        BY <2>1, <2>3, <2>4
<1>11. \A t \in Tasks : ListOK(task[t])'
    BY <1>1 DEF Core, ListOK
<1>12. ASSUME NEW t \in Tasks PROVE OutOK(t)'
    <2>1. task[t].out # NoEvent => Same(event[task[t].out], event'[task[t].out])
        BY <1>1, CallingKeeps DEF Core, OutOK
    <2>2. OutOK(t)
        BY DEF Core
    <2>3. QED
        BY <1>1, <2>1, <2>2 DEF OutOK, Same
<1>13. CountOK(new) /\ RoomOK(new)
    <2>1. CASE Gaining(event[e], new)
        BY <2>1 DEF Gaining
    <2>2. CASE Destroying(e, new)
        BY <1>4, <1>7, <2>2 DEF CountOK, RoomOK, Exists
    <2>3. QED
        BY <1>3, <1>6, <2>1, <2>2
<1>14. EventDelivers(new)'
    <2>1. CASE Gaining(event[e], new)
        <3>1. PICK x, T : x = new.source /\ T = event[e].data
            OBVIOUS
        <3>2. Exists(new) /\ new.data = T /\ Exists(event[e]) /\ ~ Destroying(e, event'[e])
            BY <1>2, <1>7, <1>8, <2>1, <3>1 DEF Gaining, Exists
        <3>3. IsClaim(x) => x \in Handles \cup Claims /\ Delivers(x, T)
            <4>1. CASE x = event[e].source
                BY <1>4, <3>1, <4>1, DistinctGuids DEF EventDelivers, EventRecord
            <4>2. CASE x = NullGuid
                BY <4>2, DistinctGuids
            <4>3. CASE x \in SourcesOf(T)
                BY <4>3, SourceDelivers
            <4>4. QED
                BY <2>1, <3>1, <4>1, <4>2, <4>3 DEF Gaining
        <3>4. IsClaim(x) => Delivers(x, T)'
            BY <3>2, <3>3, CallingKeeps
        <3>5. \A k \in new.base + 1 .. Len(new.payloads) : new.payloads[k] \in HandlesOf(T)
            BY <1>4, <2>1, <3>1, <3>2, PayloadsStay DEF Gaining, EventDelivers
        <3>6. QED
            BY <3>1, <3>2, <3>4, <3>5 DEF EventDelivers
    <2>2. CASE Renewing(e, new)
        <3>1. ~ IsClaim(new.source) /\ new.base = Len(new.payloads)
            BY <1>6, <2>2, DistinctGuids
        <3>2. new.base \in Nat
            BY EventFields
        <3>3. \A k \in new.base + 1 .. Len(new.payloads) : FALSE
            BY <3>1, <3>2
        <3>4. QED
            BY <3>1, <3>3 DEF EventDelivers
    <2>3. CASE Destroying(e, new)
        BY <1>7, <2>3 DEF EventDelivers, Exists
    <2>4. QED
        BY <1>3, <2>1, <2>2, <2>3
<1>15. ASSUME NEW d \in EventIds \ {e}
       PROVE  EventDelivers(event[d])'
    <2>1. PICK after \in EventRecord : after = event'[d]
        BY <1>1
    <2>2. Same(event[d], after)
        BY <2>1, CallingKeeps
    <2>3. EventDelivers(event[d])
        BY DEF Core
    <2>4. PICK x, T : x = after.source /\ T = after.data
        OBVIOUS
    <2>5. IsClaim(x) => Delivers(x, T)'
        <3> SUFFICES ASSUME IsClaim(x) PROVE Delivers(x, T)'
            OBVIOUS
        <3>1. x = event[d].source /\ T = event[d].data
            BY <2>2, <2>4 DEF Same
        <3>2. Delivers(x, T) /\ Claimed(x)
            BY <2>3, <3>1 DEF EventDelivers, Claimed
        <3>3. x \in Handles \cup Claims
            BY <2>4, DistinctGuids DEF EventRecord
        <3>4. QED
            BY <3>2, <3>3, CallingKeeps
    <2>6. EventDelivers(after)'
        BY <2>2, <2>3, <2>4, <2>5 DEF EventDelivers, Same, Exists
    <2>7. QED
        BY <2>1, <2>6
<1>16. ASSUME NEW d \in EventIds
       PROVE  (CountOK(event[d]) /\ RoomOK(event[d]) /\ EventDelivers(event[d]))'
    <2>1. CASE d = e
        <3>1. (CountOK(event[d]) /\ RoomOK(event[d]))'
            BY <1>2, <1>13, <2>1 DEF CountOK, RoomOK, Triggered, Triggers, Exists, IsClaim
        <3>2. EventDelivers(event[d])'
            BY <1>2, <1>14, <2>1
        <3>3. QED
            BY <3>1, <3>2
    <2>2. CASE d # e
        <3>1. CountOK(event'[d]) /\ RoomOK(event'[d])
            BY <2>2, CallingKeeps
        <3>2. (CountOK(event[d]) /\ RoomOK(event[d]))'
            BY <3>1 DEF CountOK, RoomOK, Triggered, Triggers, Exists, IsClaim
        <3>3. QED
            BY <1>15, <2>2, <3>2
    <2>3. QED
        BY <2>1, <2>2
<1>17. QED
    BY <1>5, <1>9, <1>10, <1>11, <1>12, <1>16 DEF Core

\* So does a step that changes nothing.
LEMMA StutterKeepsCore ==
    ASSUME Core, UNCHANGED << task, event >>
    PROVE  Core'
<1>1. Growing
    BY SteadyGrowing
<1>2. \A e \in EventIds : (CountOK(event[e]) /\ RoomOK(event[e]) /\ EventDelivers(event[e]))'
    BY <1>1, GrowingFacts DEF CountOK, RoomOK, Triggered, Triggers, Exists, IsClaim
<1>3. TypeInv' /\ UnusedOK'
    BY DEF Core, TypeInv, UnusedOK
<1>4. ASSUME NEW t \in Tasks PROVE (ListOK(task[t]) /\ OutOK(t))'
    <2>1. ListOK(task[t]) /\ OutOK(t)
        BY DEF Core
    <2>2. QED
        BY <2>1 DEF ListOK, OutOK
<1>5. ASSUME NEW t \in Tasks \ {Main}
      PROVE  (SlotsOK(task[t]) /\ RunOK(task[t]) /\ TaskDelivers(task[t]))'
    <2>1. PICK q \in TaskRecord : q = task[t] /\ task'[t] = q
        BY DEF Core, TypeInv
    <2>2. SlotsOK(q) /\ RunOK(q) /\ TaskDelivers(q)
        BY <2>1 DEF Core
    <2>3. SlotsOK(q)' /\ RunOK(q)'
        BY <1>1, <2>2, GrowingFacts, ReadyStays
    <2>4. \A p \in DOMAIN q.wanted : q.wanted[p] \in Handles \cup Claims
        BY TaskFields
    <2>5. TaskDelivers(q)'
        BY <1>1, <2>2, <2>4, GrowingFacts DEF TaskDelivers
    <2>6. QED
        BY <2>1, <2>3, <2>5
<1>6. QED
    BY <1>2, <1>3, <1>4, <1>5 DEF Core

\* All that a step can do.
Effect ==
    \/ (\E t \in Tasks : \E r : Making(t, r)) /\ UNCHANGED failure
    \/ (\E t \in Tasks : \E given, r : Filling(t, given, r)) /\ UNCHANGED failure
    \/ (\E t \in Tasks : Dropping(t))
    \/ (\E t \in Tasks : \E r : Starting(t, r))
    \/ (\E t \in Tasks : \E r : Ending(t, r))
    \/ (\E e \in EventIds : Calling(e))
    \/ \E assertion \in {"finish", "incomplete", "dependence", "self", "exists"} :
          Failing(assertion) /\ (assertion = "dependence" => Unattachable)
    \/ UNCHANGED vars

\* Every step of TaskGraph is of one of these kinds.
LEMMA StepFacts ==
    ASSUME Core, [Next]_vars
    PROVE  Effect
<1>1. CASE Creates
    BY <1>1, CreatesFacts DEF Effect
<1>2. CASE Fills
    <2>1. PICK t \in Tasks : Fillings(t) \/ Dropping(t)
        BY <1>2, FillsFacts
    <2>2. QED
        BY <2>1 DEF Effect, Fillings
<1>3. CASE EventCalls
    BY <1>3, EventCallsFacts DEF Effect
<1>4. CASE \E t \in Tasks : Start(t) \/ Finish(t)
    BY <1>4, StartFacts, FinishFacts DEF Effect
<1>5. QED
    BY <1>1, <1>2, <1>3, <1>4 DEF Next, Effect

\* The invariant holds at the start,
LEMMA InitCore ==
    ASSUME Init
    PROVE  Core
<1>1. /\ task = [t \in Tasks |-> IF t = Main THEN [NoTask EXCEPT !.phase = "running"] ELSE NoTask]
      /\ event = [e \in EventIds |-> Absent]
    BY DEF Init
<1>2. [NoTask EXCEPT !.phase = "running"] \in TaskRecord
    BY NoTaskTypes DEF TaskRecord, Phases
<1>3. TypeInv
    BY <1>1, <1>2, NoTaskTypes, AbsentTypes DEF TypeInv
<1>4. task[Main] = [NoTask EXCEPT !.phase = "running"] /\ \A t \in Tasks \ {Main} : task[t] = NoTask
    BY <1>1, TaskGraphAssumption
<1>5. UnusedOK
    <2>1. [NoTask EXCEPT !.phase = "running"] =
             [NoTask EXCEPT !.phase = "running", !.result = NullGuid]
        <3>1. NoTask.result = NullGuid
            BY DEF NoTask
        <3>2. QED
            BY <3>1, NoTaskTypes DEF TaskRecord
    <2>2. NullGuid \in Handles /\ "running" \in {"running", "ended"}
        BY DEF Handles
    <2>3. task[Main].phase # "absent"
        BY <1>4 DEF NoTask
    <2>4. QED
        BY <1>1, <1>4, <2>1, <2>2, <2>3 DEF UnusedOK
<1>6. ASSUME NEW t \in Tasks \ {Main}
      PROVE  SlotsOK(task[t]) /\ RunOK(task[t]) /\ TaskDelivers(task[t])
    <2>1. task[t].phase = "absent" /\ task[t].wanted = << >>
        BY <1>4 DEF NoTask
    <2>2. QED
        BY <2>1 DEF SlotsOK, RunOK, TaskDelivers
<1>7. ASSUME NEW t \in Tasks PROVE ListOK(task[t]) /\ OutOK(t)
    <2>1. task[t].out = NoEvent /\ task[t].list = EmptyList
        BY <1>4 DEF NoTask
    <2>2. Len(EmptyList.items) = 0 /\ EmptyList.capacity = 0
        BY DEF EmptyList
    <2>3. QED
        BY <2>1, <2>2 DEF ListOK, OutOK
<1>8. ASSUME NEW e \in EventIds
      PROVE  CountOK(event[e]) /\ RoomOK(event[e]) /\ EventDelivers(event[e])
    <2>1. /\ event[e].type = "absent" /\ event[e].base = 0 /\ event[e].payloads = << >>
          /\ event[e].source = Hole
        BY <1>1 DEF Absent
    <2>2. Len(event[e].payloads) = 0
        BY <2>1
    <2>3. QED
        BY <2>1, <2>2, DistinctGuids DEF CountOK, RoomOK, EventDelivers, Exists
<1>9. QED
    BY <1>3, <1>5, <1>6, <1>7, <1>8 DEF Core

\* every step keeps it,
LEMMA NextCore ==
    ASSUME Core, [Next]_vars
    PROVE  Core'
<1>1. Effect
    BY StepFacts
<1>2. CASE \E t \in Tasks : \E r : Making(t, r)
    BY <1>2, MakingKeepsCore
<1>3. CASE \E t \in Tasks : \E given, r : Filling(t, given, r)
    BY <1>3, FillingKeepsCore
<1>4. CASE \E t \in Tasks : Dropping(t)
    BY <1>4, DroppingKeepsCore
<1>5. CASE \E t \in Tasks : \E r : Starting(t, r)
    BY <1>5, StartingKeepsCore
<1>6. CASE \E t \in Tasks : \E r : Ending(t, r)
    BY <1>6, EndingKeepsCore
<1>7. CASE \E e \in EventIds : Calling(e)
    BY <1>7, CallingKeepsCore
<1>8. CASE \E assertion \in {"finish", "incomplete", "dependence", "self", "exists"} : Failing(assertion)
    BY <1>8, StutterKeepsCore DEF Failing
<1>9. CASE UNCHANGED vars
    BY <1>9, StutterKeepsCore DEF vars
<1>10. QED
    BY <1>1, <1>2, <1>3, <1>4, <1>5, <1>6, <1>7, <1>8, <1>9 DEF Effect

\* and so it holds in every state.
LEMMA CoreInvariant == Spec => []Core
<1>1. Init => Core
    BY InitCore
<1>2. Core /\ [Next]_vars => Core'
    BY NextCore
<1>3. QED
    BY <1>1, <1>2, PTL DEF Spec

-----------------------------------------------------------------------------
(* What tasks get                                                          *)

\* What it says of a task that has started: every argument is the payload of the
\* source given for its position.
LEMMA StartedFacts ==
    ASSUME Core, NEW t \in Started
    PROVE  /\ t \in Tasks \ {Main} /\ task[t] \in TaskRecord
           /\ task[t].fn \in Fns /\ task[t].count \in Nat /\ Depc(task[t].fn) \in Nat
           /\ DOMAIN task[t].wanted = Positions(task[t].fn, task[t].count)
           /\ Len(task[t].list.items) = task[t].count
           /\ task[t].list.items \in Seq(Handles)
           /\ \A p \in DOMAIN task[t].wanted :
                /\ task[t].wanted[p] \in Handles \cup Claims
                /\ Ready(task[t].wanted[p])
                /\ Argument(t, p) = Payload(task[t].wanted[p])
                /\ Argument(t, p) \in HandlesOf(TypeOfPosition(task[t].fn, p))
<1>1. t \in Tasks \ {Main} /\ task[t].phase \in {"running", "ended"}
    BY DEF Started
<1>2. task[t] \in TaskRecord /\ SlotsOK(task[t]) /\ RunOK(task[t]) /\ TaskDelivers(task[t])
    BY <1>1 DEF Core, TypeInv
<1>3. task[t].fn \in Fns /\ task[t].count \in Nat /\ Depc(task[t].fn) \in Nat
      /\ task[t].list.items \in Seq(Handles)
    <2>1. task[t].list \in ListRecord /\ task[t].count \in Nat
        BY <1>2, TaskFields
    <2>2. task[t].fn \in Fns
        BY <1>1, <1>2 DEF SlotsOK
    <2>3. QED
        BY <2>1, <2>2, SignatureFacts DEF ListRecord
<1>4. ASSUME NEW p \in DOMAIN task[t].wanted
      PROVE  /\ task[t].wanted[p] \in Handles \cup Claims
             /\ Ready(task[t].wanted[p])
             /\ Argument(t, p) = Payload(task[t].wanted[p])
             /\ Argument(t, p) \in HandlesOf(TypeOfPosition(task[t].fn, p))
    <2>1. PICK x : x = task[t].wanted[p]
        OBVIOUS
    <2>2. x \in Handles \cup Claims
        BY <1>2, <2>1, TaskFields
    <2>3. Ready(x) /\ ArgumentOf(task[t], p) = Payload(x)
        BY <1>1, <1>2, <2>1 DEF RunOK
    <2>4. Argument(t, p) = Payload(x)
        BY <2>3 DEF Argument, ArgumentOf
    <2>5. Delivers(x, TypeOfPosition(task[t].fn, p))
        BY <1>1, <1>2, <2>1 DEF TaskDelivers
    <2>6. Payload(x) \in HandlesOf(TypeOfPosition(task[t].fn, p))
        BY <2>2, <2>3, <2>5, DistinctGuids DEF Delivers, Payload, Ready
    <2>7. QED
        BY <2>1, <2>2, <2>3, <2>4, <2>6
<1>5. QED
    BY <1>1, <1>2, <1>3, <1>4 DEF RunOK

\* It implies the type invariant the runs check.
LEMMA CoreTypeOK == Core => TypeOK
<1> SUFFICES ASSUME Core PROVE TypeOK
    OBVIOUS
<1>1. ASSUME NEW t \in Tasks \ {Main}, task[t].phase # "absent"
      PROVE  /\ task[t].fn \in Fns
             /\ DOMAIN task[t].slots = Indices(Depc(task[t].fn) + task[t].count)
             /\ \A x \in Range(task[t].slots) : IsClaim(x) => x \in EventIds \X (Nat \ {0})
             /\ DOMAIN task[t].wanted \subseteq Positions(task[t].fn, task[t].count)
             /\ \A u \in Tasks \ {t} : task[t].out = task[u].out => task[t].out = NoEvent
    <2>1. SlotsOK(task[t]) /\ OutOK(t) /\ task[t] \in TaskRecord
        BY DEF Core, TypeInv
    <2>2. task[t].slots \in [DOMAIN task[t].slots -> Handles \cup Claims \cup {Hole, Lost}]
        BY <2>1, TaskFields
    <2>3. \A x \in Range(task[t].slots) : IsClaim(x) => x \in EventIds \X (Nat \ {0})
        BY <2>2, DistinctGuids DEF Range, Claims
    <2>4. \A u \in Tasks \ {t} : task[t].out = task[u].out => task[t].out = NoEvent
        BY <2>1 DEF OutOK
    <2>5. QED
        BY <1>1, <2>1, <2>3, <2>4 DEF SlotsOK, Matches
<1>2. \A e \in EventIds : event[e].type \in Types \cup {"absent", "destroyed"}
    BY DEF Core, TypeInv, EventRecord
<1>3. QED
    BY <1>1, <1>2 DEF TypeOK

\* Every task has exactly the slots its signature and its list call for, and its own
\* output event: what TaskBuilder and Task::Init hand to ocrEdtCreate.
THEOREM TypeCorrect == Spec => []TypeOK
BY CoreInvariant, CoreTypeOK, PTL

\* However a task was created and in whatever order its sources were attached, its
\* function does not run before all of them are there: the holes CreateTaskPartial,
\* CreateFuturePartial and CreateNullTask leave are all filled first.
THEOREM NoTaskStartsEarly == Spec => []NoEarlyStart
<1>1. Core => NoEarlyStart
    BY StartedFacts DEF NoEarlyStart, Filled
<1>2. QED
    BY <1>1, CoreInvariant, PTL

\* Each argument comes from the source given for its position: the slots that
\* CreateTask, DependOn, DependOnRange, DependOnList and DependOnWithinList number
\* are the ones UnpackArgs and UnpackVarArgs read, for every signature.
THEOREM ArgumentsComeInOrder == Spec => []ArgumentsInOrder
<1>1. Core => ArgumentsInOrder
    BY StartedFacts DEF ArgumentsInOrder
<1>2. QED
    BY <1>1, CoreInvariant, PTL

\* Each argument is of its parameter's type: the static check of DependOn<slot>, which
\* counts among all parameters, guards the slot it fills, and what events and lists
\* pass on keeps its type.
THEOREM ArgumentsHaveTheirTypes == Spec => []ArgumentsWellTyped
<1>1. Core => ArgumentsWellTyped
    <2> SUFFICES ASSUME Core, NEW t \in Started
                 PROVE  LET f == task[t].fn
                        IN  /\ \A i \in Indices(Depc(f)) :
                                  task[t].deps[i + 1] \in HandlesOf(DepsFn(Sig[f].params)[i + 1].type)
                            /\ \A i \in DOMAIN task[t].list.items :
                                  task[t].list.items[i] \in HandlesOf(ListType(f))
        BY DEF ArgumentsWellTyped
    <2> DEFINE f == task[t].fn
               n == task[t].count
    <2>1. f \in Fns /\ n \in Nat /\ DOMAIN task[t].wanted = Positions(f, n)
          /\ Len(task[t].list.items) = n /\ task[t].list.items \in Seq(Handles)
        BY StartedFacts
    <2>2. ASSUME NEW i \in Indices(Depc(f))
          PROVE  task[t].deps[i + 1] \in HandlesOf(DepsFn(Sig[f].params)[i + 1].type)
        <3> DEFINE p == << "dep", i >>
        <3>1. p \in DOMAIN task[t].wanted
            BY <2>1, PositionFacts
        <3>2. Argument(t, p) \in HandlesOf(TypeOfPosition(f, p))
            BY <3>1, StartedFacts
        <3>3. QED
            BY <3>2 DEF Argument, TypeOfPosition
    <2>3. ASSUME NEW i \in DOMAIN task[t].list.items
          PROVE  task[t].list.items[i] \in HandlesOf(ListType(f))
        <3> DEFINE j == i - 1
                   p == << "list", j >>
        <3>1. j \in Indices(n) /\ j + 1 = i
            BY <2>1 DEF Indices
        <3>2. p \in DOMAIN task[t].wanted
            BY <2>1, <3>1, PositionFacts
        <3>3. Argument(t, p) \in HandlesOf(TypeOfPosition(f, p))
            BY <3>2, StartedFacts
        <3>4. Argument(t, p) = task[t].list.items[j + 1] /\ TypeOfPosition(f, p) = ListType(f)
            BY DEF Argument, TypeOfPosition
        <3>5. QED
            BY <3>1, <3>3, <3>4
    <2>4. QED
        BY <2>2, <2>3
<1>2. QED
    BY <1>1, CoreInvariant, PTL

\* InternalFn finds as many dependences as it asserts, whichever of the creators made
\* the task.
THEOREM LaunchNeverAsserts == Spec => []NoLaunchAssertion
<1>1. Init => NoLaunchAssertion
    BY DEF Init, NoFailure, NoLaunchAssertion
<1>2. Core /\ NoLaunchAssertion /\ [Next]_vars => NoLaunchAssertion'
    <2> SUFFICES ASSUME Core, NoLaunchAssertion, [Next]_vars PROVE NoLaunchAssertion'
        OBVIOUS
    <2>1. Effect
        BY StepFacts
    <2>2. CASE UNCHANGED failure
        BY <2>2 DEF NoLaunchAssertion
    <2>3. CASE \E assertion \in {"finish", "incomplete", "dependence", "self", "exists"} :
                 Failing(assertion)
        BY <2>3 DEF Failing, NoLaunchAssertion
    <2>4. QED
        BY <2>1, <2>2, <2>3 DEF Effect, Dropping, Starting, Ending, Calling, vars
<1>3. QED
    BY <1>1, <1>2, CoreInvariant, PTL DEF Spec

\* A future's event brings what the future's task has returned, to whoever depends on
\* it: CreateFuture and Launch are about the same event and the same guid.
THEOREM FuturesBringResults == Spec => []FuturesDeliver
<1>1. Core => FuturesDeliver
    <2> SUFFICES ASSUME Core, NEW t \in Started, NEW p \in DOMAIN task[t].wanted, NEW u \in Tasks,
                        task[t].wanted[p] = << task[u].out, 1 >>
                 PROVE  task[u].phase = "ended" /\ Argument(t, p) = task[u].result
        BY DEF FuturesDeliver
    <2> DEFINE e == task[u].out
               x == << e, 1 >>
    <2>1. x \in Handles \cup Claims /\ Ready(x) /\ Argument(t, p) = Payload(x)
        BY StartedFacts
    <2>2. e \in EventIds \cup {NoEvent}
        BY TaskFields DEF Core, TypeInv
    <2>3. x \in Claims
        <3>1. x \in (EventIds \cup {NoEvent}) \X Nat
            BY <2>2
        <3>2. x \notin Handles
            BY <3>1, GuidAssumption DEF Handles
        <3>3. QED
            BY <2>1, <3>2
    <2>4. e \in EventIds /\ e # NoEvent
        BY <2>3, TaskGraphAssumption DEF Claims
    <2>5. event[e].payloads = IF task[u].phase = "ended" THEN << task[u].result >> ELSE << >>
        BY <2>4 DEF Core, OutOK
    <2>6. x[1] = e /\ x[2] = 1 /\ IsClaim(x) /\ x \notin Handles
        BY <2>3, DistinctGuids
    <2>7. 1 <= Len(event[e].payloads)
        BY <2>1, <2>6 DEF Ready
    <2>8. Payload(x) = event[e].payloads[1]
        BY <2>6 DEF Payload
    <2>9. task[u].phase = "ended"
        BY <2>5, <2>7
    <2>10. QED
        BY <2>1, <2>5, <2>8, <2>9
<1>2. QED
    BY <1>1, CoreInvariant, PTL

\* A task that depends on a latch runs after as many calls of Down as of Up and the
\* latch's count together.
THEOREM LatchesAreBalanced == Spec => []LatchesBalance
<1>1. Core => LatchesBalance
    <2> SUFFICES ASSUME Core, NEW t \in Started, NEW p \in DOMAIN task[t].wanted,
                        IsClaim(task[t].wanted[p]),
                        event[task[t].wanted[p][1]].type = "latch",
                        task[t].wanted[p][2] > event[task[t].wanted[p][1]].base
                 PROVE  LET ev == event[task[t].wanted[p][1]]
                        IN  ev.downs = ev.ups + ev.count
        BY DEF LatchesBalance
    <2>1. PICK x : x = task[t].wanted[p]
        OBVIOUS
    <2>2. x \in Claims /\ Ready(x) /\ IsClaim(x)
        BY <2>1, StartedFacts, DistinctGuids
    <2> DEFINE ev == event[x[1]]
    <2>3. x[1] \in EventIds /\ x[2] \in Nat /\ x \notin Handles
        BY <2>2, DistinctGuids
    <2>4. x[2] <= Len(ev.payloads) /\ x[2] > ev.base /\ ev.type = "latch"
        BY <2>1, <2>2, <2>3 DEF Ready
    <2>5. ev \in EventRecord /\ CountOK(ev)
        BY <2>3, EventCoreFacts
    <2>6. ev.payloads \in Seq(Handles) /\ ev.base \in Nat /\ ev.ups \in Nat /\ ev.downs \in Nat
          /\ ev.count \in Nat /\ ev.counter \in Int
        BY <2>5, EventFields
    <2> HIDE DEF ev
    <2>7. Len(ev.payloads) - ev.base > 0
        <3>1. Len(ev.payloads) \in Nat
            BY <2>6
        <3>2. QED
            BY <2>3, <2>4, <2>6, <3>1
    <2>8. ev.counter = ev.count + ev.ups - ev.downs /\ ev.counter = 0
        BY <2>4, <2>5, <2>7 DEF CountOK, Triggered, Triggers
    <2>9. ev.downs = ev.ups + ev.count
        BY <2>6, <2>8
    <2>10. QED
        BY <2>1, <2>9 DEF ev
<1>2. QED
    BY <1>1, CoreInvariant, PTL

=============================================================================
