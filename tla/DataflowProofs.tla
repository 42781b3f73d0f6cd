---------------------------- MODULE DataflowProofs ----------------------------
(***************************************************************************)
(* TaskGraph implements Dataflow: the slots and events of OCR, as the      *)
(* library uses them, are a graph of tasks whose inputs are put once.      *)
(***************************************************************************)
EXTENDS TaskGraphProofs

-----------------------------------------------------------------------------
(* The state of the graph                                                  *)

GraphPhase == [t \in Tasks |-> IF task[t].phase = "garbage" THEN "created" ELSE task[t].phase]

GraphNeeds ==
    [t \in Tasks |-> IF t = Main \/ task[t].phase = "absent" THEN {}
                     ELSE Positions(task[t].fn, task[t].count)]

GraphInputs == [t \in Tasks |-> task[t].wanted]

GraphArgs ==
    [t \in Tasks |-> IF t \in Started THEN [p \in DOMAIN task[t].wanted |-> Argument(t, p)]
                     ELSE << >>]

GraphPlaces == EventIds \X (1 .. MaxPayloads + 1)

\* The same, of the record of a task.
NeedsOf(t, r) ==
    IF t = Main \/ r.phase = "absent" THEN {} ELSE Positions(r.fn, r.count)

ArgsOf(t, r) ==
    IF t # Main /\ r.phase \in {"running", "ended"}
    THEN [p \in DOMAIN r.wanted |-> ArgumentOf(r, p)]
    ELSE << >>

\* No task's creation fails: every creator passes as many dependences as the
\* template has.
LEMMA NoGarbage ==
    ASSUME Core
    PROVE  \A u \in Tasks : task[u].phase # "garbage"
BY MainFacts DEF Core, SlotsOK

\* The refinement mapping, by the records of the tasks.
LEMMA GraphRecords ==
    ASSUME Core
    PROVE  /\ GraphPhase = [u \in Tasks |-> task[u].phase]
           /\ GraphNeeds = [u \in Tasks |-> NeedsOf(u, task[u])]
           /\ GraphArgs = [u \in Tasks |-> ArgsOf(u, task[u])]
<1>1. \A u \in Tasks : task[u].phase # "garbage"
    BY NoGarbage
<1>2. GraphPhase = [t \in Tasks |-> task[t].phase]
    BY <1>1 DEF GraphPhase
<1>3. GraphNeeds = [t \in Tasks |-> NeedsOf(t, task[t])]
    BY DEF GraphNeeds, NeedsOf
<1>4. ASSUME NEW t \in Tasks
      PROVE  (IF t \in Started THEN [p \in DOMAIN task[t].wanted |-> Argument(t, p)] ELSE << >>)
                = ArgsOf(t, task[t])
    BY DEF ArgsOf, Started, Argument, ArgumentOf
<1>5. GraphArgs = [t \in Tasks |-> ArgsOf(t, task[t])]
    BY <1>4 DEF GraphArgs
<1>6. QED
    BY <1>2, <1>3, <1>5

\* What one new record of a task is for the graph.
LEMMA GraphStep ==
    ASSUME Core, Core', NEW t \in Tasks, NEW r, task' = [task EXCEPT ![t] = r]
    PROVE  /\ GraphPhase' = [GraphPhase EXCEPT ![t] = r.phase]
           /\ GraphNeeds' = [GraphNeeds EXCEPT ![t] = NeedsOf(t, r)]
           /\ GraphInputs' = [GraphInputs EXCEPT ![t] = r.wanted]
           /\ GraphArgs' = [GraphArgs EXCEPT ![t] = ArgsOf(t, r)]
<1>1. task'[t] = r /\ \A u \in Tasks \ {t} : task'[u] = task[u]
    BY DEF Core, TypeInv
<1>2. /\ GraphPhase = [u \in Tasks |-> task[u].phase]
      /\ GraphNeeds = [u \in Tasks |-> NeedsOf(u, task[u])]
      /\ GraphArgs = [u \in Tasks |-> ArgsOf(u, task[u])]
    BY GraphRecords
<1>3. /\ GraphPhase' = [u \in Tasks |-> task'[u].phase]
      /\ GraphNeeds' = [u \in Tasks |-> NeedsOf(u, task'[u])]
      /\ GraphArgs' = [u \in Tasks |-> ArgsOf(u, task'[u])]
    <2>1. (Core => \A u \in Tasks : task[u].phase # "garbage")'
        BY NoGarbage, PTL
    <2>2. GraphPhase' = [u \in Tasks |-> task'[u].phase]
        BY <2>1 DEF GraphPhase
    <2>3. GraphNeeds' = [u \in Tasks |-> NeedsOf(u, task'[u])]
        BY DEF GraphNeeds, NeedsOf, Positions
    <2>4. GraphArgs' = [u \in Tasks |-> ArgsOf(u, task'[u])]
        <3>1. ASSUME NEW u \in Tasks
              PROVE  (IF u \in Started THEN [p \in DOMAIN task[u].wanted |-> Argument(u, p)]
                      ELSE << >>)' = ArgsOf(u, task'[u])
            BY DEF ArgsOf, Started, Argument, ArgumentOf
        <3>2. QED
            BY <3>1 DEF GraphArgs
    <2>5. QED
        BY <2>2, <2>3, <2>4
<1>4. GraphPhase' = [GraphPhase EXCEPT ![t] = r.phase]
    BY <1>1, <1>2, <1>3
<1>5. GraphNeeds' = [GraphNeeds EXCEPT ![t] = NeedsOf(t, r)]
    BY <1>1, <1>2, <1>3
<1>6. GraphArgs' = [GraphArgs EXCEPT ![t] = ArgsOf(t, r)]
    BY <1>1, <1>2, <1>3
<1>7. GraphInputs' = [GraphInputs EXCEPT ![t] = r.wanted]
    <2>1. \A u \in Tasks : task'[u].wanted = IF u = t THEN r.wanted ELSE task[u].wanted
        BY <1>1
    <2>2. GraphInputs' = [u \in Tasks |-> IF u = t THEN r.wanted ELSE task[u].wanted]
        BY <2>1 DEF GraphInputs
    <2>3. QED
        BY <2>2 DEF GraphInputs
<1>8. QED
    BY <1>4, <1>5, <1>6, <1>7

-----------------------------------------------------------------------------
(* What has been put                                                       *)

\* The places that hold something.
Held == UNION { {e} \X (1 .. Len(event[e].payloads)) : e \in EventIds }

\* The values that have been put are the payloads of the events; a source that is an
\* event is ready when its payload is among them.
LEMMA PutFacts ==
    ASSUME Core
    PROVE  /\ DOMAIN Put = Held
           /\ \A d \in EventIds : \A j : << d, j >> \in Held <=> j \in 1 .. Len(event[d].payloads)
           /\ Held \subseteq Claims
           /\ Put = [x \in Held |-> event[x[1]].payloads[x[2]]]
           /\ \A x \in Claims : Ready(x) <=> x \in Held
<1>1. \A e \in EventIds : event[e].payloads \in Seq(Handles)
    BY EventCoreFacts
<1>2. \A e \in EventIds : Len(event[e].payloads) \in Nat
    BY <1>1
<1>3. Held \subseteq Claims
    BY <1>2 DEF Held, Claims
<1>4. DOMAIN Put = Held
    BY DEF Put, Held
<1>5. \A e \in EventIds : \A k : << e, k >> \in Held <=> k \in 1 .. Len(event[e].payloads)
    BY DEF Held
<1>6. Put = [x \in Held |-> event[x[1]].payloads[x[2]]]
    <2>1. Put = [x \in Held |-> Payload(x)]
        BY DEF Put, Held
    <2>2. \A x \in Held : Payload(x) = event[x[1]].payloads[x[2]]
        BY <1>3, DistinctGuids DEF Payload
    <2>3. QED
        BY <2>1, <2>2
<1>7. ASSUME NEW x \in Claims PROVE Ready(x) <=> x \in Held
    <2>1. IsClaim(x) /\ x \notin Handles /\ x[1] \in EventIds /\ x[2] \in Nat /\ x[2] > 0
          /\ x = << x[1], x[2] >>
        BY DistinctGuids DEF Claims
    <2>2. Ready(x) <=> x[2] \in 1 .. Len(event[x[1]].payloads)
        BY <1>2, <2>1 DEF Ready
    <2>3. QED
        BY <1>5, <2>1, <2>2
<1>8. QED
    BY <1>3, <1>4, <1>5, <1>6, <1>7

\* A step that gives no event a payload puts nothing.
LEMMA PutStays ==
    ASSUME Core, Core', \A e \in EventIds : event'[e].payloads = event[e].payloads
    PROVE  Put' = Put
<1>1. Put = [x \in Held |-> event[x[1]].payloads[x[2]]] /\ Held \subseteq Claims
    BY PutFacts
<1>2. Put' = [x \in Held' |-> event'[x[1]].payloads[x[2]]]
    <2>1. (Core => Put = [x \in Held |-> event[x[1]].payloads[x[2]]])'
        BY PutFacts, PTL
    <2>2. QED
        BY <2>1
<1>3. Held' = Held
    BY DEF Held
<1>4. \A x \in Held : event'[x[1]].payloads[x[2]] = event[x[1]].payloads[x[2]]
    BY <1>1, DistinctGuids
<1>5. QED
    BY <1>1, <1>2, <1>3, <1>4

\* One more payload is a place that is put.
LEMMA PutOne ==
    ASSUME Core, Core', NEW e \in EventIds, NEW h \in Handles,
           event'[e].payloads = Append(event[e].payloads, h),
           Len(event[e].payloads) <= MaxPayloads,
           \A d \in EventIds \ {e} : event'[d].payloads = event[d].payloads
    PROVE  \E p \in GraphPlaces :
              /\ p \notin DOMAIN Put
              /\ Put' = [q \in DOMAIN Put \cup {p} |-> IF q = p THEN h ELSE Put[q]]
<1> DEFINE n == Len(event[e].payloads)
           k == n + 1
           p == << e, k >>
<1>1. event[e].payloads \in Seq(Handles)
    BY EventCoreFacts
<1>2. n \in Nat /\ Len(event'[e].payloads) = n + 1 /\ event'[e].payloads[n + 1] = h
      /\ \A j \in 1 .. n : event'[e].payloads[j] = event[e].payloads[j]
    BY <1>1
<1>3. /\ Put = [x \in Held |-> event[x[1]].payloads[x[2]]] /\ Held \subseteq Claims
      /\ \A d \in EventIds : \A j : << d, j >> \in Held <=> j \in 1 .. Len(event[d].payloads)
    BY PutFacts
<1>4. /\ Put' = [x \in Held' |-> event'[x[1]].payloads[x[2]]]
      /\ Held' \subseteq Claims
      /\ \A d \in EventIds : \A j : << d, j >> \in Held' <=> j \in 1 .. Len(event'[d].payloads)
    <2>1. (Core => Put = [x \in Held |-> event[x[1]].payloads[x[2]]])'
        BY PutFacts, PTL
    <2>2. (Core => Held \subseteq Claims)'
        BY PutFacts, PTL
    <2>3. \A d \in EventIds : \A j : << d, j >> \in Held' <=> j \in 1 .. Len(event'[d].payloads)
        BY DEF Held
    <2>4. QED
        BY <2>1, <2>2, <2>3 DEF Claims
<1>5. n \in 0 .. MaxPayloads /\ k \in 1 .. MaxPayloads + 1 /\ k \notin 1 .. n
    BY <1>2, TaskGraphAssumption
<1>6. \A j : j \in 1 .. n + 1 <=> j \in 1 .. n \/ j = k
    BY <1>2
<1>7. p \in GraphPlaces /\ p \notin Held
    BY <1>3, <1>5 DEF GraphPlaces
<1>8. Held' = Held \cup {p}
    <2>1. ASSUME NEW x \in Claims PROVE x \in Held' <=> x \in Held \cup {p}
        <3>1. PICK d \in EventIds, j \in Nat : x = << d, j >>
            BY DEF Claims
        <3>2. CASE d = e
            BY <1>2, <1>3, <1>4, <1>6, <3>1, <3>2
        <3>3. CASE d # e
            BY <1>3, <1>4, <3>1, <3>3
        <3>4. QED
            BY <3>2, <3>3
    <2>2. p \in Claims
        BY <1>2 DEF Claims
    <2>3. QED
        BY <1>3, <1>4, <2>1, <2>2
<1>9. ASSUME NEW x \in Held'
      PROVE  event'[x[1]].payloads[x[2]] = IF x = p THEN h ELSE Put[x]
    <2>1. PICK d \in EventIds, j \in Nat : x = << d, j >>
        BY <1>4, <1>9 DEF Claims
    <2>2. CASE x = p
        BY <1>2, <2>2
    <2>3. CASE x # p
        <3>1. x \in Held
            BY <1>8, <1>9, <2>3
        <3>2. Put[x] = event[d].payloads[j] /\ j \in 1 .. Len(event[d].payloads)
            BY <1>3, <2>1, <3>1
        <3>3. event'[d].payloads[j] = event[d].payloads[j]
            BY <1>2, <3>2
        <3>4. QED
            BY <2>1, <2>3, <3>2, <3>3
    <2>4. QED
        BY <2>2, <2>3
<1> HIDE DEF p
<1>10. DOMAIN Put = Held
    BY <1>3
<1>11. Put' = [q \in DOMAIN Put \cup {p} |-> IF q = p THEN h ELSE Put[q]]
    BY <1>4, <1>8, <1>9, <1>10
<1>12. QED
    BY <1>7, <1>10, <1>11

-----------------------------------------------------------------------------
(* Steps                                                                   *)

\* One lemma for each kind of step. A task that is made is created, with the inputs
\* it has been given.
LEMMA MakingCreates ==
    ASSUME Core, Core', NEW t \in Tasks, NEW r, Making(t, r)
    PROVE  Graph!Next
<1>1. /\ t # Main /\ task[t].phase = "absent" /\ r \in TaskRecord /\ r.phase = "created"
      /\ SlotsOK(r) /\ task' = [task EXCEPT ![t] = r]
      /\ r.out # NoEvent => r.out \in EventIds \ Labels /\ event[r.out].type = "absent"
    BY DEF Making
<1>2. /\ GraphPhase' = [GraphPhase EXCEPT ![t] = r.phase]
      /\ GraphNeeds' = [GraphNeeds EXCEPT ![t] = NeedsOf(t, r)]
      /\ GraphInputs' = [GraphInputs EXCEPT ![t] = r.wanted]
      /\ GraphArgs' = [GraphArgs EXCEPT ![t] = ArgsOf(t, r)]
    BY <1>1, GraphStep
<1>3. /\ GraphPhase = [u \in Tasks |-> task[u].phase]
      /\ GraphNeeds = [u \in Tasks |-> NeedsOf(u, task[u])]
      /\ GraphArgs = [u \in Tasks |-> ArgsOf(u, task[u])]
    BY GraphRecords
<1>4. DOMAIN r.wanted \subseteq NeedsOf(t, r)
    BY <1>1 DEF SlotsOK, Matches, NeedsOf
<1>5. GraphArgs' = GraphArgs
    <2>1. ArgsOf(t, r) = << >> /\ ArgsOf(t, task[t]) = << >>
        BY <1>1 DEF ArgsOf
    <2>2. QED
        BY <1>2, <1>3, <2>1
<1>6. Put' = Put
    <2>1. ASSUME NEW e \in EventIds PROVE event'[e].payloads = event[e].payloads
        <3>1. CASE e = r.out
            <4>1. event[e] = Absent /\ r.out # NoEvent
                BY <1>1, <3>1, TaskGraphAssumption DEF Core, UnusedOK
            <4>2. Noted(Created(Absent, "once", Sig[r.fn].returns, 0), event'[e])
                BY <3>1 DEF Making
            <4>3. r.fn \in Fns
                BY <1>1 DEF SlotsOK
            <4>4. "once" \in Types /\ 0 \in Nat /\ Sig[r.fn].returns \in DataTypes \cup {Void}
                BY <4>3, TaskGraphAssumption DEF Types
            <4>5. event'[e].payloads = Absent.payloads
                BY SMTT(30), <4>2, <4>4, AbsentTypes, CreatedFacts DEF Noted
            <4>6. QED
                BY <4>1, <4>5
        <3>2. CASE e # r.out
            <4>1. Noted(event[e], event'[e])
                BY <3>2 DEF Making
            <4>2. QED
                BY <4>1, NotedGrows DEF Same
        <3>3. QED
            BY <3>1, <3>2
    <2>2. QED
        BY <2>1, PutStays
<1>7. Graph!Create(t, GraphNeeds'[t], GraphInputs'[t])
    <2>1. GraphNeeds'[t] = NeedsOf(t, r) /\ GraphInputs'[t] = r.wanted
        BY <1>2, <1>3 DEF GraphInputs
    <2>2. GraphPhase[t] = "absent" /\ GraphPhase' = [GraphPhase EXCEPT ![t] = "created"]
        BY <1>1, <1>2, <1>3
    <2>3. GraphNeeds' = [GraphNeeds EXCEPT ![t] = GraphNeeds'[t]]
          /\ GraphInputs' = [GraphInputs EXCEPT ![t] = GraphInputs'[t]]
        BY <1>2, <2>1
    <2>4. DOMAIN (GraphInputs'[t]) \subseteq GraphNeeds'[t]
        BY <1>4, <2>1
    <2>5. QED
        BY <1>5, <1>6, <2>2, <2>3, <2>4
        DEF Graph!Create, GraphPhase, GraphNeeds, GraphInputs, GraphArgs
<1>8. QED
    BY <1>7 DEF Graph!Next, GraphNeeds, GraphInputs


\* A task that gets sources has inputs connected.
LEMMA FillingConnects ==
    ASSUME Core, Core', NEW t \in Tasks, NEW given, NEW r, Filling(t, given, r)
    PROVE  Graph!Next
<1>1. /\ task[t].phase = "created" /\ r \in TaskRecord /\ r.phase = "created"
      /\ r.fn = task[t].fn /\ r.count = task[t].count
      /\ r.wanted = Over(given, task[t].wanted) /\ DOMAIN given \cap DOMAIN task[t].wanted = {}
      /\ SlotsOK(r) /\ task' = [task EXCEPT ![t] = r]
      /\ \A e \in EventIds : Noted(event[e], event'[e])
    BY DEF Filling
<1>2. /\ GraphPhase' = [GraphPhase EXCEPT ![t] = r.phase]
      /\ GraphNeeds' = [GraphNeeds EXCEPT ![t] = NeedsOf(t, r)]
      /\ GraphInputs' = [GraphInputs EXCEPT ![t] = r.wanted]
      /\ GraphArgs' = [GraphArgs EXCEPT ![t] = ArgsOf(t, r)]
    BY <1>1, GraphStep
<1>3. /\ GraphPhase = [u \in Tasks |-> task[u].phase]
      /\ GraphNeeds = [u \in Tasks |-> NeedsOf(u, task[u])]
      /\ GraphArgs = [u \in Tasks |-> ArgsOf(u, task[u])]
    BY GraphRecords
<1>4. t # Main
    BY <1>1, CreatedTaskFacts
<1>5. GraphPhase' = GraphPhase /\ GraphPhase[t] = "created"
    BY <1>1, <1>2, <1>3
<1>6. GraphNeeds' = GraphNeeds /\ DOMAIN r.wanted \subseteq GraphNeeds[t]
    <2>1. NeedsOf(t, r) = NeedsOf(t, task[t])
        BY <1>1 DEF NeedsOf
    <2>2. DOMAIN r.wanted \subseteq NeedsOf(t, r)
        BY <1>1, <1>4 DEF SlotsOK, Matches, NeedsOf
    <2>3. QED
        BY <1>2, <1>3, <2>1, <2>2
<1>7. GraphArgs' = GraphArgs
    <2>1. ArgsOf(t, r) = << >> /\ ArgsOf(t, task[t]) = << >>
        BY <1>1 DEF ArgsOf
    <2>2. QED
        BY <1>2, <1>3, <2>1
<1>8. Put' = Put
    <2>1. \A e \in EventIds : event'[e].payloads = event[e].payloads
        BY <1>1, NotedGrows DEF Same
    <2>2. QED
        BY <2>1, PutStays
<1>9. Graph!Connect(t, GraphInputs'[t])
    <2>1. GraphInputs'[t] = r.wanted /\ GraphInputs[t] = task[t].wanted
        BY <1>2 DEF GraphInputs
    <2>2. \A p \in DOMAIN task[t].wanted : p \in DOMAIN r.wanted /\ r.wanted[p] = task[t].wanted[p]
        BY <1>1 DEF Over
    <2>3. \A p \in DOMAIN GraphInputs[t] :
            p \in DOMAIN GraphInputs'[t] /\ GraphInputs'[t][p] = GraphInputs[t][p]
        BY <2>1, <2>2
    <2>4. DOMAIN (GraphInputs'[t]) \subseteq GraphNeeds[t]
        BY <1>6, <2>1
    <2>5. GraphInputs' = [GraphInputs EXCEPT ![t] = GraphInputs'[t]]
        BY <1>2, <2>1
    <2>6. QED
        BY <1>5, <1>6, <1>7, <1>8, <2>3, <2>4, <2>5
        DEF Graph!Connect, GraphPhase, GraphNeeds, GraphInputs, GraphArgs
<1>10. QED
    BY <1>9 DEF Graph!Next, GraphInputs

\* A task that is destroyed is cancelled.
LEMMA DroppingCancels ==
    ASSUME Core, Core', NEW t \in Tasks, Dropping(t)
    PROVE  Graph!Next
<1> DEFINE r == [task[t] EXCEPT !.phase = "destroyed"]
<1>1. PICK q : q = r
    OBVIOUS
<1>2. task[t].phase = "created" /\ UNCHANGED event /\ task' = [task EXCEPT ![t] = q]
    BY <1>1 DEF Dropping
<1>3. t # Main /\ task[t] \in TaskRecord
    BY <1>2, CreatedTaskFacts
<1>4. q.phase = "destroyed" /\ q.fn = task[t].fn /\ q.count = task[t].count /\ q.wanted = task[t].wanted
    BY <1>1, <1>3 DEF TaskRecord
<1>5. /\ GraphPhase' = [GraphPhase EXCEPT ![t] = q.phase]
      /\ GraphNeeds' = [GraphNeeds EXCEPT ![t] = NeedsOf(t, q)]
      /\ GraphInputs' = [GraphInputs EXCEPT ![t] = q.wanted]
      /\ GraphArgs' = [GraphArgs EXCEPT ![t] = ArgsOf(t, q)]
    BY <1>2, GraphStep
<1>6. /\ GraphPhase = [u \in Tasks |-> task[u].phase]
      /\ GraphNeeds = [u \in Tasks |-> NeedsOf(u, task[u])]
      /\ GraphArgs = [u \in Tasks |-> ArgsOf(u, task[u])]
    BY GraphRecords
<1>7. NeedsOf(t, q) = NeedsOf(t, task[t]) /\ ArgsOf(t, q) = << >> /\ ArgsOf(t, task[t]) = << >>
    BY <1>2, <1>4 DEF NeedsOf, ArgsOf
<1>8. GraphNeeds' = GraphNeeds /\ GraphArgs' = GraphArgs
    BY <1>5, <1>6, <1>7
<1>9. GraphInputs' = GraphInputs /\ GraphInputs[t] = task[t].wanted
    BY <1>4, <1>5 DEF GraphInputs
<1>10. Put' = Put
    BY <1>2, PutStays
<1>11. DOMAIN GraphInputs[t] # GraphNeeds[t]
    BY <1>2, <1>3, <1>6, <1>9 DEF Dropping, Filled, NeedsOf
<1>12. GraphPhase[t] = "created" /\ GraphPhase' = [GraphPhase EXCEPT ![t] = "destroyed"]
    BY <1>2, <1>4, <1>5, <1>6
<1>13. Graph!Cancel(t)
    BY <1>8, <1>9, <1>10, <1>11, <1>12
    DEF Graph!Cancel, GraphPhase, GraphNeeds, GraphInputs, GraphArgs
<1>14. QED
    BY <1>13 DEF Graph!Next

\* A task that starts has all inputs, and its arguments are what they hold.
LEMMA StartingRuns ==
    ASSUME Core, Core', NEW t \in Tasks, NEW r, Starting(t, r)
    PROVE  Graph!Next
<1>1. /\ task[t].phase = "created" /\ t # Main /\ r \in TaskRecord /\ r.phase = "running"
      /\ r.fn = task[t].fn /\ r.count = task[t].count /\ r.wanted = task[t].wanted /\ RunOK(r)
      /\ task' = [task EXCEPT ![t] = r] /\ UNCHANGED event
    BY DEF Starting
<1>2. /\ GraphPhase' = [GraphPhase EXCEPT ![t] = r.phase]
      /\ GraphNeeds' = [GraphNeeds EXCEPT ![t] = NeedsOf(t, r)]
      /\ GraphInputs' = [GraphInputs EXCEPT ![t] = r.wanted]
      /\ GraphArgs' = [GraphArgs EXCEPT ![t] = ArgsOf(t, r)]
    BY <1>1, GraphStep
<1>3. /\ GraphPhase = [u \in Tasks |-> task[u].phase]
      /\ GraphNeeds = [u \in Tasks |-> NeedsOf(u, task[u])]
      /\ GraphArgs = [u \in Tasks |-> ArgsOf(u, task[u])]
    BY GraphRecords
<1>4. NeedsOf(t, r) = NeedsOf(t, task[t]) /\ NeedsOf(t, r) = DOMAIN r.wanted
    BY <1>1 DEF NeedsOf, RunOK
<1>5. GraphNeeds' = GraphNeeds /\ GraphNeeds[t] = DOMAIN r.wanted
    BY <1>2, <1>3, <1>4
<1>6. GraphInputs' = GraphInputs /\ GraphInputs[t] = r.wanted
    BY <1>1, <1>2 DEF GraphInputs
<1>7. GraphPhase[t] = "created" /\ GraphPhase' = [GraphPhase EXCEPT ![t] = "running"]
    BY <1>1, <1>2, <1>3
<1>8. Put' = Put
    BY <1>1, PutStays
<1>9. ASSUME NEW p \in DOMAIN r.wanted
      PROVE  /\ r.wanted[p] \in Handles \/ r.wanted[p] \in DOMAIN Put
             /\ ArgumentOf(r, p) = IF r.wanted[p] \in Handles THEN r.wanted[p] ELSE Put[r.wanted[p]]
    <2>1. PICK x : x = r.wanted[p]
        OBVIOUS
    <2>2. x \in Handles \cup Claims /\ Ready(x) /\ ArgumentOf(r, p) = Payload(x)
        BY <1>1, <2>1, TaskFields DEF RunOK
    <2>3. CASE x \in Handles
        BY <2>1, <2>2, <2>3, DistinctGuids DEF Payload
    <2>4. CASE x \in Claims
        <3>1. x \in Held /\ x \notin Handles /\ IsClaim(x)
            BY <2>2, <2>4, PutFacts, DistinctGuids
        <3>2. Put[x] = Payload(x) /\ x \in DOMAIN Put
            BY <3>1, PutFacts DEF Payload
        <3>3. QED
            BY <2>1, <2>2, <3>1, <3>2
    <2>5. QED
        BY <2>2, <2>3, <2>4
<1>10. ArgsOf(t, r) = [p \in DOMAIN r.wanted |->
                          IF r.wanted[p] \in Handles THEN r.wanted[p] ELSE Put[r.wanted[p]]]
    BY <1>1, <1>9 DEF ArgsOf
<1>11. ArgsOf(t, r) = [p \in GraphNeeds[t] |-> Graph!Datum(GraphInputs[t][p])]
    BY <1>5, <1>6, <1>10 DEF Graph!Datum
<1>12. \A p \in GraphNeeds[t] : Graph!Available(GraphInputs[t][p])
    BY <1>5, <1>6, <1>9 DEF Graph!Available
<1>13. GraphArgs' = [GraphArgs EXCEPT ![t] = [p \in GraphNeeds[t] |-> Graph!Datum(GraphInputs[t][p])]]
    BY <1>2, <1>11
<1>14. DOMAIN GraphInputs[t] = GraphNeeds[t]
    BY <1>5, <1>6
<1>15. Graph!Run(t)
    BY <1>5, <1>6, <1>7, <1>8, <1>12, <1>13, <1>14
    DEF Graph!Run, GraphPhase, GraphNeeds, GraphInputs, GraphArgs
<1>16. QED
    BY <1>15 DEF Graph!Next

\* A task that ends puts its result into its output.
LEMMA EndingEnds ==
    ASSUME Core, Core', NEW t \in Tasks, NEW r, Ending(t, r)
    PROVE  Graph!Next
<1>1. PICK h \in Handles :
        /\ r = [task[t] EXCEPT !.phase = "ended", !.result = h]
        /\ task[t].out # NoEvent => event'[task[t].out].payloads = << h >>
    BY DEF Ending
<1>2. PICK out : out = task[t].out
    OBVIOUS
<1>3. /\ task[t].phase = "running" /\ task' = [task EXCEPT ![t] = r]
      /\ \A e \in EventIds : e # out => event'[e] = event[e]
    BY <1>2 DEF Ending
<1>4. task[t] \in TaskRecord /\ OutOK(t)
    BY DEF Core, TypeInv
<1>5. /\ r.phase = "ended" /\ r.fn = task[t].fn /\ r.count = task[t].count
      /\ r.wanted = task[t].wanted /\ r.list = task[t].list /\ r.deps = task[t].deps
    BY <1>1, <1>4 DEF TaskRecord
<1>6. /\ GraphPhase' = [GraphPhase EXCEPT ![t] = r.phase]
      /\ GraphNeeds' = [GraphNeeds EXCEPT ![t] = NeedsOf(t, r)]
      /\ GraphInputs' = [GraphInputs EXCEPT ![t] = r.wanted]
      /\ GraphArgs' = [GraphArgs EXCEPT ![t] = ArgsOf(t, r)]
    BY <1>3, GraphStep
<1>7. /\ GraphPhase = [u \in Tasks |-> task[u].phase]
      /\ GraphNeeds = [u \in Tasks |-> NeedsOf(u, task[u])]
      /\ GraphArgs = [u \in Tasks |-> ArgsOf(u, task[u])]
    BY GraphRecords
<1>8. NeedsOf(t, r) = NeedsOf(t, task[t])
    BY <1>3, <1>5 DEF NeedsOf
<1>9. ArgsOf(t, r) = ArgsOf(t, task[t])
    <2>1. \A p : ArgumentOf(r, p) = ArgumentOf(task[t], p)
        BY <1>5 DEF ArgumentOf
    <2>2. QED
        BY <1>3, <1>5, <2>1 DEF ArgsOf
<1>10. GraphNeeds' = GraphNeeds /\ GraphArgs' = GraphArgs
    BY <1>6, <1>7, <1>8, <1>9
<1>11. GraphInputs' = GraphInputs
    BY <1>5, <1>6 DEF GraphInputs
<1>12. GraphPhase[t] = "running" /\ GraphPhase' = [GraphPhase EXCEPT ![t] = "ended"]
    BY <1>3, <1>5, <1>6, <1>7
<1>13. \/ Put' = Put
       \/ \E p \in GraphPlaces, d \in Handles :
             /\ p \notin DOMAIN Put
             /\ Put' = [q \in DOMAIN Put \cup {p} |-> IF q = p THEN d ELSE Put[q]]
    <2>1. CASE out = NoEvent
        <3>1. \A e \in EventIds : event'[e].payloads = event[e].payloads
            BY <1>3, <2>1, TaskGraphAssumption
        <3>2. QED
            BY <3>1, PutStays
    <2>2. CASE out # NoEvent
        <3>1. out \in EventIds /\ event[out].payloads = << >> /\ event'[out].payloads = << h >>
            BY <1>1, <1>2, <1>3, <1>4, <2>2 DEF OutOK
        <3>2. /\ event'[out].payloads = Append(event[out].payloads, h)
              /\ Len(event[out].payloads) <= MaxPayloads
            BY <3>1, TaskGraphAssumption
        <3>3. \A d \in EventIds \ {out} : event'[d].payloads = event[d].payloads
            BY <1>3
        <3>4. \E p \in GraphPlaces :
                 /\ p \notin DOMAIN Put
                 /\ Put' = [q \in DOMAIN Put \cup {p} |-> IF q = p THEN h ELSE Put[q]]
            BY <3>1, <3>2, <3>3, PutOne
        <3>5. QED
            BY <3>4
    <2>3. QED
        BY <2>1, <2>2
<1>14. Graph!End(t)
    BY <1>10, <1>11, <1>12, <1>13
    DEF Graph!End, Graph!Put, GraphPhase, GraphNeeds, GraphInputs, GraphArgs, GraphPlaces
<1>15. QED
    BY <1>14 DEF Graph!Next

\* Tasks do not change, so only what has been put may.
LEMMA TasksStay ==
    ASSUME Core, Core', UNCHANGED task
    PROVE  UNCHANGED << GraphPhase, GraphNeeds, GraphInputs, GraphArgs >>
<1>1. GraphPhase' = GraphPhase /\ GraphNeeds' = GraphNeeds /\ GraphInputs' = GraphInputs
    BY DEF GraphPhase, GraphNeeds, GraphInputs, Positions
<1>2. GraphArgs' = GraphArgs
    BY DEF GraphArgs, Started, Argument
<1>3. QED
    BY <1>1, <1>2

\* A call about an event puts at most one value, that nothing has been put for.
LEMMA CallingPuts ==
    ASSUME Core, Core', NEW e \in EventIds, Calling(e)
    PROVE  Graph!Next \/ UNCHANGED Graph!vars
<1>1. UNCHANGED << GraphPhase, GraphNeeds, GraphInputs, GraphArgs >>
    BY TasksStay DEF Calling
<1>2. \A d \in EventIds \ {e} : event'[d].payloads = event[d].payloads
    BY NotedGrows DEF Calling, Same
<1>3. CASE event'[e].payloads = event[e].payloads
    <2>1. Put' = Put
        BY <1>2, <1>3, PutStays
    <2>2. QED
        BY <1>1, <2>1 DEF Graph!vars, GraphPhase, GraphNeeds, GraphInputs, GraphArgs
<1>4. CASE event'[e].payloads # event[e].payloads
    <2>1. Gaining(event[e], event'[e])
        <3>1. CASE Renewing(e, event'[e])
            <4>1. PICK type \in Types, data \in DataTypes, count \in Nat :
                    event'[e] = Created(event[e], type, data, count)
                BY <3>1 DEF Renewing
            <4>2. QED
                BY <1>4, <4>1, EventCoreFacts, CreatedFacts
        <3>2. CASE Destroying(e, event'[e])
            <4>1. PICK new : new = event'[e]
                OBVIOUS
            <4>2. new.payloads = event[e].payloads
                BY <3>2, <4>1, EventCoreFacts DEF Destroying, EventRecord
            <4>3. QED
                BY <1>4, <4>1, <4>2
        <3>3. QED
            BY <3>1, <3>2 DEF Calling
    <2>2. PICK h \in HandlesOf(event[e].data) : event'[e].payloads = Append(event[e].payloads, h)
        BY <1>4, <2>1 DEF Gaining, AddsOne
    <2>3. h \in Handles /\ Len(event[e].payloads) <= MaxPayloads
        BY <1>4, <2>1, <2>2, HandleFacts DEF Gaining
    <2>4. \E p \in GraphPlaces :
             /\ p \notin DOMAIN Put
             /\ Put' = [q \in DOMAIN Put \cup {p} |-> IF q = p THEN h ELSE Put[q]]
        BY <1>2, <2>2, <2>3, PutOne
    <2>5. \E p \in GraphPlaces, d \in Handles : Graph!Put(p, d)
        BY <2>3, <2>4 DEF Graph!Put
    <2>6. QED
        BY <1>1, <2>5
        DEF Graph!Next, GraphPhase, GraphNeeds, GraphInputs, GraphArgs, GraphPlaces
<1>5. QED
    BY <1>3, <1>4

\* Failed assertions and stuttering leave the graph alone.
LEMMA NothingChanges ==
    ASSUME Core, Core', UNCHANGED << task, event >>
    PROVE  UNCHANGED Graph!vars
<1>1. UNCHANGED << GraphPhase, GraphNeeds, GraphInputs, GraphArgs >>
    BY TasksStay
<1>2. Put' = Put
    BY PutStays
<1>3. QED
    BY <1>1, <1>2 DEF Graph!vars, GraphPhase, GraphNeeds, GraphInputs, GraphArgs

\* The refinement maps initial states to initial states,
LEMMA InitMaps ==
    ASSUME Init
    PROVE  Graph!Init
<1>1. Core
    BY InitCore
<1>2. /\ task = [t \in Tasks |-> IF t = Main THEN [NoTask EXCEPT !.phase = "running"] ELSE NoTask]
      /\ event = [e \in EventIds |-> Absent]
    BY DEF Init
<1>3. /\ GraphPhase = [u \in Tasks |-> task[u].phase]
      /\ GraphNeeds = [u \in Tasks |-> NeedsOf(u, task[u])]
      /\ GraphArgs = [u \in Tasks |-> ArgsOf(u, task[u])]
    BY <1>1, GraphRecords
<1>4. \A t \in Tasks : /\ task[t].phase = IF t = Main THEN "running" ELSE "absent"
                       /\ task[t].wanted = << >>
    BY <1>2 DEF NoTask
<1>5. GraphPhase = [t \in Tasks |-> IF t = Main THEN "running" ELSE "absent"]
    BY <1>3, <1>4
<1>6. \A t \in Tasks : NeedsOf(t, task[t]) = {} /\ ArgsOf(t, task[t]) = << >>
    BY <1>4 DEF NeedsOf, ArgsOf
<1>7. GraphNeeds = [t \in Tasks |-> {}] /\ GraphArgs = [t \in Tasks |-> << >>]
    BY <1>3, <1>6
<1>8. GraphInputs = [t \in Tasks |-> << >>]
    BY <1>4 DEF GraphInputs
<1>9. Put = << >>
    <2>1. \A e \in EventIds : event[e].payloads = << >>
        BY <1>2 DEF Absent
    <2>2. Held \subseteq Claims /\ \A d \in EventIds : \A j : << d, j >> \in Held <=> j \in 1 .. Len(event[d].payloads)
        BY <1>1, PutFacts
    <2>3. Held = {}
        BY <2>1, <2>2 DEF Claims
    <2>4. Put = [x \in {} |-> event[x[1]].payloads[x[2]]]
        BY <1>1, <2>3, PutFacts
    <2>5. QED
        BY <2>4
<1>10. QED
    BY <1>5, <1>7, <1>8, <1>9 DEF Graph!Init, GraphPhase, GraphNeeds, GraphInputs, GraphArgs

\* and steps to steps or to nothing.
LEMMA NextMaps ==
    ASSUME Core, Core', [Next]_vars
    PROVE  Graph!Next \/ UNCHANGED Graph!vars
<1>1. Effect
    BY StepFacts
<1>2. CASE \E t \in Tasks : \E r : Making(t, r)
    BY <1>2, MakingCreates
<1>3. CASE \E t \in Tasks : \E given, r : Filling(t, given, r)
    BY <1>3, FillingConnects
<1>4. CASE \E t \in Tasks : Dropping(t)
    BY <1>4, DroppingCancels
<1>5. CASE \E t \in Tasks : \E r : Starting(t, r)
    BY <1>5, StartingRuns
<1>6. CASE \E t \in Tasks : \E r : Ending(t, r)
    BY <1>6, EndingEnds
<1>7. CASE \E e \in EventIds : Calling(e)
    BY <1>7, CallingPuts
<1>8. CASE \E assertion \in {"finish", "incomplete", "dependence", "self", "exists"} : Failing(assertion)
    BY <1>8, NothingChanges DEF Failing
<1>9. CASE UNCHANGED vars
    BY <1>9, NothingChanges DEF vars
<1>10. QED
    BY <1>1, <1>2, <1>3, <1>4, <1>5, <1>6, <1>7, <1>8, <1>9 DEF Effect

\* What tasks do with slots, events and lists is a dataflow graph: a task runs once,
\* when all its inputs are connected and hold something, on exactly what they hold,
\* and what an input holds does not change.  So what a task computes does not depend
\* on the order in which TaskBuilder, DependOn and the events have been called.
THEOREM ImplementsDataflow == Spec => DataflowSpec
<1>1. Init => Graph!Init
    BY InitMaps
<1>2. Core /\ Core' /\ [Next]_vars => [Graph!Next]_(Graph!vars)
    BY NextMaps
<1>3. QED
    BY <1>1, <1>2, CoreInvariant, PTL DEF Spec, DataflowSpec, Graph!Spec

=============================================================================
