------------------------------ MODULE TaskGraph ------------------------------
(***************************************************************************)
(* Tasks, their dependence slots and the events between them: TaskBuilder, *)
(* Task, DelayedFuture, Event, DatablockList and TaskImplementation of     *)
(* ocxxr-core.hpp, under a program whose running tasks call them in any    *)
(* order.                                                                  *)
(*                                                                         *)
(* Sig[f] is the signature of a task function, its parameters and what it  *)
(* returns.  A POSITION is a parameter that is a datablock or an element   *)
(* of the list, << "dep", i >> or << "list", i >>: this is what a program  *)
(* gives sources to.  The library maps positions to the numbered slots of  *)
(* an OCR task when it attaches a source, and slots to arguments when the  *)
(* task starts.  A source is a handle or a claim << e, k >> on the k-th    *)
(* payload of event e.                                                     *)
(*                                                                         *)
(* A payload does not change once an event has been triggered, so its      *)
(* delivery to a task is no step of its own: a task may start any time     *)
(* after all its slots are ready.                                          *)
(*                                                                         *)
(* The program is assumed to use an event as its type allows, to give a    *)
(* position one source, to depend on the event of a future before it has   *)
(* given the future's task its last source, and to wait for a channel at   *)
(* most once in one call.                                                  *)
(***************************************************************************)
EXTENDS Integers, Sequences, FiniteSets, Functions, Signatures

CONSTANTS
    Tasks,          \* task instances
    Main,           \* the one that runs at the start
    EventIds,       \* events
    Labels,         \* those of them that are in a HandleRange
    LabelFlags,     \* the flags the program creates these with
    NoEvent,        \* in place of an output event: nullptr
    Blocks,         \* guids of datablocks
    BlockType,      \* the T of their Datablock<T>
    DataTypes,      \* the T of the events the program creates
    Void,           \* the T of control-only events
    NullGuid,       \* NULL_GUID
    Hole,           \* UNINITIALIZED_GUID
    Lost,           \* a slot that got an event that had been destroyed
    Fns,            \* task functions
    Sig,            \* their signatures
    Forwarding,     \* the functions that pass the list they get on
    EventTypes,     \* the types of the events the program creates
    EventCounts,    \* the counts it creates them with
    FlagSets,       \* whether it asks for finish tasks
    EagerFutures,   \* whether it depends on futures that miss no source when made
    MaxList,        \* bound on the lists it makes
    MaxUps,         \* bounds on the calls of Up and of Down (or Satisfy) on
    MaxDowns,       \* one latch or channel
    MaxPayloads     \* bound on the payloads of all events with one label

INSTANCE Events

ASSUME TaskGraphAssumption ==
    /\ Main \in Tasks
    /\ NoEvent \notin EventIds
    /\ Labels \subseteq EventIds
    /\ BlockType \in [Blocks -> DataTypes]
    /\ Void \notin DataTypes
    /\ \A f \in Fns : Legal(Sig[f].params) /\ Sig[f].returns \in DataTypes \cup {Void}
    /\ Forwarding \subseteq { f \in Fns : HasVarArgs(Sig[f].params) }
    /\ EventTypes \subseteq Types
    /\ EventCounts \subseteq Nat
    /\ FlagSets \subseteq BOOLEAN
    /\ EagerFutures \in BOOLEAN
    /\ MaxList \in Nat
    /\ MaxUps \in Nat
    /\ MaxDowns \in Nat
    /\ MaxPayloads \in Nat

\* Guids of blocks, the three that are none and claims are told apart.
ASSUME GuidAssumption ==
    /\ Hole # Lost
    /\ NullGuid \notin {Hole, Lost}
    /\ \A b \in Blocks : b \notin {NullGuid, Hole, Lost}
    /\ \A x \in Blocks \cup {NullGuid, Hole, Lost} : x \notin (EventIds \cup {NoEvent}) \X Nat

VARIABLES
    task,       \* task[t]
    event,      \* event[e]
    failure     \* the assertion that has ended the program

vars == << task, event, failure >>

Handles == Blocks \cup {NullGuid}

IsClaim(x) == x \notin Handles \cup {Hole, Lost}

Claim(e) == << e, Turn(event[e]) >>

EmptyList == [items |-> << >>, capacity |-> 0]

\* phase; fn; out, its output event; slots, by number, each with its source or a
\* hole; count, the length of the list it is to get; wanted, by position, the
\* sources the program has given (history); deps and list, the arguments of its
\* function; result, what the function returned.
NoTask ==
    [phase |-> "absent", fn |-> Main, out |-> NoEvent, slots |-> << >>,
     count |-> 0, wanted |-> << >>, deps |-> << >>, list |-> EmptyList,
     result |-> NullGuid]

NoFailure == [assertion |-> "none", out |-> NoEvent, list |-> EmptyList]

Running == { t \in Tasks : task[t].phase = "running" }

Indices(n) == 0 .. n - 1

ListType(f) == VarArgsType(Sig[f].params)

Depc(f) == DepCount(Sig[f].params)

VarArgs(f) == HasVarArgs(Sig[f].params)

Positions(f, n) == ({"dep"} \X Indices(Depc(f))) \cup ({"list"} \X Indices(n))

\* The functions f and, where f says nothing, g.
Over(f, g) == [x \in DOMAIN f \cup DOMAIN g |-> IF x \in DOMAIN f THEN f[x] ELSE g[x]]

Filled(t) == DOMAIN task[t].wanted = Positions(task[t].fn, task[t].count)

\* A program may run while a task of it does.
MayCall == failure = NoFailure /\ Running # {}

Fail(assertion, out, list) ==
    /\ failure' = [assertion |-> assertion, out |-> out, list |-> list]
    /\ UNCHANGED << task, event >>

-----------------------------------------------------------------------------
(* What a program may use                                                  *)

MayDependOn(e) ==
    LET producers == { t \in Tasks : task[t].out = e }
    IN  IF producers # {}
        THEN \A t \in producers :
                \/ ~ Filled(t)
                \/ EagerFutures /\ Positions(task[t].fn, task[t].count) = {}
        ELSE MayAwait(event[e])

\* Handles of T and claims on payloads of T: what the compiler takes for a source
\* of a Datablock<T>.
HandlesOf(T) == { b \in Blocks : BlockType[b] = T } \cup {NullGuid}

SourcesOf(T) ==
    HandlesOf(T) \cup { Claim(e) : e \in { d \in EventIds : event[d].data = T /\ MayDependOn(d) } }

Sources == Handles \cup { Claim(e) : e \in EventIds }

\* x is the claim of one slot only.
Counts(x) == IsClaim(x) /\ event[x[1]].type \in {"counted", "channel"}

\* The lists of the tasks that pass theirs on.
ReceivedLists(f) ==
    { task[t].list : t \in { u \in Running : task[u].fn \in Forwarding
                                              /\ ListType(task[u].fn) = ListType(f) } }

\* Lists for f: those the program makes and fills, and those it passes on.
Lists(f) ==
    ReceivedLists(f)
      \cup UNION { [items : [1 .. n -> HandlesOf(ListType(f)) \ {NullGuid}], capacity : {n}]
                     : n \in 0 .. MaxList }

-----------------------------------------------------------------------------
(* DatablockList                                                           *)

\* DatablockList::operator[]: beyond count() there are null datablocks.
Element(list, j) == IF j < Len(list.items) THEN list.items[j + 1] ELSE NullGuid

\* Mutant of ReceivedList: all arguments go into it.
ReceivedListFromStart(depc, args) == [items |-> args, capacity |-> Len(args)]

\* The list of the arguments in the slots from depc on, UnpackVarArgs: there is
\* room in it for all arguments.
ReceivedList(depc, args) ==
    [items |-> SubSeq(args, depc + 1, Len(args)), capacity |-> Len(args)]

-----------------------------------------------------------------------------
(* Task                                                                    *)

Gone(x) == IsClaim(x) /\ ~ Live(event[x[1]])

\* ocrAddDependence for the slots with numbers in DOMAIN adds, and the OK() around
\* it: the slot is there and has no source yet, and an event still exists.
AttachFails(slots, adds) ==
    \E s \in DOMAIN adds :
        \/ s \notin DOMAIN slots
        \/ slots[s] # Hole
        \/ Gone(adds[s])

WithDependents(events, adds) ==
    [e \in EventIds |->
        [events[e] EXCEPT !.dependents =
            @ + Cardinality({ s \in DOMAIN adds : Counts(adds[s]) /\ adds[s][1] = e })]]

\* The calls of ocrAddDependence that attach adds to t, where wanted is what the
\* program has asked for.
Attach(t, adds, wanted) ==
    IF AttachFails(task[t].slots, adds)
    THEN Fail("dependence", task[t].out, EmptyList)
    ELSE /\ task' = [task EXCEPT
                        ![t].slots = Over(adds, @),
                        ![t].wanted = Over(wanted, @)]
         /\ event' = WithDependents(event, adds)
         /\ UNCHANGED failure

\* The slots of Task::DependOn<i> and of Task::DependOnWithinList(i, ...).
SlotOfDep(f, i) == i

\* Mutant of SlotWithinList: the index in the list is taken for the slot.
SlotWithinWholeTask(f, i) == i

SlotWithinList(f, i) == Depc(f) + i

\* Mutant of ListAdds: not for the last place.
ListAddsButLast(f, list) ==
    [s \in Depc(f) .. Depc(f) + list.capacity - 2 |-> Element(list, s - Depc(f))]

\* Task::DependOnList: one dependence for each place of the list.
ListAdds(f, list) ==
    [s \in Depc(f) .. Depc(f) + list.capacity - 1 |-> Element(list, s - Depc(f))]

\* Task::Init: ocrEdtCreate with depc slots and the sources depv.  A hole in depv
\* attaches nothing.  With an output event comes a new once event.  Nobody looks
\* at the status: if depc is not what the template says, there is no task, and
\* its guid is whatever was on the stack.
CreateEdt(t, f, count, out, depc, depv, wanted) ==
    LET events == IF out = NoEvent THEN event
                  ELSE [event EXCEPT ![out] = Created(Absent, "once", Sig[f].returns, 0)]
        known  == Restrict(depv, { s \in DOMAIN depv : depv[s] # Hole })
        filled == [s \in DOMAIN known |-> IF Gone(known[s]) THEN Lost ELSE known[s]]
        holes  == [s \in Indices(depc) |-> Hole]
    IN  /\ task' = [task EXCEPT ![t] =
                      [NoTask EXCEPT !.phase = IF depc \in TemplateDepc(Sig[f].params, {depc})
                                               THEN "created" ELSE "garbage",
                                     !.fn = f, !.out = out, !.count = count,
                                     !.slots = Over(filled, holes), !.wanted = wanted]]
        /\ event' = WithDependents(events, known)
        /\ UNCHANGED failure

-----------------------------------------------------------------------------
(* TaskBuilder                                                             *)

\* An unused task and, for a future, an event that does not exist yet.
MayCreate(t, out) ==
    /\ MayCall
    /\ task[t].phase = "absent"
    /\ out # NoEvent => out \notin Labels /\ event[out].type = "absent"

\* The assertion on finish tasks of CreateFullTask and CreateNullTask.
FinishFails(out, finish) == ~ (out = NoEvent \/ ~ finish)

\* Mutant of Depv: the NULL_GUID at the end of the array is a dependence.
DepvWithTerminator(f, deps, list) ==
    [s \in Indices(Depc(f) + list.capacity + 1) |->
        IF s < Depc(f) THEN deps[s] ELSE Element(list, s - Depc(f))]

\* depv of CreateFullTask: the sources deps of the parameters, then the list.
Depv(f, deps, list) ==
    [s \in Indices(Depc(f) + list.capacity) |->
        IF s < Depc(f) THEN deps[s] ELSE Element(list, s - Depc(f))]

\* What the compiler takes for the first n parameters of CreateTask.
Given(f, n) ==
    { deps \in [Indices(n) -> Sources \cup {Hole}] :
        /\ \A i \in Indices(n) : deps[i] \in SourcesOf(DepsFn(Sig[f].params)[i + 1].type) \cup {Hole}
        /\ \A i, j \in Indices(n) : i # j /\ deps[i] = deps[j] => ~ Counts(deps[i]) }

WantedDeps(deps) ==
    [p \in { q \in {"dep"} \X DOMAIN deps : deps[q[2]] # Hole } |-> deps[p[2]]]

WantedList(list) ==
    [p \in {"list"} \X Indices(Len(list.items)) |-> list.items[p[2] + 1]]

CreateFullTask(t, f, out, finish, deps, list, wanted) ==
    IF FinishFails(out, finish)
    THEN Fail("finish", out, EmptyList)
    ELSE IF Len(list.items) # list.capacity
    THEN Fail("incomplete", out, list)
    ELSE LET depv == Depv(f, deps, list)
         IN  CreateEdt(t, f, list.capacity, out, Cardinality(DOMAIN depv), depv, wanted)

\* What DefaultDependence stands for, and before it a mutant.
DefaultDependenceNull == NullGuid

DefaultDependence == Hole

\* TaskBuilder::CreateTask: a source or an UnknownDependence for every parameter.
CreateTask(t, f, finish) ==
    /\ MayCreate(t, NoEvent)
    /\ \E deps \in Given(f, Depc(f)), list \in IF VarArgs(f) THEN Lists(f) ELSE {EmptyList} :
          CreateFullTask(t, f, NoEvent, finish, deps, list,
                         Over(WantedDeps(deps), WantedList(list)))

\* PadTask and PadFuture: a DefaultDependence for each parameter behind the first n.
Padding(f, n) == [i \in n .. n + MissingDeps(Sig[f].params, n) - 1 |-> DefaultDependence]

\* CreateTaskPartial and CreateFuturePartial with sources for the first n of the
\* parameters.
CreatePartial(t, f, out, finish) ==
    /\ MayCreate(t, out)
    /\ ~ VarArgs(f)
    /\ \E n \in 1 .. Depc(f) - 1 : \E given \in Given(f, n) :
          CreateFullTask(t, f, out, finish, Over(given, Padding(f, n)), EmptyList,
                         WantedDeps(given))

\* Mutant of NullDepc: the slots of the list only.
NullDepcOfList(f, count) == count

NullDepc(f, count) == Depc(f) + count

\* The same without any: CreateNullTask, with room for count elements of the list.
CreateNullTask(t, f, out, finish, count) ==
    /\ MayCreate(t, out)
    /\ count > 0 => VarArgs(f)
    /\ IF FinishFails(out, finish)
       THEN Fail("finish", out, EmptyList)
       ELSE CreateEdt(t, f, count, out, NullDepc(f, count), << >>, << >>)

-----------------------------------------------------------------------------
(* Dependences of a task                                                   *)

\* The program gives sources to positions of t that have none.
MayFill(t, positions) ==
    /\ MayCall
    /\ task[t].phase = "created"
    /\ positions # {}
    /\ positions \subseteq Positions(task[t].fn, task[t].count) \ DOMAIN task[t].wanted

\* What the parameter of DependOn<i> has to be.
Expected(t, i) == ExpectedType(Sig[task[t].fn].params, i)

DependOn(t, i, x) ==
    LET p == << "dep", i >>
    IN  /\ MayFill(t, {p})
        /\ x \in SourcesOf(Expected(t, i))
        /\ Attach(t, [s \in {SlotOfDep(task[t].fn, i)} |-> x], [q \in {p} |-> x])

DependOnWithinList(t, i, x) ==
    LET p == << "list", i >>
    IN  /\ MayFill(t, {p})
        /\ x \in SourcesOf(ListType(task[t].fn))
        /\ Attach(t, [s \in {SlotWithinList(task[t].fn, i)} |-> x], [q \in {p} |-> x])

\* The parameters from start on, one DependOn for each; the ranges here are of
\* handles, without events.
DependOnRange(t, start, until, range) ==
    /\ MayFill(t, {"dep"} \X (start .. until - 1))
    /\ \A s \in start .. until - 1 : Expected(t, s) = Expected(t, start)
    /\ Range(range) \subseteq HandlesOf(Expected(t, start))
    /\ Attach(t,
              [s \in start .. until - 1 |-> range[s - start]],
              [p \in {"dep"} \X (start .. until - 1) |-> range[p[2] - start]])

\* With a list of as many elements as the task was made for.
DependOnList(t, list) ==
    /\ Len(list.items) = task[t].count
    /\ MayFill(t, {"list"} \X Indices(task[t].count))
    /\ Attach(t, ListAdds(task[t].fn, list), WantedList(list))

\* Task::Destroy, of a task that still misses a source and waits for no channel.
DestroyTask(t) ==
    /\ MayCall
    /\ task[t].phase = "created"
    /\ ~ Filled(t)
    /\ \A x \in Range(task[t].slots) : ~ Counts(x)
    /\ task' = [task EXCEPT ![t].phase = "destroyed"]
    /\ UNCHANGED << event, failure >>

-----------------------------------------------------------------------------
(* Event                                                                   *)

\* e is an event the program has created, not one of a future.
OwnEvent(e) ==
    /\ MayCall
    /\ Exists(event[e])
    /\ \A t \in Tasks : task[t].out # e

\* The program may trigger e, or count it down.
MayCount(e) ==
    /\ OwnEvent(e)
    /\ MayTrigger(event[e])
    /\ event[e].downs < MaxDowns
    /\ Len(event[e].payloads) < MaxPayloads

\* The parameters of the creators of the classes.
MayAsk(type, count) ==
    /\ type \in {"counted", "channel"} => count > 0
    /\ type \notin {"counted", "channel", "latch"} => count = 0

CreateEvent(e, type, data, count) ==
    /\ MayCall
    /\ e \notin Labels
    /\ event[e].type = "absent"
    /\ MayAsk(type, count)
    /\ event' = [event EXCEPT ![e] = Created(Absent, type, data, count)]
    /\ UNCHANGED << task, failure >>

\* Event::Init fails on what it asserts: a handle to use goes with kLabeled.
SelfFails(flags) == "labeled" \notin flags

\* The kinds of a HandleRange of events.
RangeTypes == {"once", "counted", "idempotent", "sticky", "latch"}

\* An event with the handle HandleRange::operator[] gives for a label.  With check
\* the runtime refuses a label that is in use, and OK() asserts it does not; with
\* block it waits until the event is gone; else the program sees to it.
CreateLabeled(e, type, data, count, flags) ==
    /\ MayCall
    /\ e \in Labels
    /\ type \in RangeTypes
    /\ MayAsk(type, count)
    /\ Len(event[e].payloads) < MaxPayloads
    /\ IF SelfFails(flags)
       THEN Fail("self", e, EmptyList)
       ELSE IF Live(event[e])
       THEN "check" \in flags /\ Fail("exists", e, EmptyList)
       ELSE /\ event' = [event EXCEPT ![e] = Created(@, type, data, count)]
            /\ UNCHANGED << task, failure >>

Satisfy(e, h) ==
    /\ MayCount(e)
    /\ h \in HandlesOf(event[e].data)
    /\ event' = [event EXCEPT ![e] = Satisfied(@, h)]
    /\ UNCHANGED << task, failure >>

CountUp(e) ==
    /\ OwnEvent(e)
    /\ event[e].type = "latch" /\ Live(event[e])
    /\ event[e].ups < MaxUps
    /\ event' = [event EXCEPT ![e] = Up(@)]
    /\ UNCHANGED << task, failure >>

CountDown(e) ==
    /\ MayCount(e)
    /\ event[e].type = "latch"
    /\ event' = [event EXCEPT ![e] = Down(@)]
    /\ UNCHANGED << task, failure >>

\* Event::DependOn: x is attached to slot 0 of e.  A handle triggers e at once.  In
\* each of its lives an event waits for at most one other event: a bound, as the code
\* lets a program attach several to a latch or a channel.
EventDependOn(e, x) ==
    /\ MayCount(e)
    /\ event[e].source = Hole
    /\ x \in SourcesOf(event[e].data)
    /\ IsClaim(x) => x[1] # e
    /\ IF Gone(x)
       THEN Fail("dependence", e, EmptyList)
       ELSE /\ event' = IF IsClaim(x)
                        THEN WithDependents([event EXCEPT ![e].source = x], [s \in {0} |-> x])
                        ELSE [event EXCEPT ![e] = Satisfied(@, x)]
            /\ UNCHANGED << task, failure >>

Ready(x) == x \in Handles \/ (IsClaim(x) /\ x[2] <= Len(event[x[1]].payloads))

Payload(x) == IF IsClaim(x) THEN event[x[1]].payloads[x[2]] ELSE x

\* What e depends on has been triggered: the runtime triggers e.
Propagate(e) ==
    LET x == event[e].source
    IN  /\ failure = NoFailure
        /\ IsClaim(x) /\ Ready(x)
        /\ event' = [event EXCEPT ![e] = [Satisfied(@, Payload(x)) EXCEPT !.source = NullGuid]]
        /\ UNCHANGED << task, failure >>

\* Event::Destroy, once nothing waits for it.
Destroy(e) ==
    /\ OwnEvent(e)
    /\ Live(event[e])
    /\ ~ IsClaim(event[e].source)
    /\ \A t \in Tasks : task[t].phase = "created" =>
          \A x \in Range(task[t].slots) : IsClaim(x) => x[1] # e
    /\ \A d \in EventIds : IsClaim(event[d].source) => event[d].source[1] # e
    /\ event' = [event EXCEPT ![e].type = "destroyed"]
    /\ UNCHANGED << task, failure >>

-----------------------------------------------------------------------------
(* A task runs                                                             *)

\* TaskImplementation::InternalFn: the assertions on depc, then the function with
\* its arguments.
Start(t) ==
    LET f    == task[t].fn
        depc == Cardinality(DOMAIN task[t].slots)
        args == [i \in 1 .. depc |-> Payload(task[t].slots[i - 1])]
    IN  /\ failure = NoFailure
        /\ task[t].phase = "created"
        /\ \A s \in DOMAIN task[t].slots : Ready(task[t].slots[s])
        /\ IF depc < Depc(f) \/ (~ VarArgs(f) /\ depc # Depc(f))
           THEN Fail("depc", NoEvent, EmptyList)
           ELSE /\ task' = [task EXCEPT
                              ![t].phase = "running",
                              ![t].deps = SubSeq(args, 1, Depc(f)),
                              ![t].list = IF VarArgs(f) THEN ReceivedList(Depc(f), args)
                                          ELSE EmptyList]
                /\ UNCHANGED << event, failure >>

\* Mutant of ReturnGuid: always as if it were void.
ReturnNothing(f, h) == NullGuid

\* Launch: the guid of what the function returns, NULL_GUID if it is void.
ReturnGuid(f, h) == IF Sig[f].returns = Void THEN NullGuid ELSE h

\* The function returns h, and the runtime triggers the output event.
Finish(t) ==
    /\ failure = NoFailure
    /\ task[t].phase = "running"
    /\ \E h \in IF t = Main THEN {NullGuid} ELSE HandlesOf(Sig[task[t].fn].returns) :
         LET out == task[t].out
         IN  /\ task' = [task EXCEPT ![t].phase = "ended", ![t].result = h]
             /\ event' = IF out = NoEvent THEN event
                         ELSE [event EXCEPT ![out] = Satisfied(@, ReturnGuid(task[t].fn, h))]
             /\ UNCHANGED failure

-----------------------------------------------------------------------------

Init ==
    /\ task = [t \in Tasks |-> IF t = Main THEN [NoTask EXCEPT !.phase = "running"] ELSE NoTask]
    /\ event = [e \in EventIds |-> Absent]
    /\ failure = NoFailure

Creates ==
    \E t \in Tasks, f \in Fns, finish \in FlagSets :
        \/ CreateTask(t, f, finish)
        \/ \E out \in EventIds \cup {NoEvent} :
              \/ CreatePartial(t, f, out, finish)
              \/ \E n \in 0 .. MaxList : CreateNullTask(t, f, out, finish, n)

Fills ==
    \E t \in { u \in Tasks : task[u].phase = "created" } :
        \/ \E x \in Sources :
              \/ \E i \in Indices(Depc(task[t].fn)) : DependOn(t, i, x)
              \/ \E i \in Indices(task[t].count) : DependOnWithinList(t, i, x)
        \/ \E start \in Indices(Depc(task[t].fn)) :
           \E until \in start + 1 .. Depc(task[t].fn) :
           \E range \in [Indices(until - start) -> Handles] :
              DependOnRange(t, start, until, range)
        \/ VarArgs(task[t].fn) /\ \E list \in Lists(task[t].fn) : DependOnList(t, list)
        \/ DestroyTask(t)

EventCalls ==
    \E e \in EventIds :
        \/ \E type \in EventTypes, data \in DataTypes, n \in EventCounts \cup {0} :
              \/ CreateEvent(e, type, data, n)
              \/ \E flags \in LabelFlags : CreateLabeled(e, type, data, n, flags)
        \/ \E h \in Handles : Satisfy(e, h)
        \/ CountUp(e)
        \/ CountDown(e)
        \/ \E x \in Sources : EventDependOn(e, x)
        \/ Propagate(e)
        \/ Destroy(e)

Next ==
    \/ Creates
    \/ Fills
    \/ EventCalls
    \/ \E t \in Tasks : Start(t) \/ Finish(t)

Spec == Init /\ [][Next]_vars

\* The runtime starts tasks that are ready and passes triggers on; task functions
\* return.
Fairness ==
    /\ \A t \in Tasks : WF_vars(Start(t)) /\ WF_vars(Finish(t))
    /\ \A e \in EventIds : WF_vars(Propagate(e))

FairSpec == Spec /\ Fairness

-----------------------------------------------------------------------------
(* Properties                                                              *)

Started == { t \in Tasks \ {Main} : task[t].phase \in {"running", "ended"} }

\* What the function of t has got at position p.
Argument(t, p) ==
    IF p[1] = "dep" THEN task[t].deps[p[2] + 1] ELSE task[t].list.items[p[2] + 1]

\* Every task has exactly the slots that its signature and its list call for, each
\* with a source that exists or a hole; out events belong to one task.
TypeOK ==
    /\ \A t \in Tasks \ {Main} :
         task[t].phase # "absent" =>
             /\ task[t].fn \in Fns
             /\ DOMAIN task[t].slots = Indices(Depc(task[t].fn) + task[t].count)
             /\ \A x \in Range(task[t].slots) : IsClaim(x) => x \in EventIds \X (Nat \ {0})
             /\ DOMAIN task[t].wanted \subseteq Positions(task[t].fn, task[t].count)
             /\ \A u \in Tasks \ {t} : task[t].out = task[u].out => task[t].out = NoEvent
    /\ \A e \in EventIds : event[e].type \in Types \cup {"absent", "destroyed"}

\* A task function gets at every parameter, and at every place of its list, what
\* the source given to this position stands for, and nothing more: the slot a
\* dependence goes to when it is attached (by CreateTask, DependOn, DependOnRange,
\* DependOnList or DependOnWithinList) is the one UnpackArgs and UnpackVarArgs take
\* the argument from.
ArgumentsInOrder ==
    \A t \in Started :
        /\ Len(task[t].list.items) = task[t].count
        /\ \A p \in DOMAIN task[t].wanted : Argument(t, p) = Payload(task[t].wanted[p])

\* A task function gets datablocks of the types of its parameters: what DependOn
\* checks the type of a source against, counted from the first dependence among all
\* parameters, belongs to the slot it fills, counted among the dependences.
ArgumentsWellTyped ==
    \A t \in Started :
        LET f == task[t].fn
        IN  /\ \A i \in Indices(Depc(f)) :
                  task[t].deps[i + 1] \in HandlesOf(DepsFn(Sig[f].params)[i + 1].type)
            /\ \A i \in DOMAIN task[t].list.items :
                  task[t].list.items[i] \in HandlesOf(ListType(f))

\* No task starts before the program has given it all its sources, however it was
\* created: padding and null dependence vectors leave holes.
NoEarlyStart == \A t \in Started : Filled(t)

\* The assertions of InternalFn on the number of dependences do not fire, whichever
\* way a task was created.
NoLaunchAssertion == failure.assertion # "depc"

\* Whatever a program attaches, as it may by the types of its events and the state
\* of its tasks, there is a free slot for it and the event is still there; and it
\* attaches it to a task that exists, not to the guid an ocrEdtCreate that has
\* failed unnoticed (Task::Init) did not write.
EverySourceIsAttached ==
    /\ failure.assertion # "dependence"
    /\ \A t \in Tasks : task[t].phase # "garbage" /\ Lost \notin Range(task[t].slots)

\* What depends on the event of a future gets the handle that the function of the
\* future's task has returned.
FuturesDeliver ==
    \A t \in Started : \A p \in DOMAIN task[t].wanted :
        \A u \in Tasks :
            task[t].wanted[p] = << task[u].out, 1 >> =>
                task[u].phase = "ended" /\ Argument(t, p) = task[u].result

\* A task that depends on a latch starts only after as many calls of Down as of Up
\* and the count the latch was made with: the latch's counter and both slots.
LatchesBalance ==
    \A t \in Started : \A p \in DOMAIN task[t].wanted :
        LET x  == task[t].wanted[p]
            ev == event[x[1]]
        IN  IsClaim(x) /\ ev.type = "latch" /\ x[2] > ev.base =>
                ev.downs = ev.ups + ev.count

\* Each payload of a channel is delivered to one of the slots that wait for it:
\* no two tasks get what was sent once.
ChannelsDeliverOnce ==
    \A e \in { d \in EventIds : event[d].type = "channel" } : \A h \in Handles :
        LET got(t) == { p \in DOMAIN task[t].wanted :
                          /\ IsClaim(task[t].wanted[p]) /\ task[t].wanted[p][1] = e
                          /\ Argument(t, p) = h }
        IN  Cardinality(UNION { {t} \X got(t) : t \in Started })
                <= Cardinality({ k \in DOMAIN event[e].payloads : event[e].payloads[k] = h })

\* All sources of t are handles, triggered events or satisfy Other.
DueBut(t, Other(_)) ==
    /\ task[t].phase # "absent"
    /\ Filled(t)
    /\ \A x \in Range(task[t].wanted) : Ready(x) \/ Other(x)

\* x will be triggered by a task that waits for nothing else.
FromDueTask(x) ==
    \E u \in Tasks \ {Main} : << task[u].out, 1 >> = x /\ DueBut(u, LAMBDA y : FALSE)

\* A task that has all its sources ends, if they are ready or are events of futures
\* whose tasks have all theirs: no slot stays empty.
DueTasksEnd ==
    \A t \in Tasks \ {Main} : DueBut(t, FromDueTask) ~> task[t].phase = "ended"

\* The events and slots of OCR implement a dataflow graph: tasks with inputs, and
\* values that are put once.
Put ==
    [x \in UNION { {e} \X (1 .. Len(event[e].payloads)) : e \in EventIds } |-> Payload(x)]

Graph ==
    INSTANCE Dataflow WITH
        Data   <- Handles,
        Places <- EventIds \X (1 .. MaxPayloads + 1),
        phase  <- [t \in Tasks |-> IF task[t].phase = "garbage" THEN "created" ELSE task[t].phase],
        needs  <- [t \in Tasks |-> IF t = Main \/ task[t].phase = "absent" THEN {}
                                   ELSE Positions(task[t].fn, task[t].count)],
        inputs <- [t \in Tasks |-> task[t].wanted],
        args   <- [t \in Tasks |-> IF t \in Started THEN [p \in DOMAIN task[t].wanted |-> Argument(t, p)]
                                   ELSE << >>],
        value  <- Put

DataflowSpec == Graph!Spec

\* ocxxr-core.hpp:937: "Created Finish-type EDT, but not using the output event."
FinishAssertionTellsTheTruth == failure.assertion = "finish" => failure.out = NoEvent

\* ocxxr-core.hpp:963: "Used incomplete DatablockList for task creation".  The list
\* a task gets holds all its sender put into it.
CompleteListsAccepted ==
    failure.assertion = "incomplete" => \A f \in Fns : failure.list \notin ReceivedLists(f)

=============================================================================
