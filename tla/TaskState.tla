------------------------------ MODULE TaskState ------------------------------
(***************************************************************************)
(* Task-local state: what PushTaskState, PopTaskState, AddDatablock and    *)
(* RemoveDatablock do while tasks run on the worker threads of OCR.        *)
(*                                                                         *)
(* Every worker thread has one thread-local pointer, _task_local_state, to *)
(* the state of the task it runs; each state points to its parent.  OCR    *)
(* shifts work: a thread whose task is blocked in an OCR call may run      *)
(* another task to its end before the call returns.  stack[w] is the chain *)
(* of states of worker w, the current one first.                           *)
(*                                                                         *)
(* The OCR runtime is not part of the repository.  What is assumed of it:  *)
(* a task starts when its datablocks are acquired; a datablock has one     *)
(* address, apart from the others, as long as some task holds it, and may  *)
(* be anywhere else the next time it is acquired; a task holds the blocks  *)
(* it was given or has created until it releases or destroys them or ends; *)
(* guids are not reused.                                                   *)
(***************************************************************************)
EXTENDS DbTable

CONSTANTS
    Workers,    \* worker threads
    Tasks,      \* task instances (EDTs)
    Dbs,        \* guids of datablocks
    ArgsDb,     \* the datablock with the program's arguments
    Arenas,     \* the datablocks the program uses as Arena<T>, not Datablock<T>
    Bases,      \* addresses where datablocks may lie
    DbSize,     \* bytes of a datablock
    MaxDepc,    \* bound on the dependences of a task
    MaxDepth    \* bound on the tasks shifted onto one worker

ASSUME TaskStateAssumption ==
    /\ Dbs \subseteq Guid
    /\ ArgsDb \in Dbs
    /\ Arenas \subseteq Dbs \ {ArgsDb}
    /\ Bases \subseteq Address
    /\ DbSize \in Nat \ {0}
    /\ MaxDepc \in Nat
    /\ MaxDepth \in Nat

VARIABLES
    stack,      \* stack[w]: the chain of task-local states of worker w
    started,    \* tasks that have been launched
    dbState,    \* "unborn", "live" or "destroyed"
    holds,      \* holds[t]: the datablocks task t has acquired
    everHeld,   \* everHeld[t]: all datablocks t has held so far (history)
    place,      \* place[d]: where d lies in memory, NullPtr when nobody holds it
    failure     \* the assertion that has ended the program, or "none"

vars == << stack, started, dbState, holds, everHeld, place, failure >>

Ops == {"create", "release", "releaseArena", "destroy"}

NoCall == [op |-> "none", db |-> NULL_GUID]

Calls == {NoCall} \cup [op : Ops, db : Dbs]

\* TaskLocalState of a task, with the arguments of the task that are still to be
\* constructed and the OCR call the task is in.  The implicit arena's pointer
\* is represented by the guid of the block it points at.
Frame ==
    [ task  : Tasks,
      args  : UNION { [I -> Dbs \cup {NULL_GUID}] : I \in SUBSET (1 .. MaxDepc) },
      call  : Calls,
      table : Table,
      arena : Arenas \cup {NULL_GUID} ]

Current(w) == stack[w][1]

Frames == UNION { { stack[w][i] : i \in DOMAIN stack[w] } : w \in Workers }

\* The current task of w has its arguments and is not in an OCR call.
Running(w) ==
    /\ stack[w] # << >>
    /\ Current(w).args = << >>
    /\ Current(w).call = NoCall

-----------------------------------------------------------------------------
(* The runtime's memory                                                    *)

Held(h) == UNION { h[t] : t \in Tasks }

Disjoint(p) ==
    \A d, e \in Dbs :
        d # e /\ p[d] # NullPtr /\ p[e] # NullPtr
            => p[d] + DbSize <= p[e] \/ p[e] + DbSize <= p[d]

\* Where the blocks may lie once the tasks hold what h says.
Placements(h) ==
    { p \in [Dbs -> Bases \cup {NullPtr}] :
        /\ \A d \in Dbs : p[d] = NullPtr <=> d \notin Held(h)
        /\ \A d \in Held(h) : place[d] # NullPtr => p[d] = place[d]
        /\ Disjoint(p) }

\* Task t now holds D.
SetHolds(t, D) ==
    /\ holds' = [holds EXCEPT ![t] = D]
    /\ everHeld' = [everHeld EXCEPT ![t] = @ \cup D]
    /\ place' \in Placements(holds')

-----------------------------------------------------------------------------
(* Steps of the code                                                       *)

Fail(assertion) ==
    /\ failure' = assertion
    /\ UNCHANGED << stack, started, dbState, holds, everHeld, place >>

SetCurrent(w, frame) == stack' = [stack EXCEPT ![w][1] = frame]

\* Mutants: the new state starts with the parent's table; the state stays on.
PushTaskStateInheriting(chain, t, depv) ==
    << [task |-> t, args |-> depv, call |-> NoCall, arena |-> NULL_GUID,
        table |-> IF chain = << >> THEN EmptyTable ELSE chain[1].table] >> \o chain

PopNothing(chain) == chain

\* The chain after PushTaskState: the new state is zero-initialised.
PushTaskState(chain, t, depv) ==
    << [task |-> t, args |-> depv, call |-> NoCall,
        table |-> EmptyTable, arena |-> NULL_GUID] >> \o chain

PopTaskState(chain) == Tail(chain)

\* A worker takes up a task when it is idle or blocked in an OCR call.
CanLaunch(w) ==
    stack[w] # << >> => Current(w).call # NoCall /\ Len(stack[w]) < MaxDepth

\* InternalFn or mainEdt enters: the runtime has acquired the dependences.  The
\* first task is mainEdt, whose only dependence is the argument datablock.
LaunchTask(w, t) ==
    /\ failure = "none"
    /\ t \notin started
    /\ CanLaunch(w)
    /\ \E n \in 0 .. MaxDepc : \E depv \in [1 .. n -> Dbs \cup {NULL_GUID}] :
        /\ \A i \in 1 .. n : depv[i] # NULL_GUID => dbState[depv[i]] = "live"
        /\ started = {} => depv = << ArgsDb >>
        /\ stack' = [stack EXCEPT ![w] = PushTaskState(@, t, depv)]
        /\ SetHolds(t, Range(depv) \ {NULL_GUID})
    /\ started' = started \cup {t}
    /\ UNCHANGED << dbState, failure >>

\* The base address in the task's dependence or returned by ocrDbCreate.
AddressOf(d) == IF d = NULL_GUID THEN NullPtr ELSE place[d]

\* Datablock(ocrEdtDep_t) or Arena(ocrEdtDep_t) for one argument.  C++ leaves
\* the order in which the arguments of user_fn are constructed open.
UnpackArg(w) ==
    /\ failure = "none"
    /\ stack[w] # << >>
    /\ LET f == Current(w)
       IN  \E i \in DOMAIN f.args :
             LET d == f.args[i]
             IN  IF AddFails(f.table, d, AddressOf(d))
                 THEN Fail("capacity")
                 ELSE /\ \E tbl \in AddDatablock(f.table, d, AddressOf(d)) :
                            SetCurrent(w,
                              [f EXCEPT !.table = tbl,
                                        !.args = [j \in DOMAIN @ \ {i} |-> @[j]]])
                      /\ UNCHANGED << started, dbState, holds, everHeld,
                                      place, failure >>

BeginCall(w, op, d) ==
    SetCurrent(w, [Current(w) EXCEPT !.call = [op |-> op, db |-> d]])

\* Datablock::Create, Arena::Create: ocrDbCreate with DB_PROP_NONE.
BeginCreate(w) ==
    /\ failure = "none"
    /\ Running(w)
    /\ \E d \in Dbs :
        /\ dbState[d] = "unborn"
        /\ dbState' = [dbState EXCEPT ![d] = "live"]
        /\ SetHolds(Current(w).task, holds[Current(w).task] \cup {d})
        /\ BeginCall(w, "create", d)
    /\ UNCHANGED << started, failure >>

\* Datablock::Release and Arena::Release: ocrDbRelease.
BeginRelease(w) ==
    /\ failure = "none"
    /\ Running(w)
    /\ \E d \in holds[Current(w).task] :
        /\ SetHolds(Current(w).task, holds[Current(w).task] \ {d})
        /\ BeginCall(w, IF d \in Arenas THEN "releaseArena" ELSE "release", d)
    /\ UNCHANGED << started, dbState, failure >>

\* Datablock::Destroy, DatablockHandle::Destroy: ocrDbDestroy.  The memory goes
\* when the last task that holds the block is done with it.
BeginDestroy(w) ==
    /\ failure = "none"
    /\ Running(w)
    /\ \E d \in Dbs :
        /\ dbState[d] = "live"
        /\ dbState' = [dbState EXCEPT ![d] = "destroyed"]
        /\ SetHolds(Current(w).task, holds[Current(w).task] \ {d})
        /\ BeginCall(w, "destroy", d)
    /\ UNCHANGED << started, failure >>

\* The OCR call returns, and the rest of the method runs on the same thread:
\* AddDatablock after ocrDbCreate, RemoveDatablock after ocrDbRelease in
\* Datablock::Release, and nothing in Arena::Release and Destroy.
EndCall(w) ==
    /\ failure = "none"
    /\ stack[w] # << >>
    /\ Current(w).call # NoCall
    /\ LET f == Current(w)
           d == f.call.db
           Return(tbl) ==
             /\ SetCurrent(w, [f EXCEPT !.table = tbl, !.call = NoCall])
             /\ UNCHANGED << started, dbState, holds, everHeld, place, failure >>
       IN  CASE f.call.op = "create" ->
                  IF AddFails(f.table, d, AddressOf(d))
                  THEN Fail("capacity")
                  ELSE \E tbl \in AddDatablock(f.table, d, AddressOf(d)) : Return(tbl)
             [] f.call.op = "release" ->
                  IF RemoveFails(f.table, d)
                  THEN Fail("untracked")
                  ELSE IF RemoveFailsOnBase(f.table, d)
                  THEN Fail("base")
                  ELSE \E tbl \in RemoveDatablock(f.table, d) : Return(tbl)
             [] OTHER -> Return(f.table)

\* SetImplicitArena with an arena the task holds, or with a null one.
SetImplicitArena(w) ==
    /\ failure = "none"
    /\ Running(w)
    /\ \E d \in (holds[Current(w).task] \cap Arenas) \cup {NULL_GUID} :
        SetCurrent(w, [Current(w) EXCEPT !.arena = d])
    /\ UNCHANGED << started, dbState, holds, everHeld, place, failure >>

\* The user's function returns, InternalFn pops the task's state, and the runtime
\* releases what the task still holds.
FinishTask(w) ==
    /\ failure = "none"
    /\ Running(w)
    /\ stack' = [stack EXCEPT ![w] = PopTaskState(@)]
    /\ SetHolds(Current(w).task, {})
    /\ UNCHANGED << started, dbState, failure >>

-----------------------------------------------------------------------------

Init ==
    /\ stack = [w \in Workers |-> << >>]
    /\ started = {}
    /\ dbState = [d \in Dbs |-> IF d = ArgsDb THEN "live" ELSE "unborn"]
    /\ holds = [t \in Tasks |-> {}]
    /\ everHeld = [t \in Tasks |-> {}]
    /\ place = [d \in Dbs |-> NullPtr]
    /\ failure = "none"

Next ==
    \E w \in Workers :
        \/ \E t \in Tasks : LaunchTask(w, t)
        \/ UnpackArg(w)
        \/ BeginCreate(w)
        \/ BeginRelease(w)
        \/ BeginDestroy(w)
        \/ EndCall(w)
        \/ SetImplicitArena(w)
        \/ FinishTask(w)

Spec == Init /\ [][Next]_vars

\* Threads keep running, OCR calls return, and a task's function ends even when
\* it could set its implicit arena for ever: the fairness of the program.
Fairness ==
    \A w \in Workers : WF_vars(UnpackArg(w)) /\ WF_vars(EndCall(w)) /\ WF_vars(FinishTask(w))

FairSpec == Spec /\ Fairness

-----------------------------------------------------------------------------
(* Properties                                                              *)

\* Type correctness; a task's tables stay within the fixed arrays of
\* AcquiredDbInfo.
TypeOK ==
    /\ stack \in [Workers -> Seq(Frame)]
    /\ \A f \in Frames : Len(f.table.byGuid) <= MaxDbs
    /\ started \subseteq Tasks
    /\ dbState \in [Dbs -> {"unborn", "live", "destroyed"}]
    /\ holds \in [Tasks -> SUBSET Dbs]
    /\ everHeld \in [Tasks -> SUBSET Dbs]
    /\ place \in [Dbs -> Bases \cup {NullPtr}]
    /\ failure \in {"none", "capacity", "untracked", "base"}

\* The table of every running task satisfies the contract of its searches.
TablesCoherent == \A f \in Frames : Coherent(f.table)

\* The blocks that the task of frame f can name: it holds them, and their
\* Datablock or Arena object has been constructed.
Usable(f) ==
    { d \in holds[f.task] : d \notin Range(f.args) /\ f.call # [op |-> "create", db |-> d] }

\* What every task finds with AddressForGuid for the blocks it can name.
Acquired ==
    UNION { { [task |-> f.task, db |-> d, at |-> AddressForGuid(f.table, d)] : d \in Usable(f) }
              : f \in Frames }

Abstract == INSTANCE AcquiredBlocks WITH acquired <- Acquired, Addresses <- Bases

\* The states of all tasks on all threads together are one map of acquired blocks:
\* each step of a worker acquires or releases one block for its own task, ends it,
\* or changes no address any task sees.
AcquiredBlocksSpec == Abstract!Spec

\* Whatever the task and the tasks shifted onto its thread, on other threads and
\* the runtime have done in the meantime, a block a task holds is found by
\* AddressForGuid at the address where it lies now.
HeldBlocksResolve ==
    \A f \in Frames : \A d \in Usable(f) :
        Tracks(f.table, d) /\ AddressForGuid(f.table, d) = place[d]

\* Task-local state is local to the task: what a state tracks, and its implicit
\* arena, are blocks its own task has acquired, also when the task was shifted
\* onto the thread of a task that tracks others.
TaskStatesIsolated ==
    \A f \in Frames :
        { e.guid : e \in Range(f.table.byGuid) } \cup {f.arena}
            \subseteq everHeld[f.task] \cup {NULL_GUID}

\* A program that releases only blocks it holds never runs into the assertions of
\* RemoveDatablock, whatever it has created and released before.
NoReleaseAssertion == failure \notin {"untracked", "base"}

\* The assertion of AddDatablock ends the program only when the current task of
\* some worker has acquired more than MaxDbs different blocks: an argument given
\* twice, a null argument and the blocks of other tasks do not count.
CapacityOnlyByOwnBlocks ==
    failure = "capacity" =>
        \E w \in Workers :
            stack[w] # << >> /\ Cardinality(everHeld[Current(w).task]) > MaxDbs

\* What the message of the assertion of AddDatablock says: a task that meets it
\* has too many datablocks acquired.
CapacityOnlyWhenAcquired ==
    failure = "capacity" =>
        \E w \in Workers :
            stack[w] # << >> /\ Cardinality(holds[Current(w).task]) > MaxDbs

\* Every task that is launched ends and takes its state off its thread, also
\* below tasks shifted onto the thread, unless an assertion ends the program.
OnStack(t) == \E f \in Frames : f.task = t

LaunchedTasksEnd ==
    \A t \in Tasks : OnStack(t) ~> (~ OnStack(t) \/ failure # "none")

=============================================================================
