--------------------------- MODULE TaskStateProofs ---------------------------
(***************************************************************************)
(* What task-local state guarantees for every number of workers, tasks and *)
(* datablocks, and for every capacity of the table: proofs about TaskState. *)
(*                                                                         *)
(* None of the properties is inductive.  IInv adds what they rest on: a    *)
(* task's state is on one thread only, an entry names a block its task has *)
(* held, with its present address while the task still holds it, and the   *)
(* runtime keeps a block where it is while it is held.                     *)
(***************************************************************************)
EXTENDS TaskState, DbTableProofs, FiniteSetTheorems

-----------------------------------------------------------------------------
(* The inductive invariant                                                 *)

\* The blocks that tasks hold have addresses and exist.
MemoryOK ==
    /\ holds \in [Tasks -> SUBSET Dbs]
    /\ everHeld \in [Tasks -> SUBSET Dbs]
    /\ place \in [Dbs -> Bases \cup {NullPtr}]
    /\ \A t \in Tasks : holds[t] \subseteq everHeld[t]
    /\ \A d \in Dbs : place[d] = NullPtr <=> \A t \in Tasks : d \notin holds[t]

BlocksExist ==
    /\ dbState \in [Dbs -> {"unborn", "live", "destroyed"}]
    /\ \A t \in Tasks : \A d \in everHeld[t] : dbState[d] # "unborn"

\* No task has two states.
FramesApart ==
    \A v, w \in Workers : \A i \in DOMAIN stack[v] : \A j \in DOMAIN stack[w] :
        stack[v][i].task = stack[w][j].task => v = w /\ i = j

InTable(d, tbl) == \E e \in Range(tbl.byGuid) : e.guid = d

\* The entries of a table that belongs to a task that holds the blocks H and has
\* held the blocks E, when p is where blocks lie.
EntriesOK(tbl, H, E, p) ==
    \A e \in Range(tbl.byGuid) : e.guid \in E /\ (e.guid \in H => e.base = p[e.guid])

\* The state f of such a task.
FrameOK(f, H, E, p) ==
    /\ Coherent(f.table)
    /\ Len(f.table.byGuid) <= MaxDbs
    /\ EntriesOK(f.table, H, E, p)
    /\ \A d \in H :
          \/ d \in Range(f.args)
          \/ f.call.op = "create" /\ f.call.db = d
          \/ InTable(d, f.table)
    /\ Range(f.args) \subseteq H \cup {NULL_GUID}
    /\ f.call.op = "create" => f.call.db \in H
    /\ f.call.op = "release" => InTable(f.call.db, f.table)
    /\ f.arena \in E \cup {NULL_GUID}

FramesOK ==
    \A w \in Workers : \A i \in DOMAIN stack[w] :
        LET f == stack[w][i]
        IN  f.task \in started /\ FrameOK(f, holds[f.task], everHeld[f.task], place)

StackOK == stack \in [Workers -> Seq(Frame)] /\ FramesApart /\ FramesOK

IInv ==
    /\ StackOK
    /\ MemoryOK
    /\ BlocksExist
    /\ started \subseteq Tasks
    /\ failure \in {"none", "capacity"}

-----------------------------------------------------------------------------
(* The runtime's memory                                                    *)

\* A step of task t leaves the blocks of the other tasks alone, and every block
\* that a task goes on holding where it is.
Kept(t) ==
    /\ \A u \in Tasks : u # t => holds'[u] = holds[u] /\ everHeld'[u] = everHeld[u]
    /\ \A u \in Tasks : \A d \in holds[u] \cap holds'[u] : place'[d] = place[d]

\* What acquiring, releasing and destroying blocks does to the memory.
LEMMA SetHoldsKeeps ==
    ASSUME MemoryOK, NEW t \in Tasks, NEW D \in SUBSET Dbs, SetHolds(t, D)
    PROVE  /\ MemoryOK'
           /\ Kept(t)
           /\ holds'[t] = D
           /\ everHeld'[t] = everHeld[t] \cup D
<1>1. /\ holds' \in [Tasks -> SUBSET Dbs]
      /\ holds'[t] = D
      /\ \A u \in Tasks : u # t => holds'[u] = holds[u]
    BY DEF MemoryOK, SetHolds
<1>2. /\ everHeld' \in [Tasks -> SUBSET Dbs]
      /\ everHeld'[t] = everHeld[t] \cup D
      /\ \A u \in Tasks : u # t => everHeld'[u] = everHeld[u]
    BY DEF MemoryOK, SetHolds
<1>3. /\ place' \in [Dbs -> Bases \cup {NullPtr}]
      /\ \A d \in Dbs : place'[d] = NullPtr <=> d \notin Held(holds')
      /\ \A d \in Held(holds') : place[d] # NullPtr => place'[d] = place[d]
    BY DEF SetHolds, Placements
<1>4. \A d : d \in Held(holds') <=> \E u \in Tasks : d \in holds'[u]
    BY DEF Held
<1>5. \A u \in Tasks : holds'[u] \subseteq everHeld'[u]
    BY <1>1, <1>2 DEF MemoryOK
<1>6. MemoryOK'
    BY <1>1, <1>2, <1>3, <1>4, <1>5 DEF MemoryOK
<1>7. ASSUME NEW u \in Tasks, NEW d \in holds[u] \cap holds'[u]
      PROVE  place'[d] = place[d]
    BY <1>3, <1>4, <1>7 DEF MemoryOK
<1>8. QED
    BY <1>1, <1>2, <1>6, <1>7 DEF Kept

\* A step that leaves the memory alone.
LEMMA MemoryUnchanged ==
    ASSUME MemoryOK, UNCHANGED << holds, everHeld, place >>
    PROVE  MemoryOK' /\ \A t \in Tasks : Kept(t)
BY DEF MemoryOK, Kept

\* Blocks that existed before a step, and those acquired in it, exist after it.
LEMMA BlocksStayInExistence ==
    ASSUME MemoryOK, BlocksExist, NEW t \in Tasks, NEW D \in SUBSET Dbs,
           everHeld'[t] = everHeld[t] \cup D, Kept(t),
           dbState' \in [Dbs -> {"unborn", "live", "destroyed"}],
           \A d \in Dbs : dbState[d] # "unborn" => dbState'[d] # "unborn",
           \A d \in D : dbState'[d] # "unborn"
    PROVE  BlocksExist'
<1>1. ASSUME NEW u \in Tasks, NEW d \in everHeld'[u]
      PROVE  dbState'[d] # "unborn"
    <2>1. CASE u = t
        BY <1>1, <2>1 DEF MemoryOK, BlocksExist
    <2>2. CASE u # t
        BY <1>1, <2>2 DEF MemoryOK, BlocksExist, Kept
    <2>3. QED
        BY <2>1, <2>2
<1>2. QED
    BY <1>1 DEF BlocksExist

\* A state stays right when its task's blocks stay where they are.
LEMMA FrameStaysOK ==
    ASSUME NEW f, NEW H, NEW E, NEW p, NEW q, FrameOK(f, H, E, p),
           \A d \in H : q[d] = p[d]
    PROVE  FrameOK(f, H, E, q)
BY DEF FrameOK, EntriesOK

-----------------------------------------------------------------------------
(* The chains of states                                                    *)

\* What writing to the current state of a worker changes.
LEMMA WritingCurrent ==
    ASSUME stack \in [Workers -> Seq(Frame)], NEW w \in Workers, stack[w] # << >>,
           NEW frame \in Frame, SetCurrent(w, frame)
    PROVE  /\ stack' \in [Workers -> Seq(Frame)]
           /\ \A v \in Workers :
                /\ DOMAIN stack'[v] = DOMAIN stack[v]
                /\ \A i \in DOMAIN stack[v] :
                     stack'[v][i] = IF v = w /\ i = 1 THEN frame ELSE stack[v][i]
<1>1. stack' = [stack EXCEPT ![w] = [stack[w] EXCEPT ![1] = frame]]
    BY DEF SetCurrent
<1>2. stack[w] \in Seq(Frame) /\ Len(stack[w]) \in Nat /\ DOMAIN stack[w] = 1 .. Len(stack[w])
    OBVIOUS
<1>3. 1 \in DOMAIN stack[w]
    BY <1>2
<1>4. [stack[w] EXCEPT ![1] = frame] \in Seq(Frame)
    BY <1>2, <1>3
<1>5. QED
    BY <1>1, <1>2, <1>3, <1>4

\* A step of the current task of a worker keeps all states right when it writes a
\* right state.
LEMMA CurrentStep ==
    ASSUME StackOK, NEW w \in Workers, stack[w] # << >>,
           NEW frame \in Frame, frame.task = Current(w).task, SetCurrent(w, frame),
           started' = started, Kept(frame.task),
           FrameOK(frame, holds'[frame.task], everHeld'[frame.task], place')
    PROVE  StackOK'
<1>1. /\ stack \in [Workers -> Seq(Frame)]
      /\ \A v \in Workers : \A i \in DOMAIN stack[v] : stack[v][i] \in Frame
    BY DEF StackOK
<1>2. /\ stack' \in [Workers -> Seq(Frame)]
      /\ \A v \in Workers :
           /\ DOMAIN stack'[v] = DOMAIN stack[v]
           /\ \A i \in DOMAIN stack[v] :
                stack'[v][i] = IF v = w /\ i = 1 THEN frame ELSE stack[v][i]
    BY <1>1, WritingCurrent
<1>3. 1 \in DOMAIN stack[w] /\ Current(w) = stack[w][1]
    BY <1>1 DEF Current
<1>4. \A v \in Workers : \A i \in DOMAIN stack[v] : stack'[v][i].task = stack[v][i].task
    BY <1>2, <1>3
<1>5. FramesApart'
    BY <1>2, <1>4 DEF StackOK, FramesApart
<1>6. ASSUME NEW v \in Workers, NEW i \in DOMAIN stack'[v]
      PROVE  LET f == stack'[v][i]
             IN  f.task \in started' /\ FrameOK(f, holds'[f.task], everHeld'[f.task], place')
    <2>1. i \in DOMAIN stack[v] /\ stack[v][i].task \in started
        BY <1>2, <1>6 DEF StackOK, FramesOK
    <2>2. CASE v = w /\ i = 1
        BY <1>2, <1>3, <2>1, <2>2
    <2>3. CASE ~ (v = w /\ i = 1)
        <3> DEFINE f == stack[v][i]
        <3>1. stack'[v][i] = f /\ f \in Frame
            BY <1>1, <1>2, <2>1, <2>3
        <3>2. f.task # frame.task /\ f.task \in Tasks
            BY <1>3, <2>1, <2>3, <3>1 DEF StackOK, FramesApart, Frame
        <3>3. FrameOK(f, holds[f.task], everHeld[f.task], place)
            BY <2>1 DEF StackOK, FramesOK
        <3>4. /\ holds'[f.task] = holds[f.task] /\ everHeld'[f.task] = everHeld[f.task]
              /\ \A d \in holds[f.task] : place'[d] = place[d]
            BY <3>2 DEF Kept
        <3> HIDE DEF f
        <3>5. FrameOK(f, holds[f.task], everHeld[f.task], place')
            BY <3>3, <3>4, FrameStaysOK
        <3>6. QED
            BY <2>1, <3>1, <3>4, <3>5 DEF f
    <2>4. QED
        BY <2>2, <2>3
<1>7. FramesOK'
    BY <1>6 DEF FramesOK
<1>8. QED
    BY <1>2, <1>5, <1>7 DEF StackOK

\* A new state on top of a chain: the other states are one place further down.
LEMMA PushStep ==
    ASSUME StackOK, NEW w \in Workers, NEW t \in Tasks, t \notin started,
           NEW frame \in Frame, frame.task = t,
           stack' = [stack EXCEPT ![w] = << frame >> \o stack[w]],
           started' = started \cup {t}, Kept(t),
           FrameOK(frame, holds'[t], everHeld'[t], place')
    PROVE  StackOK'
<1>1. /\ stack \in [Workers -> Seq(Frame)]
      /\ \A v \in Workers : Len(stack[v]) \in Nat /\ DOMAIN stack[v] = 1 .. Len(stack[v])
      /\ \A v \in Workers : \A i \in DOMAIN stack[v] :
           /\ stack[v][i] \in Frame /\ stack[v][i].task \in started
           /\ FrameOK(stack[v][i], holds[stack[v][i].task], everHeld[stack[v][i].task], place)
    BY DEF StackOK, FramesOK
<1> DEFINE c == << frame >> \o stack[w]
<1>2. /\ c \in Seq(Frame) /\ DOMAIN c = 1 .. Len(stack[w]) + 1
      /\ \A i \in 1 .. Len(stack[w]) + 1 : c[i] = IF i = 1 THEN frame ELSE stack[w][i - 1]
    BY <1>1
<1>3. /\ stack' \in [Workers -> Seq(Frame)] /\ stack'[w] = c
      /\ \A v \in Workers : v # w => stack'[v] = stack[v]
    <2> HIDE DEF c
    <2>1. stack' = [stack EXCEPT ![w] = c]
        BY DEF c
    <2>2. QED
        BY <1>1, <1>2, <2>1
<1> HIDE DEF c
\* Where the states of the new chains come from.
<1>4. ASSUME NEW v \in Workers, NEW i \in DOMAIN stack'[v]
      PROVE  \/ v = w /\ i = 1 /\ stack'[v][i] = frame
             \/ /\ (IF v = w THEN i - 1 ELSE i) \in DOMAIN stack[v]
                /\ i \in Nat
                /\ stack'[v][i] = stack[v][IF v = w THEN i - 1 ELSE i]
    <2>1. CASE v = w
        <3>1. i \in 1 .. Len(stack[w]) + 1 /\ Len(stack[w]) \in Nat
            BY <1>1, <1>2, <1>3, <1>4, <2>1
        <3>2. CASE i = 1
            BY <1>2, <1>3, <2>1, <3>1, <3>2
        <3>3. CASE i # 1
            <4>1. i - 1 \in 1 .. Len(stack[w]) /\ i \in Nat
                BY <3>1, <3>3
            <4>2. c[i] = stack[w][i - 1]
                BY <1>2, <3>1, <3>3
            <4>3. QED
                BY <1>1, <1>3, <2>1, <4>1, <4>2
        <3>4. QED
            BY <3>2, <3>3
    <2>2. CASE v # w
        BY <1>1, <1>3, <1>4, <2>2
    <2>3. QED
        BY <2>1, <2>2
<1>5. FramesApart'
    <2>1. ASSUME NEW v \in Workers, NEW u \in Workers,
                 NEW i \in DOMAIN stack'[v], NEW j \in DOMAIN stack'[u],
                 stack'[v][i].task = stack'[u][j].task
          PROVE  v = u /\ i = j
        <3> DEFINE old(x, k) == IF x = w THEN k - 1 ELSE k
        <3>1. CASE stack'[v][i].task = t
            BY <1>1, <1>4, <2>1, <3>1
        <3>2. CASE stack'[v][i].task # t
            <4>1. /\ old(v, i) \in DOMAIN stack[v] /\ stack'[v][i] = stack[v][old(v, i)]
                  /\ old(u, j) \in DOMAIN stack[u] /\ stack'[u][j] = stack[u][old(u, j)]
                  /\ i \in Nat /\ j \in Nat
                BY <1>4, <2>1, <3>2
            <4>2. v = u /\ old(v, i) = old(u, j)
                BY <2>1, <4>1 DEF StackOK, FramesApart
            <4>3. QED
                BY <4>1, <4>2
        <3>3. QED
            BY <3>1, <3>2
    <2>2. QED
        BY <2>1 DEF FramesApart
<1>6. ASSUME NEW v \in Workers, NEW i \in DOMAIN stack'[v]
      PROVE  LET f == stack'[v][i]
             IN  f.task \in started' /\ FrameOK(f, holds'[f.task], everHeld'[f.task], place')
    <2> DEFINE f == stack'[v][i]
    <2>1. CASE f = frame
        BY <2>1
    <2>2. CASE f # frame
        <3>1. /\ f \in Frame /\ f.task \in started
              /\ FrameOK(f, holds[f.task], everHeld[f.task], place)
            BY <1>1, <1>4, <1>6, <2>2
        <3> HIDE DEF f
        <3>2. f.task # t /\ f.task \in Tasks
            BY <3>1 DEF Frame
        <3>3. /\ holds'[f.task] = holds[f.task] /\ everHeld'[f.task] = everHeld[f.task]
              /\ \A d \in holds[f.task] : place'[d] = place[d]
            BY <3>2 DEF Kept
        <3>4. FrameOK(f, holds[f.task], everHeld[f.task], place')
            BY <3>1, <3>3, FrameStaysOK
        <3>5. /\ f.task \in started'
              /\ FrameOK(f, holds'[f.task], everHeld'[f.task], place')
            BY <3>1, <3>3, <3>4
        <3>6. QED
            BY <3>5 DEF f
    <2>3. QED
        BY <2>1, <2>2
<1>7. FramesOK'
    BY <1>6 DEF FramesOK
<1>8. QED
    BY <1>3, <1>5, <1>7 DEF StackOK

\* The top state of a chain taken off: the other states move up.
LEMMA PopStep ==
    ASSUME StackOK, NEW w \in Workers, stack[w] # << >>,
           stack' = [stack EXCEPT ![w] = Tail(stack[w])],
           started' = started, Kept(Current(w).task)
    PROVE  StackOK'
<1>1. /\ stack \in [Workers -> Seq(Frame)]
      /\ \A v \in Workers : Len(stack[v]) \in Nat /\ DOMAIN stack[v] = 1 .. Len(stack[v])
      /\ \A v \in Workers : \A i \in DOMAIN stack[v] :
           /\ stack[v][i] \in Frame /\ stack[v][i].task \in started
           /\ FrameOK(stack[v][i], holds[stack[v][i].task], everHeld[stack[v][i].task], place)
    BY DEF StackOK, FramesOK
<1> DEFINE c == Tail(stack[w])
<1>2. /\ c \in Seq(Frame) /\ DOMAIN c = 1 .. Len(stack[w]) - 1
      /\ \A i \in 1 .. Len(stack[w]) - 1 : c[i] = stack[w][i + 1]
      /\ 1 \in DOMAIN stack[w]
    BY <1>1
<1>3. /\ stack' \in [Workers -> Seq(Frame)] /\ stack'[w] = c
      /\ \A v \in Workers : v # w => stack'[v] = stack[v]
    <2> HIDE DEF c
    <2>1. stack' = [stack EXCEPT ![w] = c]
        BY DEF c
    <2>2. QED
        BY <1>1, <1>2, <2>1
<1> HIDE DEF c
<1> DEFINE old(x, k) == IF x = w THEN k + 1 ELSE k
\* Where the states of the new chains come from.
<1>4. ASSUME NEW v \in Workers, NEW i \in DOMAIN stack'[v]
      PROVE  /\ old(v, i) \in DOMAIN stack[v]
             /\ i \in Nat /\ i > 0
             /\ stack'[v][i] = stack[v][old(v, i)]
    <2>1. CASE v = w
        <3>1. i \in 1 .. Len(stack[w]) - 1 /\ Len(stack[w]) \in Nat
            BY <1>1, <1>2, <1>3, <1>4, <2>1
        <3>2. i + 1 \in 1 .. Len(stack[w]) /\ c[i] = stack[w][i + 1]
            BY <1>2, <3>1
        <3>3. QED
            BY <1>1, <1>3, <2>1, <3>1, <3>2
    <2>2. CASE v # w
        <3>1. DOMAIN stack'[v] = 1 .. Len(stack[v]) /\ stack'[v] = stack[v]
            BY <1>1, <1>3, <2>2
        <3>2. QED
            BY <1>1, <1>4, <2>2, <3>1
    <2>3. QED
        BY <2>1, <2>2
<1>5. FramesApart'
    <2>1. ASSUME NEW v \in Workers, NEW u \in Workers,
                 NEW i \in DOMAIN stack'[v], NEW j \in DOMAIN stack'[u],
                 stack'[v][i].task = stack'[u][j].task
          PROVE  v = u /\ i = j
        <3>1. v = u /\ old(v, i) = old(u, j)
            BY <1>4, <2>1 DEF StackOK, FramesApart
        <3>2. QED
            BY <1>4, <3>1
    <2>2. QED
        BY <2>1 DEF FramesApart
<1>6. ASSUME NEW v \in Workers, NEW i \in DOMAIN stack'[v]
      PROVE  LET f == stack'[v][i]
             IN  f.task \in started' /\ FrameOK(f, holds'[f.task], everHeld'[f.task], place')
    <2> DEFINE f == stack'[v][i]
    <2>1. /\ f \in Frame /\ f.task \in started
          /\ FrameOK(f, holds[f.task], everHeld[f.task], place)
        BY <1>1, <1>4, <1>6
    <2>2. f.task # Current(w).task /\ f.task \in Tasks
        <3>1. f = stack[v][old(v, i)] /\ old(v, i) \in DOMAIN stack[v]
            BY <1>4, <1>6
        <3>2. v = w => old(v, i) # 1
            BY <1>4, <1>6
        <3>3. QED
            BY <1>2, <2>1, <3>1, <3>2 DEF StackOK, FramesApart, Current, Frame
    <2> HIDE DEF f
    <2>3. /\ holds'[f.task] = holds[f.task] /\ everHeld'[f.task] = everHeld[f.task]
          /\ \A d \in holds[f.task] : place'[d] = place[d]
        BY <2>2 DEF Kept
    <2>4. FrameOK(f, holds[f.task], everHeld[f.task], place')
        BY <2>1, <2>3, FrameStaysOK
    <2>5. QED
        BY <2>1, <2>3, <2>4 DEF f
<1>7. FramesOK'
    BY <1>6 DEF FramesOK
<1>8. QED
    BY <1>3, <1>5, <1>7 DEF StackOK

-----------------------------------------------------------------------------
(* The steps                                                               *)

\* Writing fields of a state.
LEMMA FrameFields ==
    ASSUME NEW f \in Frame
    PROVE  /\ f.task \in Tasks /\ f.table \in Table
           /\ f.call.op \in Ops \cup {"none"}
           /\ f.call.op # "none" => f.call.db \in Dbs
           /\ \A tbl \in Table : [f EXCEPT !.table = tbl] \in Frame
           /\ \A tbl \in Table : [f EXCEPT !.table = tbl, !.call = NoCall] \in Frame
           /\ \A op \in Ops : \A d \in Dbs :
                [f EXCEPT !.call = [op |-> op, db |-> d]] \in Frame
           /\ \A d \in Arenas \cup {NULL_GUID} : [f EXCEPT !.arena = d] \in Frame
<1> DEFINE ArgsType == UNION { [I -> Dbs \cup {NULL_GUID}] : I \in SUBSET (1 .. MaxDepc) }
<1>1. Frame = [task : Tasks, args : ArgsType, call : Calls, table : Table,
               arena : Arenas \cup {NULL_GUID}]
    BY DEF Frame
<1> HIDE DEF ArgsType
<1>2. \A c \in Calls : c.op \in Ops \cup {"none"} /\ (c.op # "none" => c.db \in Dbs)
    BY DEF Calls, NoCall
<1>3. NoCall \in Calls /\ \A op \in Ops : \A d \in Dbs : [op |-> op, db |-> d] \in Calls
    BY DEF Calls
<1>4. QED
    BY <1>1, <1>2, <1>3

\* The current state of a worker.
LEMMA CurrentOK ==
    ASSUME StackOK, NEW w \in Workers, stack[w] # << >>
    PROVE  /\ Current(w) \in Frame
           /\ Current(w).task \in Tasks \cap started
           /\ FrameOK(Current(w), holds[Current(w).task], everHeld[Current(w).task], place)
<1>1. stack[w] \in Seq(Frame) /\ 1 \in DOMAIN stack[w]
    BY DEF StackOK
<1>2. Current(w) \in Frame /\ Current(w).task \in started
    BY <1>1 DEF Current, StackOK, FramesOK
<1>3. FrameOK(Current(w), holds[Current(w).task], everHeld[Current(w).task], place)
    BY <1>1 DEF Current, StackOK, FramesOK
<1>4. QED
    BY <1>2, <1>3 DEF Frame

\* The current task of a worker that is running can use every block it holds.
LEMMA RunningOK ==
    ASSUME StackOK, NEW w \in Workers, Running(w)
    PROVE  /\ stack[w] # << >>
           /\ Range(Current(w).args) = {} /\ Current(w).call.op = "none"
           /\ \A d \in holds[Current(w).task] : InTable(d, Current(w).table)
<1>1. /\ stack[w] # << >>
      /\ Range(Current(w).args) = {} /\ Current(w).call.op = "none"
    BY DEF Running, NoCall, Range
<1>2. FrameOK(Current(w), holds[Current(w).task], everHeld[Current(w).task], place)
    BY <1>1, CurrentOK
<1>3. QED
    BY <1>1, <1>2 DEF FrameOK

\* What AddDatablock does to the table of a task that holds the block d.
LEMMA AddingToTable ==
    ASSUME NEW tbl \in Table, Coherent(tbl), Len(tbl.byGuid) <= MaxDbs,
           NEW H, NEW E, NEW p, H \subseteq E, EntriesOK(tbl, H, E, p),
           NEW d \in H, d \in Guid, p[d] \in Address,
           ~ AddFails(tbl, d, p[d]), NEW new \in AddDatablock(tbl, d, p[d])
    PROVE  /\ new \in Table /\ Coherent(new) /\ Len(new.byGuid) <= MaxDbs
           /\ EntriesOK(new, H, E, p)
           /\ InTable(d, new)
           /\ \A x : InTable(x, tbl) => InTable(x, new)
<1>1. d \in Nat /\ p[d] \in Nat /\ p[d] # NullPtr
    BY DEF Guid, Address
<1>2. /\ new \in Table /\ Coherent(new) /\ Len(new.byGuid) <= MaxDbs
      /\ Range(new.byGuid) =
           Range(tbl.byGuid) \cup (IF Tracks(tbl, d) THEN {} ELSE {[guid |-> d, base |-> p[d]]})
    BY <1>1, AddKeepsCoherent
<1>3. InTable(d, new)
    <2>1. CASE Tracks(tbl, d)
        <3>1. \E e \in Range(tbl.byGuid) : e.guid = d
            BY <1>1, <2>1, TracksMeans
        <3>2. QED
            BY <1>2, <3>1 DEF InTable
    <2>2. CASE ~ Tracks(tbl, d)
        <3>1. [guid |-> d, base |-> p[d]] \in Range(new.byGuid)
            BY <1>2, <2>2
        <3>2. QED
            BY <3>1 DEF InTable
    <2>3. QED
        BY <2>1, <2>2
<1>4. EntriesOK(new, H, E, p)
    BY <1>2 DEF EntriesOK
<1>5. QED
    BY <1>2, <1>3, <1>4 DEF InTable

\* The address of a block that a task holds.
LEMMA HeldAddress ==
    ASSUME MemoryOK, NEW t \in Tasks, NEW d \in holds[t]
    PROVE  d \in Dbs /\ d \in Guid /\ place[d] \in Address /\ AddressOf(d) = place[d]
BY TaskStateAssumption DEF MemoryOK, Guid, Address, AddressOf

\* A task starts.
LEMMA LaunchTaskStep ==
    ASSUME IInv, NEW w \in Workers, NEW t \in Tasks, LaunchTask(w, t)
    PROVE  IInv'
<1>1. PICK n \in 0 .. MaxDepc : \E depv \in [1 .. n -> Dbs \cup {NULL_GUID}] :
        /\ \A i \in 1 .. n : depv[i] # NULL_GUID => dbState[depv[i]] = "live"
        /\ stack' = [stack EXCEPT ![w] = PushTaskState(stack[w], t, depv)]
        /\ SetHolds(t, Range(depv) \ {NULL_GUID})
    BY DEF LaunchTask
<1>2. PICK depv \in [1 .. n -> Dbs \cup {NULL_GUID}] :
        /\ \A i \in 1 .. n : depv[i] # NULL_GUID => dbState[depv[i]] = "live"
        /\ stack' = [stack EXCEPT ![w] = PushTaskState(stack[w], t, depv)]
        /\ SetHolds(t, Range(depv) \ {NULL_GUID})
    BY <1>1
<1>3. started' = started \cup {t} /\ dbState' = dbState /\ failure' = failure /\ t \notin started
    BY DEF LaunchTask
<1> DEFINE D == Range(depv) \ {NULL_GUID}
           frame == [task |-> t, args |-> depv, call |-> NoCall,
                     table |-> EmptyTable, arena |-> NULL_GUID]
<1>4. D \in SUBSET Dbs /\ \A d \in D : dbState[d] = "live"
    BY <1>2 DEF Range
<1>5. MemoryOK' /\ Kept(t) /\ holds'[t] = D /\ everHeld'[t] = everHeld[t] \cup D
    BY <1>2, <1>4, SetHoldsKeeps DEF IInv
<1>6. BlocksExist'
    <2>1. dbState' \in [Dbs -> {"unborn", "live", "destroyed"}]
        BY <1>3 DEF IInv, BlocksExist
    <2> HIDE DEF D
    <2>2. QED
        BY <1>3, <1>4, <1>5, <2>1, BlocksStayInExistence DEF IInv
<1>7. frame \in Frame
    <2>1. 1 .. n \in SUBSET (1 .. MaxDepc)
        BY TaskStateAssumption
    <2>2. depv \in UNION { [I -> Dbs \cup {NULL_GUID}] : I \in SUBSET (1 .. MaxDepc) }
        BY <2>1
    <2>3. EmptyTable \in Table /\ NoCall \in Calls
        BY DEF EmptyTable, Table, Calls
    <2>4. QED
        BY <2>2, <2>3 DEF Frame
<1>8. FrameOK(frame, D, everHeld'[t], place')
    <2>1. Range(frame.table.byGuid) = {} /\ Len(frame.table.byGuid) = 0
        BY DEF EmptyTable, Range
    <2>2. Coherent(frame.table)
        BY DEF EmptyTable, Coherent, SortedByGuid, SortedByBase, Range, IsInjective
    <2>3. QED
        BY <2>1, <2>2, MaxDbsAssumption DEF FrameOK, EntriesOK, NoCall
<1>9. stack' = [stack EXCEPT ![w] = << frame >> \o stack[w]]
    BY <1>2 DEF PushTaskState
<1> HIDE DEF frame
<1>10. frame.task = t
    BY DEF frame
<1>11. StackOK'
    BY <1>3, <1>5, <1>7, <1>8, <1>9, <1>10, PushStep DEF IInv
<1>12. QED
    BY <1>3, <1>5, <1>6, <1>11 DEF IInv

\* The current task constructs an argument.
LEMMA UnpackArgStep ==
    ASSUME IInv, NEW w \in Workers, UnpackArg(w)
    PROVE  IInv'
<1> DEFINE f == Current(w)
           t == f.task
           H == holds[t]
           E == everHeld[t]
<1>1. stack[w] # << >> /\ failure = "none"
    BY DEF UnpackArg
<1>2. f \in Frame /\ t \in Tasks /\ FrameOK(f, H, E, place)
    BY <1>1, CurrentOK DEF IInv
<1>3. PICK i \in DOMAIN f.args :
        LET d == f.args[i]
        IN  IF AddFails(f.table, d, AddressOf(d))
            THEN Fail("capacity")
            ELSE /\ \E tbl \in AddDatablock(f.table, d, AddressOf(d)) :
                        SetCurrent(w, [f EXCEPT !.table = tbl,
                                                !.args = [j \in DOMAIN @ \ {i} |-> @[j]]])
                 /\ UNCHANGED << started, dbState, holds, everHeld, place, failure >>
    BY DEF UnpackArg
<1> DEFINE d == f.args[i]
<1>4. CASE AddFails(f.table, d, AddressOf(d))
    BY <1>3, <1>4 DEF IInv, StackOK, MemoryOK, BlocksExist, FramesApart, FramesOK, Fail
<1>5. CASE ~ AddFails(f.table, d, AddressOf(d))
    <2>1. PICK tbl \in AddDatablock(f.table, d, AddressOf(d)) :
            /\ SetCurrent(w, [f EXCEPT !.table = tbl,
                                       !.args = [j \in DOMAIN @ \ {i} |-> @[j]]])
            /\ UNCHANGED << started, dbState, holds, everHeld, place, failure >>
        BY <1>3, <1>5
    <2> DEFINE args == [j \in DOMAIN f.args \ {i} |-> f.args[j]]
               frame == [f EXCEPT !.table = tbl, !.args = args]
    <2>2. f.table \in Table /\ d \in Range(f.args) /\ d \in H \cup {NULL_GUID} /\ H \subseteq E
        BY <1>2, FrameFields DEF FrameOK, Range, IInv, MemoryOK
    <2>3. /\ tbl \in Table /\ Coherent(tbl) /\ Len(tbl.byGuid) <= MaxDbs
          /\ EntriesOK(tbl, H, E, place)
          /\ d \in H => InTable(d, tbl)
          /\ \A x : InTable(x, f.table) => InTable(x, tbl)
        <3>1. CASE d \in H
            <4>1. d \in Guid /\ place[d] \in Address /\ AddressOf(d) = place[d]
                BY <1>2, <3>1, HeldAddress DEF IInv
            <4>2. /\ Coherent(f.table) /\ Len(f.table.byGuid) <= MaxDbs
                  /\ EntriesOK(f.table, H, E, place)
                BY <1>2 DEF FrameOK
            <4>3. ~ AddFails(f.table, d, place[d]) /\ tbl \in AddDatablock(f.table, d, place[d])
                BY <1>5, <2>1, <4>1
            <4> HIDE DEF d, f, H, E
            <4>4. QED
                BY <2>2, <3>1, <4>1, <4>2, <4>3, AddingToTable
        <3>2. CASE d \notin H
            <4>1. tbl = f.table
                BY <2>1, <2>2, <3>2 DEF AddressOf, AddDatablock
            <4>2. QED
                BY <1>2, <2>2, <3>2, <4>1 DEF FrameOK
        <3>3. QED
            BY <3>1, <3>2
    <2>4. Range(args) \subseteq Range(f.args) /\ Range(f.args) \subseteq Range(args) \cup {d}
        BY DEF Range
    <2>5. /\ frame \in Frame /\ frame.task = t /\ frame.table = tbl /\ frame.args = args
          /\ frame.call = f.call /\ frame.arena = f.arena
        <3>1. args \in UNION { [I -> Dbs \cup {NULL_GUID}] : I \in SUBSET (1 .. MaxDepc) }
            <4>1. PICK I \in SUBSET (1 .. MaxDepc) : f.args \in [I -> Dbs \cup {NULL_GUID}]
                BY <1>2 DEF Frame
            <4>2. I \ {i} \in SUBSET (1 .. MaxDepc) /\ args \in [I \ {i} -> Dbs \cup {NULL_GUID}]
                BY <4>1
            <4>3. QED
                BY <4>2
        <3> HIDE DEF args, f
        <3>2. QED
            BY <1>2, <2>3, <3>1 DEF Frame
    <2> HIDE DEF args
    <2>6. FrameOK(frame, H, E, place)
        <3>1. FrameOK(f, H, E, place)
            BY <1>2
        <3> HIDE DEF frame, f, H, E, d
        <3>2. ASSUME NEW x \in H
              PROVE  \/ x \in Range(args)
                     \/ f.call.op = "create" /\ f.call.db = x
                     \/ InTable(x, tbl)
            BY <2>3, <2>4, <3>1 DEF FrameOK
        <3>3. QED
            BY <2>3, <2>4, <2>5, <3>1, <3>2 DEF FrameOK
    <2>7. SetCurrent(w, frame) /\ UNCHANGED << started, dbState, holds, everHeld, place, failure >>
        BY <2>1 DEF args
    <2>8. MemoryOK' /\ Kept(t)
        BY <1>2, <2>7, MemoryUnchanged DEF IInv
    <2>9. StackOK'
        <3>1. holds'[t] = H /\ everHeld'[t] = E /\ place' = place /\ started' = started
            BY <2>7
        <3> HIDE DEF frame
        <3>2. FrameOK(frame, holds'[frame.task], everHeld'[frame.task], place')
            BY <2>5, <2>6, <3>1
        <3>3. QED
            BY <1>1, <2>5, <2>7, <2>8, <3>1, <3>2, CurrentStep DEF IInv
    <2>10. QED
        BY <2>7, <2>8, <2>9 DEF IInv, BlocksExist
<1>6. QED
    BY <1>4, <1>5

\* A task enters an OCR call about block d, which leaves it with the blocks D: those
\* it had, and d if the call creates it.
LEMMA BeginCallStep ==
    ASSUME IInv, NEW w \in Workers, Running(w),
           NEW D \in SUBSET Dbs, SetHolds(Current(w).task, D), started' = started,
           NEW op \in Ops, NEW d \in Dbs, BeginCall(w, op, d),
           \A x \in D : x \in holds[Current(w).task] \/ (op = "create" /\ x = d),
           op = "create" => d \in D /\ dbState[d] = "unborn",
           op = "release" => d \in holds[Current(w).task]
    PROVE  /\ StackOK' /\ MemoryOK' /\ Kept(Current(w).task)
           /\ everHeld'[Current(w).task] = everHeld[Current(w).task] \cup D
<1> DEFINE f == Current(w)
           t == f.task
           H == holds[t]
           E == everHeld[t]
           frame == [f EXCEPT !.call = [op |-> op, db |-> d]]
<1>1. /\ stack[w] # << >> /\ Range(f.args) = {} /\ f.call.op = "none"
      /\ \A x \in H : InTable(x, f.table)
    BY RunningOK DEF IInv
<1>2. f \in Frame /\ t \in Tasks /\ FrameOK(f, H, E, place)
    BY <1>1, CurrentOK DEF IInv
<1>3. MemoryOK' /\ Kept(t) /\ holds'[t] = D /\ everHeld'[t] = E \cup D
    BY <1>2, SetHoldsKeeps DEF IInv
<1>4. op = "create" => ~ InTable(d, f.table)
    BY <1>2 DEF IInv, BlocksExist, FrameOK, EntriesOK, InTable
<1>5. EntriesOK(f.table, D, E \cup D, place')
    <2> SUFFICES ASSUME NEW e \in Range(f.table.byGuid)
                 PROVE  e.guid \in E \cup D /\ (e.guid \in D => e.base = place'[e.guid])
        BY DEF EntriesOK
    <2>1. e.guid \in E /\ (e.guid \in H => e.base = place[e.guid])
        BY <1>2 DEF FrameOK, EntriesOK
    <2>2. ASSUME e.guid \in D
          PROVE  e.base = place'[e.guid]
        <3>1. e.guid \in H
            BY <1>4, <2>2 DEF InTable
        <3>2. e.guid \in holds[t] \cap holds'[t]
            BY <1>3, <2>2, <3>1
        <3>3. QED
            BY <1>2, <1>3, <2>1, <3>2 DEF Kept
    <2>3. QED
        BY <2>1, <2>2
<1>6. /\ frame \in Frame /\ frame.task = t /\ frame.table = f.table /\ frame.args = f.args
      /\ frame.call = [op |-> op, db |-> d] /\ frame.arena = f.arena
    <2> HIDE DEF f
    <2>1. frame \in Frame
        BY <1>2, FrameFields
    <2>2. QED
        BY <1>2, <2>1 DEF Frame
<1>7. FrameOK(frame, D, E \cup D, place')
    <2>1. FrameOK(f, H, E, place)
        BY <1>2
    <2> HIDE DEF frame, f, H, E
    <2>2. \A x \in D : (op = "create" /\ d = x) \/ InTable(x, f.table)
        BY <1>1 DEF H, t, f
    <2>3. op = "release" => InTable(d, f.table)
        BY <1>1 DEF H, t, f
    <2>4. QED
        BY <1>1, <1>5, <1>6, <2>1, <2>2, <2>3 DEF FrameOK
<1>8. SetCurrent(w, frame)
    BY DEF BeginCall
<1>9. StackOK'
    <2> HIDE DEF frame
    <2>1. FrameOK(frame, holds'[frame.task], everHeld'[frame.task], place')
        BY <1>3, <1>6, <1>7
    <2>2. QED
        BY <1>1, <1>3, <1>6, <1>8, <2>1, CurrentStep DEF IInv
<1>10. QED
    BY <1>3, <1>9

\* ocrDbCreate.
LEMMA BeginCreateStep ==
    ASSUME IInv, NEW w \in Workers, BeginCreate(w)
    PROVE  IInv'
<1> DEFINE t == Current(w).task
<1>1. Running(w) /\ started' = started /\ failure' = failure
    BY DEF BeginCreate
<1>2. PICK d \in Dbs :
        /\ dbState[d] = "unborn"
        /\ dbState' = [dbState EXCEPT ![d] = "live"]
        /\ SetHolds(t, holds[t] \cup {d})
        /\ BeginCall(w, "create", d)
    BY DEF BeginCreate
<1>3. t \in Tasks
    BY <1>1, RunningOK, CurrentOK DEF IInv
<1> DEFINE D == holds[t] \cup {d}
<1>4. D \in SUBSET Dbs /\ "create" \in Ops /\ d \in D
    BY <1>3 DEF IInv, MemoryOK, Ops
<1>5. /\ StackOK' /\ MemoryOK' /\ Kept(t)
      /\ everHeld'[t] = everHeld[t] \cup D
    BY <1>1, <1>2, <1>4, BeginCallStep
<1>6. BlocksExist'
    <2>1. \A x \in D : dbState'[x] # "unborn"
        BY <1>2, <1>3 DEF IInv, MemoryOK, BlocksExist
    <2>2. /\ dbState' \in [Dbs -> {"unborn", "live", "destroyed"}]
          /\ \A x \in Dbs : dbState[x] # "unborn" => dbState'[x] # "unborn"
        BY <1>2 DEF IInv, BlocksExist
    <2> HIDE DEF D, t
    <2>3. QED
        BY <1>3, <1>4, <1>5, <2>1, <2>2, BlocksStayInExistence DEF IInv
<1>7. QED
    BY <1>1, <1>5, <1>6 DEF IInv

\* ocrDbRelease.
LEMMA BeginReleaseStep ==
    ASSUME IInv, NEW w \in Workers, BeginRelease(w)
    PROVE  IInv'
<1> DEFINE t == Current(w).task
<1>1. /\ Running(w) /\ started' = started /\ failure' = failure /\ dbState' = dbState
    BY DEF BeginRelease
<1>2. PICK d \in holds[t] :
        /\ SetHolds(t, holds[t] \ {d})
        /\ BeginCall(w, IF d \in Arenas THEN "releaseArena" ELSE "release", d)
    BY DEF BeginRelease
<1>3. t \in Tasks
    BY <1>1, RunningOK, CurrentOK DEF IInv
<1> DEFINE D == holds[t] \ {d}
           op == IF d \in Arenas THEN "releaseArena" ELSE "release"
<1>4. D \in SUBSET Dbs /\ op \in Ops /\ op # "create" /\ d \in Dbs
    BY <1>3 DEF IInv, MemoryOK, Ops
<1>5. SetHolds(t, D) /\ BeginCall(w, op, d) /\ D \subseteq holds[t]
    BY <1>2
<1> HIDE DEF D, op
<1>6. /\ StackOK' /\ MemoryOK' /\ Kept(t)
      /\ everHeld'[t] = everHeld[t] \cup D
    BY <1>1, <1>4, <1>5, BeginCallStep
<1>7. BlocksExist'
    <2>1. \A x \in D : dbState[x] # "unborn"
        BY <1>3, <1>5 DEF IInv, MemoryOK, BlocksExist
    <2>2. dbState' \in [Dbs -> {"unborn", "live", "destroyed"}]
        BY <1>1 DEF IInv, BlocksExist
    <2> HIDE DEF t
    <2>3. QED
        BY <1>1, <1>3, <1>4, <1>6, <2>1, <2>2, BlocksStayInExistence DEF IInv
<1>8. QED
    BY <1>1, <1>6, <1>7 DEF IInv

\* ocrDbDestroy.
LEMMA BeginDestroyStep ==
    ASSUME IInv, NEW w \in Workers, BeginDestroy(w)
    PROVE  IInv'
<1> DEFINE t == Current(w).task
<1>1. Running(w) /\ started' = started /\ failure' = failure
    BY DEF BeginDestroy
<1>2. PICK d \in Dbs :
        /\ dbState[d] = "live"
        /\ dbState' = [dbState EXCEPT ![d] = "destroyed"]
        /\ SetHolds(t, holds[t] \ {d})
        /\ BeginCall(w, "destroy", d)
    BY DEF BeginDestroy
<1>3. t \in Tasks
    BY <1>1, RunningOK, CurrentOK DEF IInv
<1> DEFINE D == holds[t] \ {d}
<1>4. D \in SUBSET Dbs /\ "destroy" \in Ops
    BY <1>3 DEF IInv, MemoryOK, Ops
<1>5. /\ StackOK' /\ MemoryOK' /\ Kept(t)
      /\ everHeld'[t] = everHeld[t] \cup D
    BY <1>1, <1>2, <1>4, BeginCallStep
<1>6. BlocksExist'
    <2>1. \A x \in D : dbState'[x] # "unborn"
        BY <1>2, <1>3 DEF IInv, MemoryOK, BlocksExist
    <2>2. /\ dbState' \in [Dbs -> {"unborn", "live", "destroyed"}]
          /\ \A x \in Dbs : dbState[x] # "unborn" => dbState'[x] # "unborn"
        BY <1>2 DEF IInv, BlocksExist
    <2> HIDE DEF D, t
    <2>3. QED
        BY <1>3, <1>4, <1>5, <2>1, <2>2, BlocksStayInExistence DEF IInv
<1>7. QED
    BY <1>1, <1>5, <1>6 DEF IInv

\* An OCR call returns, and the method leaves the table tbl.
LEMMA ReturnStep ==
    ASSUME IInv, NEW w \in Workers, stack[w] # << >>,
           NEW tbl \in Table, Coherent(tbl), Len(tbl.byGuid) <= MaxDbs,
           SetCurrent(w, [Current(w) EXCEPT !.table = tbl, !.call = NoCall]),
           UNCHANGED << started, dbState, holds, everHeld, place, failure >>,
           EntriesOK(tbl, holds[Current(w).task], everHeld[Current(w).task], place),
           \A x : InTable(x, Current(w).table) => InTable(x, tbl),
           Current(w).call.op = "create" => InTable(Current(w).call.db, tbl)
    PROVE  IInv'
<1> DEFINE f == Current(w)
           t == f.task
           H == holds[t]
           E == everHeld[t]
           frame == [f EXCEPT !.table = tbl, !.call = NoCall]
<1>1. f \in Frame /\ t \in Tasks /\ FrameOK(f, H, E, place)
    BY CurrentOK DEF IInv
<1>2. /\ frame \in Frame /\ frame.task = t /\ frame.table = tbl /\ frame.args = f.args
      /\ frame.call = NoCall /\ frame.arena = f.arena
    <2> HIDE DEF f
    <2>1. frame \in Frame
        BY <1>1, FrameFields
    <2>2. QED
        BY <1>1, <2>1 DEF Frame
<1>3. FrameOK(frame, H, E, place)
    <2> HIDE DEF frame
    <2>1. FrameOK(f, H, E, place)
        BY <1>1
    <2>2. /\ \A x : InTable(x, f.table) => InTable(x, tbl)
          /\ f.call.op = "create" => InTable(f.call.db, tbl)
          /\ EntriesOK(tbl, H, E, place)
        OBVIOUS
    <2> HIDE DEF f, H, E
    <2>3. QED
        BY <1>2, <2>1, <2>2 DEF FrameOK, NoCall
<1>4. MemoryOK' /\ Kept(t)
    BY <1>1, MemoryUnchanged DEF IInv
<1>5. StackOK'
    <2> HIDE DEF frame
    <2>1. FrameOK(frame, holds'[frame.task], everHeld'[frame.task], place')
        BY <1>2, <1>3
    <2>2. SetCurrent(w, frame)
        BY DEF frame
    <2>3. QED
        BY <1>2, <1>4, <2>1, <2>2, CurrentStep DEF IInv
<1>6. QED
    BY <1>4, <1>5 DEF IInv, BlocksExist

\* The rest of a method after its OCR call.
LEMMA EndCallStep ==
    ASSUME IInv, NEW w \in Workers, EndCall(w)
    PROVE  IInv'
<1> DEFINE f == Current(w)
           t == f.task
           H == holds[t]
           E == everHeld[t]
           d == f.call.db
           Return(tbl) ==
             /\ SetCurrent(w, [f EXCEPT !.table = tbl, !.call = NoCall])
             /\ UNCHANGED << started, dbState, holds, everHeld, place, failure >>
<1>1. stack[w] # << >> /\ failure = "none"
    BY DEF EndCall
<1>2. /\ f \in Frame /\ t \in Tasks /\ FrameOK(f, H, E, place) /\ f.table \in Table
      /\ H \subseteq E
    BY <1>1, CurrentOK, FrameFields DEF IInv, MemoryOK
<1>3. /\ Coherent(f.table) /\ Len(f.table.byGuid) <= MaxDbs /\ EntriesOK(f.table, H, E, place)
    BY <1>2 DEF FrameOK
<1>4. CASE f.call.op = "create"
    <2>1. IF AddFails(f.table, d, AddressOf(d))
          THEN Fail("capacity")
          ELSE \E tbl \in AddDatablock(f.table, d, AddressOf(d)) : Return(tbl)
        BY <1>4 DEF EndCall
    <2>2. d \in H
        BY <1>2, <1>4 DEF FrameOK
    <2>3. d \in Guid /\ place[d] \in Address /\ AddressOf(d) = place[d]
        BY <1>2, <2>2, HeldAddress DEF IInv
    <2>4. CASE AddFails(f.table, d, AddressOf(d))
        BY <2>1, <2>4 DEF IInv, StackOK, MemoryOK, BlocksExist, FramesApart, FramesOK, Fail
    <2>5. CASE ~ AddFails(f.table, d, AddressOf(d))
        <3>1. PICK tbl \in AddDatablock(f.table, d, AddressOf(d)) : Return(tbl)
            BY <2>1, <2>5
        <3>2. ~ AddFails(f.table, d, place[d]) /\ tbl \in AddDatablock(f.table, d, place[d])
            BY <2>3, <2>5, <3>1
        <3>3. /\ tbl \in Table /\ Coherent(tbl) /\ Len(tbl.byGuid) <= MaxDbs
              /\ EntriesOK(tbl, H, E, place)
              /\ InTable(d, tbl)
              /\ \A x : InTable(x, f.table) => InTable(x, tbl)
            <4> HIDE DEF f, H, E, d
            <4>1. QED
                BY <1>2, <1>3, <2>2, <2>3, <3>2, AddingToTable
        <3>4. QED
            BY <1>1, <3>1, <3>3, ReturnStep
    <2>6. QED
        BY <2>4, <2>5
<1>5. CASE f.call.op = "release"
    <2>1. IF RemoveFails(f.table, d)
          THEN Fail("untracked")
          ELSE IF RemoveFailsOnBase(f.table, d)
          THEN Fail("base")
          ELSE \E tbl \in RemoveDatablock(f.table, d) : Return(tbl)
        BY <1>5 DEF EndCall
    <2>2. d \in Dbs /\ d \in Guid /\ d \in Nat
        BY <1>2, <1>5, FrameFields, TaskStateAssumption DEF Guid
    <2>3. InTable(d, f.table)
        BY <1>2, <1>5 DEF FrameOK
    <2>4. Tracks(f.table, d)
        BY <1>2, <1>3, <2>2, <2>3, TracksMeans DEF InTable
    <2>5. ~ RemoveFails(f.table, d) /\ ~ RemoveFailsOnBase(f.table, d)
        BY <1>2, <1>3, <2>2, <2>4, RemoveFindsBase DEF RemoveFails
    <2>6. PICK tbl \in RemoveDatablock(f.table, d) : Return(tbl)
        BY <2>1, <2>5
    <2>7. /\ tbl \in Table /\ Coherent(tbl)
          /\ Len(tbl.byGuid) = Len(f.table.byGuid)
          /\ Range(tbl.byGuid) = Range(f.table.byGuid)
        BY <1>2, <1>3, <2>2, <2>4, <2>6, RemoveKeepsCoherent
    <2>8. /\ Len(tbl.byGuid) <= MaxDbs /\ EntriesOK(tbl, H, E, place)
          /\ \A x : InTable(x, f.table) => InTable(x, tbl)
        BY <1>3, <2>7 DEF EntriesOK, InTable
    <2>9. QED
        BY <1>1, <1>5, <2>6, <2>7, <2>8, ReturnStep
<1>6. CASE f.call.op \notin {"create", "release"}
    <2>1. Return(f.table)
        BY <1>6 DEF EndCall
    <2>2. QED
        BY <1>1, <1>2, <1>3, <1>6, <2>1, ReturnStep
<1>7. QED
    BY <1>4, <1>5, <1>6

\* A task sets its implicit arena.
LEMMA SetImplicitArenaStep ==
    ASSUME IInv, NEW w \in Workers, SetImplicitArena(w)
    PROVE  IInv'
<1> DEFINE f == Current(w)
           t == f.task
<1>1. /\ stack[w] # << >> /\ Running(w)
      /\ UNCHANGED << started, dbState, holds, everHeld, place, failure >>
    BY DEF SetImplicitArena, Running
<1>2. f \in Frame /\ t \in Tasks /\ FrameOK(f, holds[t], everHeld[t], place)
    BY <1>1, CurrentOK DEF IInv
<1>3. PICK d \in (holds[t] \cap Arenas) \cup {NULL_GUID} :
        SetCurrent(w, [f EXCEPT !.arena = d])
    BY DEF SetImplicitArena
<1> DEFINE frame == [f EXCEPT !.arena = d]
<1>4. /\ frame \in Frame /\ frame.task = t /\ frame.table = f.table /\ frame.args = f.args
      /\ frame.call = f.call /\ frame.arena = d
    <2> HIDE DEF f
    <2>1. frame \in Frame
        BY <1>2, FrameFields
    <2>2. QED
        BY <1>2, <2>1 DEF Frame
<1>5. d \in everHeld[t] \cup {NULL_GUID}
    BY <1>2, <1>3 DEF IInv, MemoryOK
<1>6. FrameOK(frame, holds[t], everHeld[t], place)
    <2> HIDE DEF frame, f, t
    <2>1. QED
        BY <1>2, <1>4, <1>5 DEF FrameOK
<1>7. MemoryOK' /\ Kept(t)
    BY <1>1, <1>2, MemoryUnchanged DEF IInv
<1>8. StackOK'
    <2> HIDE DEF frame
    <2>1. FrameOK(frame, holds'[frame.task], everHeld'[frame.task], place')
        BY <1>1, <1>4, <1>6
    <2>2. SetCurrent(w, frame)
        BY <1>3 DEF frame
    <2>3. QED
        BY <1>1, <1>4, <1>7, <2>1, <2>2, CurrentStep DEF IInv
<1>9. QED
    BY <1>1, <1>7, <1>8 DEF IInv, BlocksExist

\* A task ends.
LEMMA FinishTaskStep ==
    ASSUME IInv, NEW w \in Workers, FinishTask(w)
    PROVE  IInv'
<1> DEFINE t == Current(w).task
<1>1. /\ Running(w) /\ stack' = [stack EXCEPT ![w] = Tail(stack[w])]
      /\ SetHolds(t, {})
      /\ UNCHANGED << started, dbState, failure >>
    BY DEF FinishTask, PopTaskState
<1>2. stack[w] # << >> /\ t \in Tasks
    BY <1>1, RunningOK, CurrentOK DEF IInv
<1>3. MemoryOK' /\ Kept(t) /\ everHeld'[t] = everHeld[t] \cup {}
    <2> HIDE DEF t
    <2>1. QED
        BY <1>1, <1>2, SetHoldsKeeps DEF IInv
<1>4. BlocksExist'
    <2>1. dbState' \in [Dbs -> {"unborn", "live", "destroyed"}]
        BY <1>1 DEF IInv, BlocksExist
    <2>2. {} \in SUBSET Dbs /\ \A d \in {} : dbState'[d] # "unborn"
        OBVIOUS
    <2> HIDE DEF t
    <2>3. QED
        BY <1>1, <1>2, <1>3, <2>1, <2>2, BlocksStayInExistence DEF IInv
<1>5. StackOK'
    BY <1>1, <1>2, <1>3, PopStep DEF IInv
<1>6. QED
    BY <1>1, <1>3, <1>4, <1>5 DEF IInv

-----------------------------------------------------------------------------
(* The theorems                                                            *)

\* At the start no task has a state or holds a block.
LEMMA InitOK == Init => IInv
<1> SUFFICES ASSUME Init PROVE IInv
    OBVIOUS
<1>1. StackOK
    BY DEF Init, StackOK, FramesApart, FramesOK
<1>2. MemoryOK
    BY DEF Init, MemoryOK
<1>3. BlocksExist
    BY DEF Init, BlocksExist
<1>4. QED
    BY <1>1, <1>2, <1>3 DEF Init, IInv

\* Every step keeps the invariant.
LEMMA StepOK == IInv /\ [Next]_vars => IInv'
<1> SUFFICES ASSUME IInv, [Next]_vars PROVE IInv'
    OBVIOUS
<1>1. ASSUME NEW w \in Workers, NEW t \in Tasks, LaunchTask(w, t) PROVE IInv'
    BY <1>1, LaunchTaskStep
<1>2. ASSUME NEW w \in Workers, UnpackArg(w) PROVE IInv'
    BY <1>2, UnpackArgStep
<1>3. ASSUME NEW w \in Workers, BeginCreate(w) PROVE IInv'
    BY <1>3, BeginCreateStep
<1>4. ASSUME NEW w \in Workers, BeginRelease(w) PROVE IInv'
    BY <1>4, BeginReleaseStep
<1>5. ASSUME NEW w \in Workers, BeginDestroy(w) PROVE IInv'
    BY <1>5, BeginDestroyStep
<1>6. ASSUME NEW w \in Workers, EndCall(w) PROVE IInv'
    BY <1>6, EndCallStep
<1>7. ASSUME NEW w \in Workers, SetImplicitArena(w) PROVE IInv'
    BY <1>7, SetImplicitArenaStep
<1>8. ASSUME NEW w \in Workers, FinishTask(w) PROVE IInv'
    BY <1>8, FinishTaskStep
<1>9. CASE UNCHANGED vars
    BY <1>9 DEF vars, IInv, StackOK, MemoryOK, BlocksExist, FramesApart, FramesOK
<1>10. QED
    BY <1>1, <1>2, <1>3, <1>4, <1>5, <1>6, <1>7, <1>8, <1>9 DEF Next

\* The invariant holds in every state of the program.
THEOREM Invariance == Spec => []IInv
BY InitOK, StepOK, PTL DEF Spec

\* Every state on a chain is right.
LEMMA FramesAreOK ==
    ASSUME IInv, NEW f \in Frames
    PROVE  f \in Frame /\ f.task \in Tasks
           /\ FrameOK(f, holds[f.task], everHeld[f.task], place)
<1>1. PICK w \in Workers : \E i \in DOMAIN stack[w] : f = stack[w][i]
    BY DEF Frames
<1>2. PICK i \in DOMAIN stack[w] : f = stack[w][i]
    BY <1>1
<1>3. f \in Frame /\ FrameOK(f, holds[f.task], everHeld[f.task], place)
    BY <1>2 DEF IInv, StackOK, FramesOK
<1>4. QED
    BY <1>3, FrameFields

\* Type correctness, with the bound on the fixed arrays of AcquiredDbInfo.
THEOREM TypeCorrect == Spec => []TypeOK
<1>1. IInv => TypeOK
    <2> SUFFICES ASSUME IInv PROVE TypeOK
        OBVIOUS
    <2>1. \A f \in Frames : Len(f.table.byGuid) <= MaxDbs
        BY FramesAreOK DEF FrameOK
    <2>2. QED
        BY <2>1 DEF IInv, StackOK, MemoryOK, BlocksExist, TypeOK
<1>2. QED
    BY <1>1, Invariance, PTL

\* Sorting and searching agree: every table of every running task satisfies the
\* contract of AddDatablock, RemoveDatablock and the lookups, always.
THEOREM TablesStayCoherent == Spec => []TablesCoherent
<1>1. IInv => TablesCoherent
    BY FramesAreOK DEF TablesCoherent, FrameOK
<1>2. QED
    BY <1>1, Invariance, PTL

\* In the invariant, every block a task can use is in its table, where it lies now.
LEMMA UsableBlocksResolve == IInv => HeldBlocksResolve
<1> SUFFICES ASSUME IInv, NEW f \in Frames, NEW d \in Usable(f)
             PROVE  Tracks(f.table, d) /\ AddressForGuid(f.table, d) = place[d]
    BY DEF HeldBlocksResolve
<1>1. /\ f \in Frame /\ f.task \in Tasks /\ f.table \in Table
      /\ FrameOK(f, holds[f.task], everHeld[f.task], place)
    BY FramesAreOK, FrameFields
<1>2. d \in holds[f.task] /\ d \notin Range(f.args) /\ f.call # [op |-> "create", db |-> d]
    BY DEF Usable
<1>3. ~ (f.call.op = "create" /\ f.call.db = d)
    BY <1>1, <1>2 DEF Frame, Calls, NoCall
<1>4. InTable(d, f.table)
    BY <1>1, <1>2, <1>3 DEF FrameOK
<1>5. PICK e \in Range(f.table.byGuid) : e.guid = d
    BY <1>4 DEF InTable
<1>6. e.base = place[d]
    BY <1>1, <1>2, <1>5 DEF FrameOK, EntriesOK
<1>7. d \in Nat
    BY <1>1, <1>2, HeldAddress DEF IInv, Guid
<1>8. QED
    BY <1>1, <1>5, <1>6, <1>7, TracksMeans DEF FrameOK

\* AddressForGuid finds every block a task can use, where it lies now, whatever
\* other tasks, other threads and the runtime have done since it was acquired.
THEOREM LookupsResolve == Spec => []HeldBlocksResolve
BY UsableBlocksResolve, Invariance, PTL

\* No task sees a block, or an implicit arena, of a task that was shifted onto its
\* thread or that it was shifted onto.
THEOREM StatesAreIsolated == Spec => []TaskStatesIsolated
<1>1. IInv => TaskStatesIsolated
    BY FramesAreOK DEF TaskStatesIsolated, FrameOK, EntriesOK
<1>2. QED
    BY <1>1, Invariance, PTL

\* Neither assertion of RemoveDatablock can fail in a program that releases only
\* blocks it holds.
THEOREM ReleaseNeverFails == Spec => []NoReleaseAssertion
<1>1. IInv => NoReleaseAssertion
    BY DEF IInv, NoReleaseAssertion
<1>2. QED
    BY <1>1, Invariance, PTL

-----------------------------------------------------------------------------
(* The capacity of the table                                               *)

\* A task whose table refuses one more block has had more than MaxDbs blocks: the
\* entries of the table are of different blocks, and the new one is not among them.
LEMMA FullTableCounts ==
    ASSUME NEW tbl \in Table, Coherent(tbl), NEW E, IsFiniteSet(E),
           \A e \in Range(tbl.byGuid) : e.guid \in E,
           NEW d \in E, d \in Nat, NEW b, AddFails(tbl, d, b)
    PROVE  Cardinality(E) > MaxDbs
<1> DEFINE s == tbl.byGuid
           guids == [i \in 1 .. Len(s) |-> s[i].guid]
<1>1. s \in Seq(DbPair) /\ Len(s) \in Nat /\ DOMAIN s = 1 .. Len(s) /\ Len(s) >= MaxDbs
    BY DEF Table, AddFails
<1>2. \A i \in 1 .. Len(s) : s[i].guid \in E \ {d}
    <2>1. \A e \in Range(s) : e.guid # d
        BY TracksMeans DEF AddFails
    <2>2. QED
        BY <1>1, <2>1 DEF Range
<1>3. \A i, j \in 1 .. Len(s) : s[i].guid = s[j].guid => i = j
    BY <1>1 DEF Coherent
<1>4. guids \in Injection(1 .. Len(s), E \ {d})
    BY <1>2, <1>3 DEF Injection, IsInjective
<1>5. /\ IsFiniteSet(E \ {d})
      /\ Cardinality(E \ {d}) = Cardinality(E) - 1
      /\ Cardinality(E) \in Nat
    BY FS_RemoveElement, FS_CardinalityType
<1>6. Cardinality(1 .. Len(s)) = Len(s)
    BY <1>1, FS_Interval
<1>7. Cardinality(1 .. Len(s)) <= Cardinality(E \ {d})
    <2> HIDE DEF guids, s
    <2>1. QED
        BY <1>4, <1>5, FS_Injection
<1>8. QED
    BY <1>1, <1>5, <1>6, <1>7, MaxDbsAssumption

\* A task has held only finitely many blocks so far.
FiniteOK == \A t \in Tasks : IsFiniteSet(everHeld[t])

\* It still has when it has acquired finitely many more.
LEMMA StaysFinite ==
    ASSUME IInv, FiniteOK, NEW t \in Tasks, NEW D \in SUBSET Dbs, IsFiniteSet(D),
           SetHolds(t, D)
    PROVE  FiniteOK'
<1>1. /\ everHeld'[t] = everHeld[t] \cup D
      /\ \A u \in Tasks : u # t => everHeld'[u] = everHeld[u]
    BY SetHoldsKeeps DEF IInv, Kept
<1>2. IsFiniteSet(everHeld'[t])
    BY <1>1, FS_Union DEF FiniteOK
<1>3. QED
    BY <1>1, <1>2 DEF FiniteOK

\* The blocks a task holds are finitely many, also with one more or one less.
LEMMA HoldsFew ==
    ASSUME IInv, FiniteOK, NEW t \in Tasks, NEW d \in Dbs
    PROVE  /\ holds[t] \cup {d} \in SUBSET Dbs /\ IsFiniteSet(holds[t] \cup {d})
           /\ holds[t] \ {d} \in SUBSET Dbs /\ IsFiniteSet(holds[t] \ {d})
<1>1. holds[t] \in SUBSET Dbs /\ holds[t] \in SUBSET everHeld[t] /\ IsFiniteSet(everHeld[t])
    BY DEF IInv, MemoryOK, FiniteOK
<1>2. IsFiniteSet(holds[t])
    BY <1>1, FS_Subset
<1>3. QED
    BY <1>1, <1>2, FS_AddElement, FS_RemoveElement

\* Every step keeps that.
LEMMA FiniteStep ==
    ASSUME IInv, FiniteOK, [Next]_vars
    PROVE  FiniteOK'
<1>1. ASSUME NEW w \in Workers, NEW t \in Tasks, LaunchTask(w, t) PROVE FiniteOK'
    <2>1. PICK n \in 0 .. MaxDepc : \E depv \in [1 .. n -> Dbs \cup {NULL_GUID}] :
            SetHolds(t, Range(depv) \ {NULL_GUID})
        BY <1>1 DEF LaunchTask
    <2>2. PICK depv \in [1 .. n -> Dbs \cup {NULL_GUID}] : SetHolds(t, Range(depv) \ {NULL_GUID})
        BY <2>1
    <2>3. depv \in Surjection(1 .. n, Range(depv))
        BY DEF Surjection, Range
    <2>4. IsFiniteSet(1 .. n)
        BY TaskStateAssumption, FS_Interval
    <2>5. IsFiniteSet(Range(depv))
        BY <2>3, <2>4, FS_Surjection
    <2>6. IsFiniteSet(Range(depv) \ {NULL_GUID})
        BY <2>5, FS_RemoveElement
    <2>7. Range(depv) \ {NULL_GUID} \in SUBSET Dbs
        BY DEF Range
    <2>8. QED
        BY <2>2, <2>6, <2>7, StaysFinite
<1>2. ASSUME NEW w \in Workers, BeginCreate(w) \/ BeginRelease(w) \/ BeginDestroy(w)
      PROVE  FiniteOK'
    <2>1. Current(w).task \in Tasks
        BY <1>2, RunningOK, CurrentOK DEF BeginCreate, BeginRelease, BeginDestroy, IInv
    <2>2. holds[Current(w).task] \subseteq Dbs
        BY <2>1 DEF IInv, MemoryOK
    <2>3. CASE BeginCreate(w)
        BY <2>1, <2>3, HoldsFew, StaysFinite DEF BeginCreate
    <2>4. CASE BeginRelease(w)
        BY <2>1, <2>2, <2>4, HoldsFew, StaysFinite DEF BeginRelease
    <2>5. CASE BeginDestroy(w)
        BY <2>1, <2>5, HoldsFew, StaysFinite DEF BeginDestroy
    <2>6. QED
        BY <1>2, <2>3, <2>4, <2>5
<1>3. ASSUME NEW w \in Workers, FinishTask(w) PROVE FiniteOK'
    <2>1. Current(w).task \in Tasks
        BY <1>3, RunningOK, CurrentOK DEF FinishTask, IInv
    <2>2. QED
        BY <1>3, <2>1, FS_EmptySet, StaysFinite DEF FinishTask
<1>4. CASE UNCHANGED everHeld
    BY <1>4 DEF FiniteOK
<1>5. ASSUME NEW w \in Workers, UnpackArg(w) \/ EndCall(w) \/ SetImplicitArena(w)
      PROVE  UNCHANGED everHeld
    <2>1. CASE UnpackArg(w)
        BY <2>1 DEF UnpackArg, Fail
    <2>2. CASE EndCall(w)
        BY <2>2 DEF EndCall, Fail
    <2>3. CASE SetImplicitArena(w)
        BY <2>3 DEF SetImplicitArena
    <2>4. QED
        BY <1>5, <2>1, <2>2, <2>3
<1>6. QED
    BY <1>1, <1>2, <1>3, <1>4, <1>5 DEF Next, vars

\* The assertion of AddDatablock fails in a task that has had too many blocks.
LEMMA CapacityStep ==
    ASSUME IInv, FiniteOK, CapacityOnlyByOwnBlocks, [Next]_vars
    PROVE  CapacityOnlyByOwnBlocks'
<1> DEFINE TooMany(w) ==
               stack[w] # << >> /\ Cardinality(everHeld[Current(w).task]) > MaxDbs
<1>1. ASSUME NEW w \in Workers, stack[w] # << >>, NEW d \in holds[Current(w).task],
             AddFails(Current(w).table, d, AddressOf(d))
      PROVE  TooMany(w)
    <2> DEFINE f == Current(w)
               E == everHeld[f.task]
    <2>1. /\ f \in Frame /\ f.task \in Tasks /\ f.table \in Table
          /\ FrameOK(f, holds[f.task], E, place)
        BY <1>1, CurrentOK, FrameFields DEF IInv
    <2>2. Coherent(f.table) /\ \A e \in Range(f.table.byGuid) : e.guid \in E
        BY <2>1 DEF FrameOK, EntriesOK
    <2>3. IsFiniteSet(E) /\ d \in E
        BY <1>1, <2>1 DEF FiniteOK, IInv, MemoryOK
    <2>4. d \in Nat
        BY <1>1, <2>1, HeldAddress DEF IInv, Guid
    <2> HIDE DEF f, E
    <2>5. AddFails(f.table, d, AddressOf(d))
        BY <1>1 DEF f
    <2>6. Cardinality(E) > MaxDbs
        BY <2>1, <2>2, <2>3, <2>4, <2>5, FullTableCounts
    <2>7. QED
        BY <1>1, <2>6 DEF f, E
<1>2. ASSUME NEW w \in Workers, TooMany(w), UNCHANGED << stack, everHeld >>
      PROVE  CapacityOnlyByOwnBlocks'
    BY <1>2 DEF CapacityOnlyByOwnBlocks, Current
<1>3. ASSUME NEW w \in Workers, UnpackArg(w)
      PROVE  CapacityOnlyByOwnBlocks'
    <2>1. failure = "none" /\ stack[w] # << >>
        BY <1>3 DEF UnpackArg
    <2>2. CASE UNCHANGED failure
        BY <2>1, <2>2 DEF CapacityOnlyByOwnBlocks
    <2>3. CASE ~ UNCHANGED failure
        <3>1. PICK i \in DOMAIN Current(w).args :
                /\ AddFails(Current(w).table, Current(w).args[i], AddressOf(Current(w).args[i]))
                /\ Fail("capacity")
            BY <1>3, <2>3 DEF UnpackArg
        <3>2. Current(w).args[i] # NULL_GUID
            BY <3>1 DEF AddFails, AddressOf
        <3>3. Current(w).args[i] \in holds[Current(w).task]
            BY <2>1, <3>2, CurrentOK DEF IInv, FrameOK, Range
        <3>4. QED
            BY <1>1, <1>2, <2>1, <3>1, <3>3 DEF Fail
    <2>4. QED
        BY <2>2, <2>3
<1>4. ASSUME NEW w \in Workers, EndCall(w)
      PROVE  CapacityOnlyByOwnBlocks'
    <2>1. failure = "none" /\ stack[w] # << >>
        BY <1>4 DEF EndCall
    <2>2. CASE failure' # "capacity"
        BY <2>2 DEF CapacityOnlyByOwnBlocks
    <2>3. CASE failure' = "capacity"
        <3>1. /\ Current(w).call.op = "create"
              /\ AddFails(Current(w).table, Current(w).call.db, AddressOf(Current(w).call.db))
              /\ Fail("capacity")
            BY <1>4, <2>1, <2>3 DEF EndCall, Fail
        <3>2. Current(w).call.db \in holds[Current(w).task]
            BY <2>1, <3>1, CurrentOK DEF IInv, FrameOK
        <3>3. QED
            BY <1>1, <1>2, <2>1, <3>1, <3>2 DEF Fail
    <2>4. QED
        BY <2>2, <2>3
<1>5. ASSUME NEW w \in Workers,
             \/ \E t \in Tasks : LaunchTask(w, t)
             \/ BeginCreate(w) \/ BeginRelease(w) \/ BeginDestroy(w)
             \/ SetImplicitArena(w) \/ FinishTask(w)
      PROVE  CapacityOnlyByOwnBlocks'
    <2>1. failure' = "none"
        BY <1>5 DEF LaunchTask, BeginCreate, BeginRelease, BeginDestroy, SetImplicitArena,
                    FinishTask
    <2>2. QED
        BY <2>1 DEF CapacityOnlyByOwnBlocks
<1>6. CASE UNCHANGED vars
    BY <1>6 DEF vars, CapacityOnlyByOwnBlocks, Current
<1>7. QED
    BY <1>3, <1>4, <1>5, <1>6 DEF Next

\* The assertion of AddDatablock, "Acquired too many datablocks in one task", can
\* end the program only in a task that has acquired more than MaxDbs different
\* blocks: repeated and null arguments and the blocks of other tasks do not count.
THEOREM CapacityIsPerTask == Spec => []CapacityOnlyByOwnBlocks
<1>1. Init => FiniteOK /\ CapacityOnlyByOwnBlocks
    BY FS_EmptySet DEF Init, FiniteOK, CapacityOnlyByOwnBlocks
<1>2. IInv /\ FiniteOK /\ CapacityOnlyByOwnBlocks /\ [Next]_vars
        => (FiniteOK /\ CapacityOnlyByOwnBlocks)'
    BY FiniteStep, CapacityStep
<1>3. QED
    BY <1>1, <1>2, Invariance, PTL DEF Spec

=============================================================================
