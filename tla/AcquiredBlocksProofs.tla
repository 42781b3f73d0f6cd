------------------------- MODULE AcquiredBlocksProofs -------------------------
(***************************************************************************)
(* TaskState implements AcquiredBlocks: proofs, for all values of the      *)
(* constants.                                                              *)
(*                                                                         *)
(* By IInv of TaskStateProofs what tasks find in their tables is where the *)
(* runtime keeps the blocks, so the map of acquired blocks can be written  *)
(* without tables.  A step of a worker writes one state only, which is the *)
(* only one of its task; so all there is to show for an action is what it  *)
(* does to the blocks that one task can use.                               *)
(***************************************************************************)
EXTENDS TaskStateProofs

-----------------------------------------------------------------------------
(* The map of acquired blocks                                              *)

\* The blocks of Usable, of a state f whose task holds H.
UsableOf(f, H) ==
    { d \in H : d \notin Range(f.args) /\ f.call # [op |-> "create", db |-> d] }

Acquisition(t, d, a) == [task |-> t, db |-> d, at |-> a]

\* Acquired, by the runtime's memory and not by the tables.
AcquiredByPlace ==
    \A x : x \in Acquired <=>
        \E f \in Frames : \E d \in UsableOf(f, holds[f.task]) :
            x = Acquisition(f.task, d, place[d])

\* In the invariant, the tables and the memory agree.
LEMMA AddressesArePlaces == IInv => AcquiredByPlace
<1> SUFFICES ASSUME IInv PROVE AcquiredByPlace
    OBVIOUS
<1>1. \A f \in Frames : \A d \in Usable(f) : AddressForGuid(f.table, d) = place[d]
    BY UsableBlocksResolve DEF HeldBlocksResolve
<1>2. \A f : UsableOf(f, holds[f.task]) = Usable(f)
    BY DEF Usable, UsableOf
<1>3. \A x : x \in Acquired <=>
        \E f \in Frames : \E d \in Usable(f) :
            x = [task |-> f.task, db |-> d, at |-> AddressForGuid(f.table, d)]
    BY DEF Acquired
<1>4. QED
    BY <1>1, <1>2, <1>3 DEF AcquiredByPlace, Acquisition

\* Blocks that are held lie apart.
LEMMA PlacesStayApart ==
    Disjoint(place) /\ [Next]_vars => Disjoint(place')
<1> SUFFICES ASSUME Disjoint(place), [Next]_vars PROVE Disjoint(place')
    OBVIOUS
<1>1. ASSUME NEW t, NEW D, SetHolds(t, D) PROVE Disjoint(place')
    BY <1>1 DEF SetHolds, Placements
<1>2. CASE place' = place
    BY <1>2
<1>3. \/ \E t, D : SetHolds(t, D)
      \/ place' = place
    BY DEF Next, vars, LaunchTask, UnpackArg, BeginCreate, BeginRelease, BeginDestroy,
           EndCall, SetImplicitArena, FinishTask, Fail
<1>4. QED
    BY <1>1, <1>2, <1>3

-----------------------------------------------------------------------------
(* What a step does to the map                                             *)

\* The blocks of the other tasks stay as they are.
LEMMA OthersKeepTheirs ==
    ASSUME StackOK, AcquiredByPlace, AcquiredByPlace', NEW t, Kept(t),
           \A f : f.task # t => (f \in Frames' <=> f \in Frames)
    PROVE  \A x : x.task # t => (x \in Acquired' <=> x \in Acquired)
<1>1. \A f \in Frames : f.task \in Tasks
    <2>1. \A v \in Workers : \A i \in DOMAIN stack[v] : stack[v][i] \in Frame
        BY DEF StackOK
    <2>2. \A f \in Frames : f \in Frame
        BY <2>1 DEF Frames
    <2>3. QED
        BY <2>2, FrameFields
<1>2. \A u, d, a : Acquisition(u, d, a).task = u
    BY DEF Acquisition
<1>3. \A x : x \in Acquired <=>
        \E f \in Frames : \E d \in UsableOf(f, holds[f.task]) : x = Acquisition(f.task, d, place[d])
    BY DEF AcquiredByPlace
<1>4. \A x : x \in Acquired' <=>
        \E f \in Frames' : \E d \in UsableOf(f, holds'[f.task]) : x = Acquisition(f.task, d, place'[d])
    BY DEF AcquiredByPlace
<1>5. \A f \in Frames : f.task # t => holds'[f.task] = holds[f.task]
    BY <1>1 DEF Kept
<1>6. \A f \in Frames : f.task # t =>
        \A d \in UsableOf(f, holds[f.task]) : place'[d] = place[d]
    BY <1>1, <1>5 DEF Kept, UsableOf
<1>7. ASSUME NEW x, x.task # t, x \in Acquired'
      PROVE  x \in Acquired
    <2>1. PICK f \in Frames' : \E d \in UsableOf(f, holds'[f.task]) :
            x = Acquisition(f.task, d, place'[d])
        BY <1>4, <1>7
    <2>2. f \in Frames /\ f.task # t
        BY <1>2, <1>7, <2>1
    <2>3. QED
        BY <1>3, <1>5, <1>6, <2>1, <2>2
<1>8. ASSUME NEW x, x.task # t, x \in Acquired
      PROVE  x \in Acquired'
    <2>1. PICK f \in Frames : \E d \in UsableOf(f, holds[f.task]) :
            x = Acquisition(f.task, d, place[d])
        BY <1>3, <1>8
    <2>2. f.task # t
        BY <1>2, <1>8, <2>1
    <2>3. QED
        BY <1>4, <1>5, <1>6, <2>1, <2>2
<1>9. QED
    BY <1>7, <1>8

\* The states after the current one of w has been written.
LEMMA WrittenFrames ==
    ASSUME StackOK, NEW w \in Workers, stack[w] # << >>,
           NEW frame \in Frame, frame.task = Current(w).task, SetCurrent(w, frame)
    PROVE  \A f : f \in Frames' <=> f = frame \/ (f \in Frames /\ f.task # frame.task)
<1>1. /\ stack \in [Workers -> Seq(Frame)]
      /\ 1 \in DOMAIN stack[w] /\ Current(w) = stack[w][1]
    BY DEF StackOK, Current
<1>2. \A v \in Workers :
        /\ DOMAIN stack'[v] = DOMAIN stack[v]
        /\ \A i \in DOMAIN stack[v] :
             stack'[v][i] = IF v = w /\ i = 1 THEN frame ELSE stack[v][i]
    BY <1>1, WritingCurrent
<1>3. \A v \in Workers : \A i \in DOMAIN stack[v] :
        stack[v][i].task = frame.task <=> v = w /\ i = 1
    BY <1>1 DEF StackOK, FramesApart
<1>4. /\ \A f : f \in Frames <=> \E v \in Workers : \E i \in DOMAIN stack[v] : f = stack[v][i]
      /\ \A f : f \in Frames' <=> \E v \in Workers : \E i \in DOMAIN stack'[v] : f = stack'[v][i]
    BY DEF Frames
<1>5. QED
    BY SMTT(30), <1>1, <1>2, <1>3, <1>4

\* The map before and after a step that writes the current state of w.
LEMMA CurrentMap ==
    ASSUME StackOK, AcquiredByPlace, AcquiredByPlace', NEW w \in Workers, stack[w] # << >>,
           NEW frame \in Frame, frame.task = Current(w).task, SetCurrent(w, frame),
           Kept(frame.task)
    PROVE  LET t == frame.task
           IN  /\ \A x : x \in Acquired /\ x.task = t <=>
                    \E d \in UsableOf(Current(w), holds[t]) : x = Acquisition(t, d, place[d])
               /\ \A x : x \in Acquired' /\ x.task = t <=>
                    \E d \in UsableOf(frame, holds'[t]) : x = Acquisition(t, d, place'[d])
               /\ \A x : x.task # t => (x \in Acquired' <=> x \in Acquired)
<1> DEFINE t == frame.task
<1>1. \A f : f \in Frames' <=> f = frame \/ (f \in Frames /\ f.task # t)
    BY WrittenFrames
<1>2. Current(w) \in Frames /\ \A f \in Frames : f.task = t <=> f = Current(w)
    BY DEF StackOK, FramesApart, Frames, Current
<1>3. \A u, d, a : Acquisition(u, d, a).task = u
    BY DEF Acquisition
<1>4. \A x : x \in Acquired <=>
        \E f \in Frames : \E d \in UsableOf(f, holds[f.task]) : x = Acquisition(f.task, d, place[d])
    BY DEF AcquiredByPlace
<1>5. \A x : x \in Acquired' <=>
        \E f \in Frames' : \E d \in UsableOf(f, holds'[f.task]) : x = Acquisition(f.task, d, place'[d])
    BY DEF AcquiredByPlace
<1>6. \A x : x.task # t => (x \in Acquired' <=> x \in Acquired)
    BY <1>1, OthersKeepTheirs
<1> HIDE DEF t
<1>7. ASSUME NEW x
      PROVE  x \in Acquired /\ x.task = t <=>
                \E d \in UsableOf(Current(w), holds[t]) : x = Acquisition(t, d, place[d])
    <2>1. Current(w).task = t
        BY <1>2
    <2>2. ASSUME x \in Acquired, x.task = t
          PROVE  \E d \in UsableOf(Current(w), holds[t]) : x = Acquisition(t, d, place[d])
        <3>1. PICK f \in Frames : \E d \in UsableOf(f, holds[f.task]) :
                x = Acquisition(f.task, d, place[d])
            BY <1>4, <2>2
        <3>2. f = Current(w)
            BY <1>2, <1>3, <2>2, <3>1
        <3>3. QED
            BY <2>1, <3>1, <3>2
    <2>3. ASSUME NEW d \in UsableOf(Current(w), holds[t]), x = Acquisition(t, d, place[d])
          PROVE  x \in Acquired /\ x.task = t
        BY <1>2, <1>3, <1>4, <2>1, <2>3
    <2>4. QED
        BY <2>2, <2>3
<1>8. ASSUME NEW x
      PROVE  x \in Acquired' /\ x.task = t <=>
               \E d \in UsableOf(frame, holds'[t]) : x = Acquisition(t, d, place'[d])
    <2>1. frame.task = t
        BY DEF t
    <2>2. ASSUME x \in Acquired', x.task = t
          PROVE  \E d \in UsableOf(frame, holds'[t]) : x = Acquisition(t, d, place'[d])
        <3>1. PICK f \in Frames' : \E d \in UsableOf(f, holds'[f.task]) :
                x = Acquisition(f.task, d, place'[d])
            BY <1>5, <2>2
        <3>2. f = frame
            BY <1>1, <1>3, <2>2, <3>1
        <3>3. QED
            BY <2>1, <3>1, <3>2
    <2>3. ASSUME NEW d \in UsableOf(frame, holds'[t]), x = Acquisition(t, d, place'[d])
          PROVE  x \in Acquired' /\ x.task = t
        BY <1>1, <1>3, <1>5, <2>1, <2>3
    <2>4. QED
        BY <2>2, <2>3
<1>9. QED
    BY <1>6, <1>7, <1>8 DEF t

\* A step of the current task of w after which it can use d as well implements
\* Acquire; or it changes nothing.
LEMMA AcquireStep ==
    ASSUME IInv, IInv', Disjoint(place'), AcquiredByPlace, AcquiredByPlace',
           NEW w \in Workers, stack[w] # << >>,
           NEW frame \in Frame, frame.task = Current(w).task, SetCurrent(w, frame),
           Kept(frame.task), NEW d,
           UsableOf(Current(w), holds[frame.task]) \subseteq UsableOf(frame, holds'[frame.task]),
           UsableOf(frame, holds'[frame.task])
               \subseteq UsableOf(Current(w), holds[frame.task]) \cup {d}
    PROVE  Abstract!Next \/ Acquired' = Acquired
<1> DEFINE t == frame.task
           U == UsableOf(Current(w), holds[t])
           V == UsableOf(frame, holds'[t])
<1>1. /\ \A x : x \in Acquired /\ x.task = t <=> \E e \in U : x = Acquisition(t, e, place[e])
      /\ \A x : x \in Acquired' /\ x.task = t <=> \E e \in V : x = Acquisition(t, e, place'[e])
      /\ \A x : x.task # t => (x \in Acquired' <=> x \in Acquired)
    BY CurrentMap DEF IInv
<1>2. t \in Tasks /\ U \subseteq holds[t] /\ V \subseteq holds'[t] /\ U \subseteq V /\ V \subseteq U \cup {d}
    BY FrameFields DEF UsableOf
<1>3. \A e \in U : place'[e] = place[e]
    BY <1>2 DEF Kept
<1>4. \A u, e, a : LET x == Acquisition(u, e, a) IN x.task = u /\ x.db = e /\ x.at = a
    BY DEF Acquisition
<1>5. CASE d \notin V \/ d \in U
    <2>1. U = V
        BY <1>2, <1>5
    <2> HIDE DEF t, U, V
    <2>2. \A x : x \in Acquired' <=> x \in Acquired
        BY <1>1, <1>3, <2>1
    <2>3. QED
        BY <2>2
<1>6. CASE d \in V /\ d \notin U
    <2>1. /\ d \in Dbs /\ place'[d] \in Bases /\ place'[d] # NullPtr
        BY <1>2, <1>6 DEF IInv, MemoryOK
    <2>2. ASSUME NEW x \in Acquired
          PROVE  Abstract!Compatible(d, place'[d], x) /\ ~ (x.task = t /\ x.db = d)
        <3>1. PICK f \in Frames : \E e \in UsableOf(f, holds[f.task]) :
                x = Acquisition(f.task, e, place[e])
            BY DEF AcquiredByPlace
        <3>2. PICK e \in UsableOf(f, holds[f.task]) : x = Acquisition(f.task, e, place[e])
            BY <3>1
        <3>3. f.task \in Tasks /\ e \in holds[f.task]
            BY <3>2, FramesAreOK DEF UsableOf
        <3>4. ~ (x.task = t /\ x.db = d)
            BY <1>1, <1>4, <1>6
        <3>5. e \in holds'[f.task]
            <4>1. CASE f.task # t
                BY <3>3, <4>1 DEF Kept
            <4>2. CASE f.task = t
                <5>1. PICK c \in U : x = Acquisition(t, c, place[c])
                    BY <1>1, <1>4, <3>2, <4>2
                <5>2. x.db = c
                    BY <1>4, <5>1
                <5>3. x.db = e
                    BY <1>4, <3>2
                <5>4. QED
                    BY <1>2, <4>2, <5>2, <5>3
            <4>3. QED
                BY <4>1, <4>2
        <3>6. /\ place'[e] = place[e] /\ e \in Dbs /\ place'[e] # NullPtr
            BY <3>3, <3>5 DEF Kept, IInv, MemoryOK
        <3>7. x.db = e /\ x.at = place'[e]
            BY <1>4, <3>2, <3>6
        <3>8. e # d => \/ place'[d] + DbSize <= place'[e]
                       \/ place'[e] + DbSize <= place'[d]
            BY <2>1, <3>6 DEF Disjoint
        <3>9. QED
            BY <3>4, <3>7, <3>8 DEF Abstract!Compatible
    <2>3. \A e \in V : e # d => e \in U
        BY <1>2
    <2> HIDE DEF t, U, V
    <2>4. \A x : x \in Acquired' <=> x \in Acquired \cup {Acquisition(t, d, place'[d])}
        BY <1>1, <1>2, <1>3, <1>4, <1>6, <2>3
    <2>5. Abstract!Acquire(t, d, place'[d])
        BY <2>2, <2>4 DEF Abstract!Acquire, Acquisition
    <2>6. QED
        BY <1>2, <2>1, <2>5 DEF Abstract!Next
<1>7. QED
    BY <1>5, <1>6

\* One after which it cannot use d any more implements Release; or it changes
\* nothing.
LEMMA ReleaseStep ==
    ASSUME IInv, IInv', AcquiredByPlace, AcquiredByPlace',
           NEW w \in Workers, stack[w] # << >>,
           NEW frame \in Frame, frame.task = Current(w).task, SetCurrent(w, frame),
           Kept(frame.task), NEW d \in Dbs,
           UsableOf(frame, holds'[frame.task]) \subseteq UsableOf(Current(w), holds[frame.task]),
           UsableOf(Current(w), holds[frame.task])
               \subseteq UsableOf(frame, holds'[frame.task]) \cup {d}
    PROVE  Abstract!Next \/ Acquired' = Acquired
<1> DEFINE t == frame.task
           U == UsableOf(Current(w), holds[t])
           V == UsableOf(frame, holds'[t])
<1>1. /\ \A x : x \in Acquired /\ x.task = t <=> \E e \in U : x = Acquisition(t, e, place[e])
      /\ \A x : x \in Acquired' /\ x.task = t <=> \E e \in V : x = Acquisition(t, e, place'[e])
      /\ \A x : x.task # t => (x \in Acquired' <=> x \in Acquired)
    BY CurrentMap DEF IInv
<1>2. t \in Tasks /\ U \subseteq holds[t] /\ V \subseteq holds'[t] /\ V \subseteq U /\ U \subseteq V \cup {d}
    BY FrameFields DEF UsableOf
<1>3. \A e \in V : place'[e] = place[e]
    BY <1>2 DEF Kept
<1>4. \A u, e, a : LET x == Acquisition(u, e, a) IN x.task = u /\ x.db = e /\ x.at = a
    BY DEF Acquisition
<1> HIDE DEF t, U, V
<1>5. CASE d \in V
    <2>1. U = V
        BY <1>2, <1>5
    <2>2. \A x : x \in Acquired' <=> x \in Acquired
        BY <1>1, <1>3, <2>1
    <2>3. QED
        BY <2>2
<1>6. CASE d \notin V
    <2>1. \A e : e \in V <=> e \in U /\ e # d
        BY <1>2, <1>6
    <2>2. \A x : x \in Acquired' <=> x \in Acquired /\ ~ (x.task = t /\ x.db = d)
        BY <1>1, <1>3, <1>4, <2>1
    <2>3. Abstract!Release(t, d)
        BY <2>2 DEF Abstract!Release
    <2>4. QED
        BY <1>2, <2>3 DEF Abstract!Next
<1>7. QED
    BY <1>5, <1>6

-----------------------------------------------------------------------------
(* The steps                                                               *)

\* A step in which nothing of this changes.
LEMMA NothingAcquired ==
    ASSUME UNCHANGED << stack, holds >>
    PROVE  Acquired' = Acquired
BY DEF Acquired, Frames, Usable

\* A task starts with all its arguments still to be constructed.
LEMMA LaunchTaskAcquires ==
    ASSUME IInv, AcquiredByPlace, AcquiredByPlace',
           NEW w \in Workers, NEW t \in Tasks, LaunchTask(w, t)
    PROVE  Acquired' = Acquired
<1>1. PICK n \in 0 .. MaxDepc : \E depv \in [1 .. n -> Dbs \cup {NULL_GUID}] :
        /\ stack' = [stack EXCEPT ![w] = PushTaskState(stack[w], t, depv)]
        /\ SetHolds(t, Range(depv) \ {NULL_GUID})
    BY DEF LaunchTask
<1>2. PICK depv \in [1 .. n -> Dbs \cup {NULL_GUID}] :
        /\ stack' = [stack EXCEPT ![w] = PushTaskState(stack[w], t, depv)]
        /\ SetHolds(t, Range(depv) \ {NULL_GUID})
    BY <1>1
<1> DEFINE D == Range(depv) \ {NULL_GUID}
           frame == [task |-> t, args |-> depv, call |-> NoCall,
                     table |-> EmptyTable, arena |-> NULL_GUID]
<1>3. D \in SUBSET Dbs
    BY <1>2 DEF Range
<1>4. Kept(t) /\ holds'[t] = D
    <2> HIDE DEF D
    <2>1. SetHolds(t, D)
        BY <1>2 DEF D
    <2>2. QED
        BY <1>3, <2>1, SetHoldsKeeps DEF IInv
<1>5. UsableOf(frame, D) = {} /\ frame.task = t
    BY DEF UsableOf
<1>6. \A f : f \in Frames' <=> f = frame \/ f \in Frames
    <2>1. stack' = [stack EXCEPT ![w] = << frame >> \o stack[w]]
        BY <1>2 DEF PushTaskState
    <2>2. stack \in [Workers -> Seq(Frame)]
        BY DEF IInv, StackOK
    <2> HIDE DEF frame
    <2>3. \A v \in Workers : v # w => stack'[v] = stack[v]
        BY <2>1, <2>2
    <2>4. /\ stack'[w] = << frame >> \o stack[w]
          /\ Len(stack[w]) \in Nat /\ DOMAIN stack[w] = 1 .. Len(stack[w])
        BY <2>1, <2>2
    <2>5. /\ DOMAIN stack'[w] = 1 .. Len(stack[w]) + 1
          /\ \A i \in 1 .. Len(stack[w]) + 1 :
               stack'[w][i] = IF i = 1 THEN frame ELSE stack[w][i - 1]
        BY <2>2, <2>4
    <2>6. ASSUME NEW f, f \in Frames' PROVE f = frame \/ f \in Frames
        <3>1. PICK v \in Workers : \E i \in DOMAIN stack'[v] : f = stack'[v][i]
            BY <2>6 DEF Frames
        <3>2. CASE v # w
            BY <2>3, <3>1, <3>2 DEF Frames
        <3>3. CASE v = w
            <4>1. PICK i \in 1 .. Len(stack[w]) + 1 : f = IF i = 1 THEN frame ELSE stack[w][i - 1]
                BY <2>5, <3>1, <3>3
            <4>2. i # 1 => i - 1 \in DOMAIN stack[w]
                BY <2>4, <4>1
            <4>3. QED
                BY <4>1, <4>2 DEF Frames
        <3>4. QED
            BY <3>2, <3>3
    <2>7. frame \in Frames'
        <3>1. 1 \in DOMAIN stack'[w] /\ stack'[w][1] = frame
            BY <2>4, <2>5
        <3>2. QED
            BY <3>1 DEF Frames
    <2>8. ASSUME NEW f \in Frames PROVE f \in Frames'
        <3>1. PICK v \in Workers : \E i \in DOMAIN stack[v] : f = stack[v][i]
            BY DEF Frames
        <3>2. CASE v # w
            BY <2>3, <3>1, <3>2 DEF Frames
        <3>3. CASE v = w
            <4>1. PICK i \in DOMAIN stack[w] : f = stack[w][i]
                BY <3>1, <3>3
            <4>2. i + 1 \in DOMAIN stack'[w] /\ stack'[w][i + 1] = f
                BY <2>4, <2>5, <4>1
            <4>3. QED
                BY <4>2 DEF Frames
        <3>4. QED
            BY <3>2, <3>3
    <2>9. QED
        BY <2>6, <2>7, <2>8
<1> HIDE DEF frame, D
<1>7. \A f \in Frames : f.task # t
    <2>1. t \notin started
        BY DEF LaunchTask
    <2>2. QED
        BY <2>1 DEF Frames, IInv, StackOK, FramesOK
<1>8. \A x : x.task # t => (x \in Acquired' <=> x \in Acquired)
    BY <1>4, <1>5, <1>6, OthersKeepTheirs DEF IInv
<1>9. \A u, d, a : Acquisition(u, d, a).task = u
    BY DEF Acquisition
<1>10. \A x \in Acquired : x.task # t
    BY <1>7, <1>9 DEF AcquiredByPlace
<1>11. \A x \in Acquired' : x.task # t
    <2>1. ASSUME NEW x \in Acquired' PROVE x.task # t
        <3>1. PICK f \in Frames' : \E d \in UsableOf(f, holds'[f.task]) :
                x = Acquisition(f.task, d, place'[d])
            BY DEF AcquiredByPlace
        <3>2. f # frame
            BY <1>4, <1>5, <3>1
        <3>3. QED
            BY <1>6, <1>7, <1>9, <3>1, <3>2
    <2>2. QED
        BY <2>1
<1>12. \A x : x \in Acquired' <=> x \in Acquired
    BY <1>8, <1>10, <1>11
<1>13. QED
    BY <1>12

\* What SetCurrent writes is a state, if the invariant holds after it.
LEMMA WrittenIsFrame ==
    ASSUME StackOK, StackOK', NEW w \in Workers, stack[w] # << >>,
           NEW frame, SetCurrent(w, frame)
    PROVE  frame \in Frame
<1>1. stack \in [Workers -> Seq(Frame)] /\ stack' \in [Workers -> Seq(Frame)]
    BY DEF StackOK
<1>2. stack' = [stack EXCEPT ![w] = [stack[w] EXCEPT ![1] = frame]]
    BY DEF SetCurrent
<1>3. 1 \in DOMAIN stack[w] /\ stack'[w] = [stack[w] EXCEPT ![1] = frame]
    BY <1>1, <1>2
<1>4. 1 \in DOMAIN stack'[w] /\ stack'[w][1] = frame
    BY <1>1, <1>3
<1>5. QED
    BY <1>1, <1>4

\* The current task constructs an argument: it can use this one now.
LEMMA UnpackArgAcquires ==
    ASSUME IInv, IInv', Disjoint(place'), AcquiredByPlace, AcquiredByPlace',
           NEW w \in Workers, UnpackArg(w)
    PROVE  Abstract!Next \/ Acquired' = Acquired
<1> DEFINE f == Current(w)
<1>1. stack[w] # << >>
    BY DEF UnpackArg
<1>2. PICK i \in DOMAIN f.args :
        LET d == f.args[i]
        IN  IF AddFails(f.table, d, AddressOf(d))
            THEN Fail("capacity")
            ELSE /\ \E tbl \in AddDatablock(f.table, d, AddressOf(d)) :
                        SetCurrent(w, [f EXCEPT !.table = tbl,
                                                !.args = [j \in DOMAIN @ \ {i} |-> @[j]]])
                 /\ UNCHANGED << started, dbState, holds, everHeld, place, failure >>
    BY DEF UnpackArg
<1> DEFINE d == f.args[i]
<1>3. CASE AddFails(f.table, d, AddressOf(d))
    BY <1>2, <1>3, NothingAcquired DEF Fail
<1>4. CASE ~ AddFails(f.table, d, AddressOf(d))
    <2>1. PICK tbl :
            /\ SetCurrent(w, [f EXCEPT !.table = tbl,
                                       !.args = [j \in DOMAIN @ \ {i} |-> @[j]]])
            /\ UNCHANGED << started, dbState, holds, everHeld, place, failure >>
        BY <1>2, <1>4
    <2> DEFINE args == [j \in DOMAIN f.args \ {i} |-> f.args[j]]
               frame == [f EXCEPT !.table = tbl, !.args = args]
    <2>2. SetCurrent(w, frame)
        BY <2>1
    <2>3. f \in Frame
        BY <1>1, CurrentOK DEF IInv
    <2>4. frame.task = f.task /\ frame.call = f.call /\ frame.args = args
        BY <2>3 DEF Frame
    <2>5. Range(args) \subseteq Range(f.args) /\ Range(f.args) \subseteq Range(args) \cup {d}
        BY DEF Range
    <2>6. holds' = holds /\ Kept(f.task)
        <3>1. f.task \in Tasks
            BY <2>3, FrameFields
        <3>2. QED
            BY <2>1, <3>1, MemoryUnchanged DEF IInv
    <2> HIDE DEF args, frame
    <2>7. frame \in Frame
        BY <1>1, <2>2, WrittenIsFrame DEF IInv
    <2>8. /\ UsableOf(f, holds[f.task]) \subseteq UsableOf(frame, holds[f.task])
          /\ UsableOf(frame, holds[f.task]) \subseteq UsableOf(f, holds[f.task]) \cup {d}
        BY <2>4, <2>5 DEF UsableOf
    <2>9. QED
        BY <1>1, <2>2, <2>4, <2>6, <2>7, <2>8, AcquireStep
<1>5. QED
    BY <1>3, <1>4

\* The current task enters a call and holds the blocks D now: all it held, without
\* d, and it cannot use what the call creates.
LEMMA BeginCallReleases ==
    ASSUME IInv, IInv', AcquiredByPlace, AcquiredByPlace', NEW w \in Workers, Running(w),
           NEW D \in SUBSET Dbs, SetHolds(Current(w).task, D),
           NEW op, NEW d \in Dbs, BeginCall(w, op, d),
           D \ {d} = holds[Current(w).task] \ {d},
           d \in D => op = "create" /\ d \notin holds[Current(w).task]
    PROVE  Abstract!Next \/ Acquired' = Acquired
<1> DEFINE f == Current(w)
           H == holds[f.task]
           frame == [f EXCEPT !.call = [op |-> op, db |-> d]]
<1>1. stack[w] # << >> /\ f.args = << >> /\ f.call = NoCall
    BY DEF Running
<1>2. f \in Frame /\ f.task \in Tasks
    BY <1>1, CurrentOK DEF IInv
<1>3. /\ SetCurrent(w, frame)
      /\ frame.task = f.task /\ frame.args = << >> /\ frame.call = [op |-> op, db |-> d]
    BY <1>1, <1>2 DEF BeginCall, Frame
<1>4. Kept(f.task) /\ holds'[f.task] = D
    BY <1>2, SetHoldsKeeps DEF IInv
<1> HIDE DEF frame
<1>5. frame \in Frame
    BY <1>1, <1>3, WrittenIsFrame DEF IInv
<1>6. Range(<< >>) = {}
    BY DEF Range
<1>7. UsableOf(f, H) = H
    <2>1. \A x : NoCall # [op |-> "create", db |-> x]
        BY DEF NoCall
    <2>2. QED
        BY <1>1, <1>6, <2>1 DEF UsableOf
<1>8. UsableOf(frame, D) = H \ {d}
    <2>1. UsableOf(frame, D) = { x \in D : [op |-> op, db |-> d] # [op |-> "create", db |-> x] }
        BY <1>3, <1>6 DEF UsableOf
    <2>2. \A x : [op |-> op, db |-> d] = [op |-> "create", db |-> x] <=> op = "create" /\ x = d
        OBVIOUS
    <2>3. QED
        BY <2>1, <2>2
<1>9. UsableOf(frame, D) \subseteq UsableOf(f, H) /\ UsableOf(f, H) \subseteq UsableOf(frame, D) \cup {d}
    BY <1>7, <1>8
<1>10. QED
    BY <1>1, <1>3, <1>4, <1>5, <1>9, ReleaseStep

\* A call returns, and the current task's table is the only one that is written: the
\* task can use what the call has created.
LEMMA ReturnAcquires ==
    ASSUME IInv, IInv', Disjoint(place'), AcquiredByPlace, AcquiredByPlace',
           NEW w \in Workers, stack[w] # << >>, NEW tbl,
           SetCurrent(w, [Current(w) EXCEPT !.table = tbl, !.call = NoCall]),
           UNCHANGED << holds, everHeld, place >>
    PROVE  Abstract!Next \/ Acquired' = Acquired
<1> DEFINE f == Current(w)
           frame == [f EXCEPT !.table = tbl, !.call = NoCall]
<1>1. f \in Frame /\ f.task \in Tasks
    BY CurrentOK DEF IInv
<1>2. frame.task = f.task /\ frame.args = f.args /\ frame.call = NoCall
    BY <1>1 DEF Frame
<1>3. SetCurrent(w, frame) /\ Kept(f.task)
    BY <1>1, MemoryUnchanged DEF IInv
<1> HIDE DEF frame
<1>4. frame \in Frame
    BY <1>3, WrittenIsFrame DEF IInv
<1>5. \A x : NoCall # [op |-> "create", db |-> x]
    BY DEF NoCall
<1>6. UsableOf(f, holds[f.task]) \subseteq UsableOf(frame, holds[f.task])
    BY <1>2, <1>5 DEF UsableOf
<1>7. UsableOf(frame, holds[f.task]) \subseteq UsableOf(f, holds[f.task]) \cup {f.call.db}
    BY <1>2 DEF UsableOf
<1>8. QED
    BY <1>2, <1>3, <1>4, <1>6, <1>7, AcquireStep

\* An OCR call returns: a created block is acquired, and nothing else changes.
LEMMA EndCallAcquires ==
    ASSUME IInv, IInv', Disjoint(place'), AcquiredByPlace, AcquiredByPlace',
           NEW w \in Workers, EndCall(w)
    PROVE  Abstract!Next \/ Acquired' = Acquired
<1> DEFINE Returns(tbl) ==
             /\ SetCurrent(w, [Current(w) EXCEPT !.table = tbl, !.call = NoCall])
             /\ UNCHANGED << started, dbState, holds, everHeld, place, failure >>
<1>1. stack[w] # << >>
    BY DEF EndCall
<1>2. (\E tbl : Returns(tbl)) \/ (\E a : Fail(a))
    BY DEF EndCall
<1>3. ASSUME NEW tbl, Returns(tbl) PROVE Abstract!Next \/ Acquired' = Acquired
    BY <1>1, <1>3, ReturnAcquires
<1>4. ASSUME NEW a, Fail(a) PROVE Acquired' = Acquired
    BY <1>4, NothingAcquired DEF Fail
<1>5. QED
    BY <1>2, <1>3, <1>4

\* The implicit arena is set.
LEMMA SetImplicitArenaAcquires ==
    ASSUME IInv, IInv', Disjoint(place'), AcquiredByPlace, AcquiredByPlace',
           NEW w \in Workers, SetImplicitArena(w)
    PROVE  Abstract!Next \/ Acquired' = Acquired
<1> DEFINE f == Current(w)
<1>1. stack[w] # << >>
    BY DEF SetImplicitArena, Running
<1>2. PICK d : SetCurrent(w, [f EXCEPT !.arena = d])
    BY DEF SetImplicitArena
<1>3. UNCHANGED << holds, everHeld, place >>
    BY DEF SetImplicitArena
<1> DEFINE frame == [f EXCEPT !.arena = d]
<1>4. f \in Frame /\ f.task \in Tasks
    BY <1>1, CurrentOK DEF IInv
<1>5. frame.task = f.task /\ frame.args = f.args /\ frame.call = f.call
    BY <1>4 DEF Frame
<1>6. SetCurrent(w, frame) /\ Kept(f.task)
    BY <1>2, <1>3, <1>4, MemoryUnchanged DEF IInv
<1> HIDE DEF frame
<1>7. frame \in Frame
    BY <1>1, <1>6, WrittenIsFrame DEF IInv
<1>8. UsableOf(frame, holds[f.task]) = UsableOf(f, holds[f.task])
    BY <1>5 DEF UsableOf
<1>9. QED
    BY <1>1, <1>3, <1>5, <1>6, <1>7, <1>8, AcquireStep

\* A task ends: with its state its blocks are gone.
LEMMA FinishTaskLeaves ==
    ASSUME IInv, AcquiredByPlace, AcquiredByPlace', NEW w \in Workers, FinishTask(w)
    PROVE  Abstract!Next
<1> DEFINE t == Current(w).task
<1>1. /\ stack[w] # << >> /\ stack' = [stack EXCEPT ![w] = Tail(stack[w])]
      /\ SetHolds(t, {})
    BY DEF FinishTask, PopTaskState, Running
<1>2. t \in Tasks
    BY <1>1, CurrentOK DEF IInv
<1>3. Kept(t)
    <2> HIDE DEF t
    <2>1. QED
        BY <1>1, <1>2, SetHoldsKeeps DEF IInv
<1>4. \A f : f \in Frames' <=> f \in Frames /\ f.task # t
    <2>1. stack \in [Workers -> Seq(Frame)]
        BY DEF IInv, StackOK
    <2>2. /\ 1 \in DOMAIN stack[w] /\ t = stack[w][1].task
          /\ Len(stack[w]) \in Nat /\ DOMAIN stack[w] = 1 .. Len(stack[w])
        BY <1>1, <2>1 DEF Current
    <2>3. \A v \in Workers : \A i \in DOMAIN stack[v] :
            stack[v][i].task = t <=> v = w /\ i = 1
        BY <2>2 DEF IInv, StackOK, FramesApart
    <2> HIDE DEF t
    <2>4. /\ \A v \in Workers : v # w => stack'[v] = stack[v]
          /\ stack'[w] = Tail(stack[w])
        BY <1>1, <2>1
    <2>5. /\ DOMAIN stack'[w] = 1 .. Len(stack[w]) - 1
          /\ \A i \in 1 .. Len(stack[w]) - 1 : stack'[w][i] = stack[w][i + 1]
        BY <1>1, <2>1, <2>2, <2>4
    <2>6. ASSUME NEW f \in Frames' PROVE f \in Frames /\ f.task # t
        <3>1. PICK v \in Workers : \E i \in DOMAIN stack'[v] : f = stack'[v][i]
            BY DEF Frames
        <3>2. CASE v # w
            BY <2>3, <2>4, <3>1, <3>2 DEF Frames
        <3>3. CASE v = w
            <4>1. PICK i \in 1 .. Len(stack[w]) - 1 : f = stack[w][i + 1]
                BY <2>5, <3>1, <3>3
            <4>2. i + 1 \in DOMAIN stack[w] /\ i + 1 # 1
                BY <2>2, <4>1
            <4>3. QED
                BY <2>3, <4>1, <4>2 DEF Frames
        <3>4. QED
            BY <3>2, <3>3
    <2>7. ASSUME NEW f \in Frames, f.task # t PROVE f \in Frames'
        <3>1. PICK v \in Workers : \E i \in DOMAIN stack[v] : f = stack[v][i]
            BY DEF Frames
        <3>2. CASE v # w
            BY <2>4, <3>1, <3>2 DEF Frames
        <3>3. CASE v = w
            <4>1. PICK i \in DOMAIN stack[w] : f = stack[w][i]
                BY <3>1, <3>3
            <4>2. i # 1
                BY <2>2, <2>7, <4>1
            <4>3. i - 1 \in DOMAIN stack'[w] /\ stack'[w][i - 1] = f
                BY <2>2, <2>5, <4>1, <4>2
            <4>4. QED
                BY <4>3 DEF Frames
        <3>4. QED
            BY <3>2, <3>3
    <2>8. QED
        BY <2>6, <2>7
<1> HIDE DEF t
<1>5. \A x : x.task # t => (x \in Acquired' <=> x \in Acquired)
    BY <1>3, <1>4, OthersKeepTheirs DEF IInv
<1>6. \A u, d, a : Acquisition(u, d, a).task = u
    BY DEF Acquisition
<1>7. \A x \in Acquired' : x.task # t
    BY <1>4, <1>6 DEF AcquiredByPlace
<1>8. \A x : x \in Acquired' <=> x \in Acquired /\ x.task # t
    BY <1>5, <1>7
<1>9. Abstract!Leave(t)
    BY <1>8 DEF Abstract!Leave
<1>10. QED
    BY <1>2, <1>9 DEF Abstract!Next

\* Every step of a worker is one of AcquiredBlocks.
LEMMA StepImplements ==
    IInv /\ IInv' /\ Disjoint(place') /\ AcquiredByPlace /\ AcquiredByPlace' /\ [Next]_vars
        => [Abstract!Next]_Acquired
<1> SUFFICES ASSUME IInv, IInv', Disjoint(place'), AcquiredByPlace, AcquiredByPlace',
                    [Next]_vars
             PROVE  Abstract!Next \/ Acquired' = Acquired
    OBVIOUS
<1>1. ASSUME NEW w \in Workers, NEW t \in Tasks, LaunchTask(w, t)
      PROVE  Acquired' = Acquired
    BY <1>1, LaunchTaskAcquires
<1>2. ASSUME NEW w \in Workers, UnpackArg(w) PROVE Abstract!Next \/ Acquired' = Acquired
    BY <1>2, UnpackArgAcquires
<1>3. ASSUME NEW w \in Workers, BeginCreate(w) PROVE Abstract!Next \/ Acquired' = Acquired
    <2> DEFINE t == Current(w).task
    <2>1. Running(w)
        BY <1>3 DEF BeginCreate
    <2>2. PICK d \in Dbs :
            /\ dbState[d] = "unborn"
            /\ SetHolds(t, holds[t] \cup {d})
            /\ BeginCall(w, "create", d)
        BY <1>3 DEF BeginCreate
    <2>3. t \in Tasks
        BY <2>1, RunningOK, CurrentOK DEF IInv
    <2> DEFINE D == holds[t] \cup {d}
    <2>4. D \in SUBSET Dbs /\ d \notin holds[t]
        BY <2>2, <2>3 DEF IInv, MemoryOK, BlocksExist
    <2>5. SetHolds(t, D) /\ D \ {d} = holds[t] \ {d}
        BY <2>2
    <2> HIDE DEF D
    <2>6. QED
        BY <2>1, <2>2, <2>4, <2>5, BeginCallReleases
<1>4. ASSUME NEW w \in Workers, BeginRelease(w) PROVE Abstract!Next \/ Acquired' = Acquired
    <2> DEFINE t == Current(w).task
    <2>1. Running(w)
        BY <1>4 DEF BeginRelease
    <2>2. PICK d \in holds[t] :
            /\ SetHolds(t, holds[t] \ {d})
            /\ BeginCall(w, IF d \in Arenas THEN "releaseArena" ELSE "release", d)
        BY <1>4 DEF BeginRelease
    <2>3. t \in Tasks
        BY <2>1, RunningOK, CurrentOK DEF IInv
    <2> DEFINE D == holds[t] \ {d}
    <2>4. D \in SUBSET Dbs /\ d \in Dbs /\ d \notin D /\ D \ {d} = holds[t] \ {d}
        BY <2>3 DEF IInv, MemoryOK
    <2>5. SetHolds(t, D)
        BY <2>2
    <2> HIDE DEF D
    <2>6. QED
        BY <2>1, <2>2, <2>4, <2>5, BeginCallReleases
<1>5. ASSUME NEW w \in Workers, BeginDestroy(w) PROVE Abstract!Next \/ Acquired' = Acquired
    <2> DEFINE t == Current(w).task
    <2>1. Running(w)
        BY <1>5 DEF BeginDestroy
    <2>2. PICK d \in Dbs :
            /\ SetHolds(t, holds[t] \ {d})
            /\ BeginCall(w, "destroy", d)
        BY <1>5 DEF BeginDestroy
    <2>3. t \in Tasks
        BY <2>1, RunningOK, CurrentOK DEF IInv
    <2> DEFINE D == holds[t] \ {d}
    <2>4. D \in SUBSET Dbs /\ d \notin D /\ D \ {d} = holds[t] \ {d}
        BY <2>3 DEF IInv, MemoryOK
    <2>5. SetHolds(t, D)
        BY <2>2
    <2> HIDE DEF D
    <2>6. QED
        BY <2>1, <2>2, <2>4, <2>5, BeginCallReleases
<1>6. ASSUME NEW w \in Workers, EndCall(w) PROVE Abstract!Next \/ Acquired' = Acquired
    BY <1>6, EndCallAcquires
<1>7. ASSUME NEW w \in Workers, SetImplicitArena(w)
      PROVE  Abstract!Next \/ Acquired' = Acquired
    BY <1>7, SetImplicitArenaAcquires
<1>8. ASSUME NEW w \in Workers, FinishTask(w) PROVE Abstract!Next
    BY <1>8, FinishTaskLeaves
<1>9. CASE UNCHANGED vars
    BY <1>9, NothingAcquired DEF vars
<1>10. QED
    BY <1>1, <1>2, <1>3, <1>4, <1>5, <1>6, <1>7, <1>8, <1>9 DEF Next

-----------------------------------------------------------------------------
(* The theorem                                                             *)

\* The states of all tasks, on all threads, implement one map of acquired blocks:
\* every step of the bookkeeping of every program acquires or releases one block
\* for the task that makes it, ends this task, or changes no address any task sees;
\* tasks that have a block at the same time see it at the same place.
THEOREM ImplementsAcquiredBlocks == Spec => AcquiredBlocksSpec
<1>1. Init => Abstract!Init /\ Disjoint(place)
    <2> SUFFICES ASSUME Init PROVE Abstract!Init /\ Disjoint(place)
        OBVIOUS
    <2>1. Frames = {}
        BY DEF Init, Frames
    <2>2. Acquired = {}
        BY <2>1 DEF Acquired
    <2>3. Disjoint(place)
        BY DEF Init, Disjoint
    <2>4. QED
        BY <2>2, <2>3 DEF Abstract!Init
<1>2. Spec => []IInv
    BY Invariance
<1>3. Disjoint(place) /\ [Next]_vars => Disjoint(place)'
    BY PlacesStayApart
<1>4. IInv /\ IInv' /\ Disjoint(place)' /\ AcquiredByPlace /\ AcquiredByPlace' /\ [Next]_vars
        => [Abstract!Next]_Acquired
    BY StepImplements
<1>5. QED
    BY <1>1, <1>2, <1>3, <1>4, AddressesArePlaces, PTL
       DEF Spec, AcquiredBlocksSpec, Abstract!Spec

=============================================================================
