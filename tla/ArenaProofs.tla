----------------------------- MODULE ArenaProofs -----------------------------
(***************************************************************************)
(* Arena: proofs of its invariants, for all values of the constants.       *)
(***************************************************************************)
EXTENDS Arena, TLAPS

-----------------------------------------------------------------------------
(* The inductive invariant                                                 *)

Allocation == [start : Int, size : TypeSizes, count : Counts]

Pending == [arena : Arenas, start : Int, size : TypeSizes, count : Counts]

TaskRecord ==
    [ running  : BOOLEAN,
      modes    : UNION { [A -> {"EW", "RW"}] : A \in SUBSET Arenas },
      released : SUBSET Arenas,
      implicit : Arenas \cup {NoArena},
      pending  : {NoAllocation} \cup Pending ]

TypeInv ==
    /\ header \in [Arenas -> [size : Nat, offset : Offset]]
    /\ block \in [Arenas -> Nat]
    /\ task \in [Tasks -> TaskRecord]
    /\ live \in [Arenas -> Seq(Allocation)]
    /\ saved \in [Arenas -> Seq([offset : Offset, count : Nat])]
    /\ past \in [Arenas -> [shared : BOOLEAN, stale : BOOLEAN, raced : BOOLEAN]]
    /\ failure \in {"none", "root", "small", "overflow", "uninitialized", "astray"}

\* The arenas the program can get at have been created, and the implicit arena of
\* a running task is one of its own, or was.
UsesOK(t) ==
    /\ \A a \in Holds(t) \cup task[t].released : Exists(a)
    /\ task[t].pending # NoAllocation => Exists(task[t].pending.arena)
    /\ task[t].running =>
         task[t].implicit \in Holds(t) \cup task[t].released \cup {NoArena}

\* Who is in the allocator of a holds a or has once gone on after a release; two
\* tasks that hold a have shared it, two in its allocator have raced.
SharingOK(a) ==
    /\ \A t \in Tasks : task[t].pending.arena = a => a \in Holds(t) \/ past[a].stale
    /\ \A t, u \in Tasks : t # u /\ a \in Holds(t) /\ a \in Holds(u) => past[a].shared
    /\ \A t, u \in Tasks :
         t # u /\ task[t].pending.arena = a /\ task[u].pending.arena = a => past[a].raced
    /\ past[a].raced => past[a].shared \/ past[a].stale

\* A header that fits its datablock; the saved states belong to ever longer parts
\* of the allocations in use.
HeaderOK(a) ==
    IF Exists(a)
    THEN /\ header[a].offset <= header[a].size
         /\ header[a].size <= block[a]
         /\ HeaderSize <= header[a].size
         /\ \A k \in DOMAIN saved[a] :
              /\ saved[a][k].offset <= header[a].size
              /\ saved[a][k].count <= Len(live[a])
              /\ \A l \in 1 .. k : saved[a][l].count <= saved[a][k].count
    ELSE live[a] = << >> /\ saved[a] = << >>

IsAligned(x) ==
    \A alignment \in {1, 2, 4, 8, 16} : x.size % alignment = 0 => x.start % alignment = 0

AlignmentOK ==
    /\ \A a \in Arenas : \A i \in DOMAIN live[a] : IsAligned(live[a][i])
    /\ \A t \in Tasks : task[t].pending # NoAllocation => IsAligned(task[t].pending)

\* The first n allocations of seq, if none is beyond the range of ptrdiff_t, lie
\* one behind the other from RootAt to offset.
Neat(seq, n, offset) ==
    (\A i \in 1 .. n : End(seq[i]) < Half) =>
        /\ offset >= HeaderSize
        /\ \A i \in 1 .. n : seq[i].start >= HeaderSize /\ End(seq[i]) <= offset
        /\ \A i, j \in 1 .. n : i < j => End(seq[i]) <= seq[j].start
        /\ n = 0 => offset = RootAt
        /\ n > 0 => seq[1].start = RootAt

\* Unless tasks have raced in a, or have gone on after its release, what is behind
\* the offset of the header, or behind that of a saved state, is free; and who has
\* read the offset has read the present one.
OrderOK(a) ==
    Exists(a) /\ ~ past[a].raced /\ ~ past[a].stale =>
        /\ Neat(live[a], Len(live[a]), header[a].offset)
        /\ \A k \in DOMAIN saved[a] : Neat(live[a], saved[a][k].count, saved[a][k].offset)
        /\ \A t \in Tasks : task[t].pending.arena = a =>
             task[t].pending.start = Start(header[a], task[t].pending.size)

IInv ==
    /\ TypeInv
    /\ \A t \in Tasks : UsesOK(t)
    /\ \A a \in Arenas : SharingOK(a)
    /\ \A a \in Arenas : HeaderOK(a)
    /\ AlignmentOK
    /\ \A a \in Arenas : OrderOK(a)

-----------------------------------------------------------------------------
(* Arithmetic of the allocator                                             *)

\* What a size_t can hold, it holds unchanged.
LEMMA UnsignedFits ==
    /\ \A n \in Int : Unsigned(n) \in 0 .. 2 * Half - 1
    /\ \A n \in Nat : n < 2 * Half => Unsigned(n) = n
BY ArenaAssumption DEF Unsigned

\* The same for a ptrdiff_t.
LEMMA SignedFits ==
    /\ \A n \in Int : Signed(n) \in Offset
    /\ \A n \in Nat : n < Half => Signed(n) = n
BY UnsignedFits, ArenaAssumption DEF Signed, Offset

\* Rounding up gives the next multiple, also of every smaller power of two, and
\* leaves the offset of the root alone.
LEMMA RoundUpRounds ==
    \A n \in Int : \A alignment \in {1, 4, 8, 16} :
        /\ RoundUp(n, alignment) \in Int
        /\ RoundUp(n, alignment) >= n
        /\ n = RootAt => RoundUp(n, alignment) = RootAt
        /\ \A d \in {1, 2, 4, 8, 16} : d <= alignment => RoundUp(n, alignment) % d = 0
BY DEF RoundUp, RootAt, HeaderSize

\* allocate chooses an alignment that no power of two dividing the size exceeds.
LEMMA AlignmentSuffices ==
    \A size \in TypeSizes :
        /\ Alignment(size) \in {1, 4, 8, 16}
        /\ \A d \in {1, 2, 4, 8, 16} : size % d = 0 => d <= Alignment(size)
BY ArenaAssumption DEF Alignment

Header == [size : Nat, offset : Offset]

\* An allocation starts at or behind the offset, and on its alignment.
LEMMA StartFits ==
    \A h \in Header, size \in TypeSizes :
        /\ Start(h, size) \in Int
        /\ Start(h, size) >= h.offset
        /\ h.offset = RootAt => Start(h, size) = RootAt
        /\ \A d \in {1, 2, 4, 8, 16} : size % d = 0 => Start(h, size) % d = 0
<1> SUFFICES ASSUME NEW h \in Header, NEW size \in TypeSizes
             PROVE  /\ Start(h, size) \in Int
                    /\ Start(h, size) >= h.offset
                    /\ h.offset = RootAt => Start(h, size) = RootAt
                    /\ \A d \in {1, 2, 4, 8, 16} : size % d = 0 => Start(h, size) % d = 0
    OBVIOUS
<1>1. h.offset \in Int
    BY ArenaAssumption DEF Header, Offset
<1> DEFINE alignment == Alignment(size)
<1>2. /\ alignment \in {1, 4, 8, 16}
      /\ \A d \in {1, 2, 4, 8, 16} : size % d = 0 => d <= alignment
    BY AlignmentSuffices
<1>3. Start(h, size) = RoundUp(h.offset, alignment)
    BY DEF Start
<1> HIDE DEF alignment
<1> DEFINE start == RoundUp(h.offset, alignment)
<1>4. /\ start \in Int
      /\ start >= h.offset
      /\ h.offset = RootAt => start = RootAt
      /\ \A d \in {1, 2, 4, 8, 16} : d <= alignment => start % d = 0
    BY <1>1, <1>2, RoundUpRounds
<1> HIDE DEF start
<1>5. QED
    BY <1>2, <1>3, <1>4 DEF start

\* The bytes of an allocation, before size_t wraps them.
LEMMA ProductsAreNatural ==
    \A x : x.size \in TypeSizes /\ x.count \in Counts => x.size * x.count \in Nat
<1>1. \A m, n \in Nat : m * n \in Nat
    OBVIOUS
<1>2. \A x : x.size \in TypeSizes /\ x.count \in Counts => x.size \in Nat /\ x.count \in Nat
    BY ArenaAssumption
<1>3. QED
    BY <1>1, <1>2

\* An allocation ends no earlier than it starts.
LEMMA EndIsBehindStart ==
    \A x : x.start \in Int /\ x.size \in TypeSizes /\ x.count \in Counts =>
        End(x) \in Int /\ End(x) >= x.start
BY ProductsAreNatural DEF End

\* The offset is behind the allocation, if that is within the range of ptrdiff_t.
LEMMA OffsetAfterFits ==
    \A x : x.start \in Int /\ x.size \in TypeSizes /\ x.count \in Counts =>
        /\ OffsetAfter(x.start, x.size, x.count) \in Offset
        /\ x.start >= 0 /\ End(x) < Half => OffsetAfter(x.start, x.size, x.count) = End(x)
<1> SUFFICES ASSUME NEW x, x.start \in Int, x.size \in TypeSizes, x.count \in Counts
             PROVE  /\ OffsetAfter(x.start, x.size, x.count) \in Offset
                    /\ x.start >= 0 /\ End(x) < Half =>
                         OffsetAfter(x.start, x.size, x.count) = End(x)
    OBVIOUS
<1> DEFINE bytes == x.size * x.count
<1>1. bytes \in Nat
    BY ProductsAreNatural
<1>2. Unsigned(bytes) \in Nat
    BY <1>1, UnsignedFits, ArenaAssumption
<1> HIDE DEF bytes
<1>3. Signed(x.start + Unsigned(bytes)) \in Offset
    BY <1>2, SignedFits
<1>4. ASSUME x.start >= 0, x.start + bytes < Half
      PROVE  Signed(x.start + Unsigned(bytes)) = x.start + bytes
    BY <1>1, <1>4, UnsignedFits, SignedFits, ArenaAssumption
<1>5. QED
    BY <1>3, <1>4 DEF OffsetAfter, End, bytes

-----------------------------------------------------------------------------
(* Types                                                                   *)

ModeMaps == UNION { [A -> {"EW", "RW"}] : A \in SUBSET Arenas }

\* The access modes a task asks for.
LEMMA ModeMapFacts ==
    /\ \A A \in SUBSET Arenas : \A m \in [A -> {"EW", "RW"}] : m \in ModeMaps
    /\ \A m \in ModeMaps : DOMAIN m \in SUBSET Arenas /\ m \in [DOMAIN m -> {"EW", "RW"}]
BY DEF ModeMaps

\* At the start no arena exists and no task runs.
LEMMA InitTypes == Init => TypeInv
<1> SUFFICES ASSUME Init PROVE TypeInv
    OBVIOUS
<1>1. Idle.modes \in ModeMaps
    BY ModeMapFacts DEF Idle
<1>2. Idle \in TaskRecord
    BY <1>1 DEF Idle, TaskRecord, ModeMaps
<1>3. 0 \in Offset
    BY ArenaAssumption DEF Offset
<1>4. QED
    BY <1>2, <1>3 DEF Init, TypeInv, Absent

\* The fields of a task that t may write.
LEMMA WrittenTask ==
    ASSUME TypeInv, NEW t \in Tasks
    PROVE  /\ task[t] \in TaskRecord
           /\ \A m \in ModeMaps : [task[t] EXCEPT !.modes = m] \in TaskRecord
           /\ \A m \in ModeMaps, S \in SUBSET Arenas :
                /\ [task[t] EXCEPT !.modes = m, !.released = S] \in TaskRecord
                /\ [task[t] EXCEPT !.running = FALSE, !.modes = m, !.released = S] \in TaskRecord
           /\ \A r : r \in TaskRecord => [task EXCEPT ![t] = r] \in [Tasks -> TaskRecord]
<1>1. TaskRecord = [ running  : BOOLEAN,
                     modes    : ModeMaps,
                     released : SUBSET Arenas,
                     implicit : Arenas \cup {NoArena},
                     pending  : {NoAllocation} \cup Pending ]
    BY DEF TaskRecord, ModeMaps
<1>2. task \in [Tasks -> TaskRecord]
    BY DEF TypeInv
<1>3. QED
    BY <1>1, <1>2

\* One lemma for each action: it keeps the types.
LEMMA LaunchTypes ==
    ASSUME TypeInv, NEW t \in Tasks, Launch(t)
    PROVE  TypeInv'
<1>1. PICK A \in SUBSET { a \in Arenas : Exists(a) } : \E modes \in [A -> Modes] :
        /\ task' = [task EXCEPT ![t] = [PushTaskState(t) EXCEPT !.modes = modes]]
        /\ past' = [a \in Arenas |->
               [past[a] EXCEPT !.shared = @ \/ (a \in A /\ \E u \in Tasks \ {t} : a \in Holds(u))]]
    BY DEF Launch
<1>2. PICK modes \in [A -> Modes] :
        /\ task' = [task EXCEPT ![t] = [PushTaskState(t) EXCEPT !.modes = modes]]
        /\ past' = [a \in Arenas |->
               [past[a] EXCEPT !.shared = @ \/ (a \in A /\ \E u \in Tasks \ {t} : a \in Holds(u))]]
    BY <1>1
<1>3. modes \in ModeMaps
    BY <1>1, ModeMapFacts, ArenaAssumption
<1>4. [PushTaskState(t) EXCEPT !.modes = modes] \in TaskRecord
    BY <1>3 DEF PushTaskState, Idle, TaskRecord, ModeMaps
<1>5. task' \in [Tasks -> TaskRecord]
    BY <1>2, <1>4, WrittenTask
<1>6. past' \in [Arenas -> [shared : BOOLEAN, stale : BOOLEAN, raced : BOOLEAN]]
    BY <1>2 DEF TypeInv
<1>7. QED
    BY <1>5, <1>6 DEF Launch, TypeInv

\* A task's function returns: types.
LEMMA FinishTypes ==
    ASSUME TypeInv, NEW t \in Tasks, Finish(t)
    PROVE  TypeInv'
<1>1. Idle.modes \in ModeMaps
    BY ModeMapFacts DEF Idle
<1>2. [task[t] EXCEPT !.running = FALSE, !.modes = Idle.modes, !.released = {}] \in TaskRecord
    BY <1>1, WrittenTask
<1>3. task' = [task EXCEPT ![t] =
          [task[t] EXCEPT !.running = FALSE, !.modes = Idle.modes, !.released = {}]]
    BY DEF Finish
<1>4. task' \in [Tasks -> TaskRecord]
    BY <1>2, <1>3, WrittenTask
<1>5. QED
    BY <1>4 DEF Finish, TypeInv

\* Arena::Release: types.
LEMMA ReleaseTypes ==
    ASSUME TypeInv, NEW t \in Tasks, NEW a \in Arenas, Release(t, a)
    PROVE  TypeInv'
<1> DEFINE modes == [b \in DOMAIN task[t].modes \ {a} |-> task[t].modes[b]]
<1>1. task[t].modes \in ModeMaps
    BY DEF TypeInv, TaskRecord, ModeMaps
<1>2. modes \in ModeMaps
    BY <1>1, ModeMapFacts
<1>3. task' = [task EXCEPT ![t].modes = modes, ![t].released = @ \cup {a}]
    BY DEF Release
<1> HIDE DEF modes
<1>4. task[t].released \cup {a} \in SUBSET Arenas
    BY WrittenTask DEF TaskRecord
<1>5. task' = [task EXCEPT ![t] =
          [task[t] EXCEPT !.modes = modes, !.released = task[t].released \cup {a}]]
    BY <1>3
<1>6. task' \in [Tasks -> TaskRecord]
    BY <1>2, <1>4, <1>5, WrittenTask
<1>7. QED
    BY <1>6 DEF Release, TypeInv

\* A failed assertion: types.
LEMMA FailTypes ==
    ASSUME TypeInv, NEW x \in {"root", "small", "overflow", "uninitialized"}, Fail(x)
    PROVE  TypeInv'
BY DEF Fail, TypeInv

\* Arena::Create: types.
LEMMA CreateArenaTypes ==
    ASSUME TypeInv, NEW t \in Tasks, NEW a \in Arenas, NEW bytes \in ArenaBytes,
           CreateArena(t, a, bytes)
    PROVE  TypeInv'
<1>1. CASE bytes < HeaderSize
    BY <1>1, FailTypes DEF CreateArena, HeaderSize
<1>2. CASE ~ bytes < HeaderSize
    <2> DEFINE modes == [b \in DOMAIN task[t].modes \cup {a} |->
                            IF b = a THEN "RW" ELSE task[t].modes[b]]
    <2>1. bytes \in Nat /\ HeaderSize \in Offset
        BY <1>2, ArenaAssumption DEF HeaderSize, Offset
    <2>2. task[t].modes \in ModeMaps
        BY DEF TypeInv, TaskRecord, ModeMaps
    <2>3. modes \in ModeMaps
        BY <2>2, ModeMapFacts
    <2>4. /\ block' = [block EXCEPT ![a] = Unsigned(HeaderSize * Unsigned(bytes + HeaderSize))]
          /\ header' = [header EXCEPT ![a] = AllocatorDbInit(bytes)]
          /\ task' = [task EXCEPT ![t].modes = modes]
          /\ UNCHANGED << live, saved, past, failure >>
        BY <1>2, <2>1 DEF CreateArena, HeaderSize
    <2> HIDE DEF modes
    <2>5. task' \in [Tasks -> TaskRecord]
        <3>1. task' = [task EXCEPT ![t] = [task[t] EXCEPT !.modes = modes]]
            BY <2>4
        <3>2. QED
            BY <2>3, <3>1, WrittenTask
    <2>6. Unsigned(HeaderSize * Unsigned(bytes + HeaderSize)) \in Nat
        BY <2>1, UnsignedFits, ArenaAssumption DEF HeaderSize
    <2>7. AllocatorDbInit(bytes) \in Header
        BY <2>1 DEF AllocatorDbInit, Header
    <2>8. QED
        BY <2>4, <2>5, <2>6, <2>7 DEF TypeInv, Header
<1>3. QED
    BY <1>1, <1>2

\* SetImplicitArena: types.
LEMMA SetImplicitArenaTypes ==
    ASSUME TypeInv, NEW t \in Tasks, NEW a \in Arenas \cup {NoArena}, SetImplicitArena(t, a)
    PROVE  TypeInv'
<1>1. task' = [task EXCEPT ![t] = [task[t] EXCEPT !.implicit = a]]
    BY DEF SetImplicitArena
<1>2. [task[t] EXCEPT !.implicit = a] \in TaskRecord
    BY WrittenTask DEF TaskRecord
<1>3. QED
    BY <1>1, <1>2, WrittenTask DEF SetImplicitArena, TypeInv

\* What BeginAllocation of t in a makes of the state of t.
Entered(t, a, size, count) ==
    [task[t] EXCEPT !.pending =
        [arena |-> a, start |-> Start(header[a], size), size |-> size, count |-> count]]

\* The first half of an allocation: types, and the allocation that is now pending.
LEMMA BeginAllocationTypes ==
    ASSUME TypeInv, NEW t \in Tasks, NEW a \in Arenas, NEW size \in TypeSizes,
           NEW count \in Counts, BeginAllocation(t, a, size, count)
    PROVE  /\ TypeInv'
           /\ task' = [task EXCEPT ![t] = Entered(t, a, size, count)]
           /\ Entered(t, a, size, count).pending \in Pending
<1>1. header[a] \in Header
    BY DEF TypeInv, Header
<1>2. [arena |-> a, start |-> Start(header[a], size), size |-> size, count |-> count] \in Pending
    BY <1>1, StartFits DEF Pending
<1>3. task' = [task EXCEPT ![t] = Entered(t, a, size, count)]
    BY DEF BeginAllocation, Entered
<1>4. task[t] \in TaskRecord
    BY WrittenTask
<1>5. Entered(t, a, size, count) \in TaskRecord /\ Entered(t, a, size, count).pending \in Pending
    BY <1>2, <1>4 DEF Entered, TaskRecord
<1>6. task' \in [Tasks -> TaskRecord]
    BY <1>3, <1>5, WrittenTask
<1>7. past' \in [Arenas -> [shared : BOOLEAN, stale : BOOLEAN, raced : BOOLEAN]]
    <2> DEFINE raced == past[a].raced \/ Contended(t, a)
               stale == past[a].stale \/ (a \notin Holds(t) /\ ImplicitReleased(t))
    <2>1. raced \in BOOLEAN /\ stale \in BOOLEAN
        OBVIOUS
    <2>2. past' = [past EXCEPT ![a].raced = raced, ![a].stale = stale]
        BY DEF BeginAllocation
    <2> HIDE DEF raced, stale
    <2>3. QED
        BY <2>1, <2>2 DEF TypeInv
<1>8. QED
    BY <1>3, <1>5, <1>6, <1>7 DEF BeginAllocation, TypeInv

\* The allocation that a task ends.
Made(x) == [start |-> x.start, size |-> x.size, count |-> x.count]

\* EndAllocation of t, unless the assertion fails.
Ended(t) ==
    LET x == task[t].pending
    IN  /\ failure = "none"
        /\ x # NoAllocation
        /\ OffsetAfter(x.start, x.size, x.count) <= header[x.arena].size
        /\ header' = [header EXCEPT ![x.arena].offset = OffsetAfter(x.start, x.size, x.count)]
        /\ live' = [live EXCEPT ![x.arena] = Append(@, Made(x))]
        /\ task' = [task EXCEPT ![t] = [task[t] EXCEPT !.pending = NoAllocation]]
        /\ UNCHANGED << block, saved, past, failure >>

\* The second half of an allocation succeeds, fails its assertion, or has lost the
\* arena, which the task does not hold.
LEMMA EndAllocationEnds ==
    ASSUME TypeInv, NEW t \in Tasks, EndAllocation(t)
    PROVE  /\ task[t].pending \in Pending
           /\ \/ Fail("overflow")
              \/ Ended(t)
              \/ AllocateAstray(task[t].pending.arena, task[t].pending.size,
                                task[t].pending.count)
<1>1. task[t].pending \in Pending
    BY WrittenTask DEF EndAllocation, TaskRecord
<1>2. OffsetAfter(task[t].pending.start, task[t].pending.size, task[t].pending.count) \in Int
    BY <1>1, OffsetAfterFits, ArenaAssumption DEF Pending, Offset
<1>3. header[task[t].pending.arena].size \in Int
    BY <1>1 DEF Pending, TypeInv
<1>4. ASSUME ~ AllocateAstray(task[t].pending.arena, task[t].pending.size, task[t].pending.count),
             ~ Fail("overflow")
      PROVE  Ended(t)
    <2> DEFINE x == task[t].pending
               offset == OffsetAfter(x.start, x.size, x.count)
    <2>1. /\ failure = "none"
          /\ x # NoAllocation
          /\ ~ (offset > header[x.arena].size)
          /\ header' = [header EXCEPT ![x.arena].offset = offset]
          /\ live' = [live EXCEPT ![x.arena] =
                 Append(@, [start |-> x.start, size |-> x.size, count |-> x.count])]
          /\ task' = [task EXCEPT ![t].pending = NoAllocation]
          /\ UNCHANGED << block, saved, past, failure >>
        BY <1>4, Zenon DEF EndAllocation, OverflowFails
    <2>2. offset <= header[x.arena].size
        BY <1>2, <1>3, <2>1
    <2> HIDE DEF offset
    <2>3. QED
        BY <2>1, <2>2 DEF Ended, Made, offset
<1>5. QED
    BY <1>1, <1>4

\* An allocation that succeeds: types.
LEMMA EndedTypes ==
    ASSUME TypeInv, NEW t \in Tasks, task[t].pending \in Pending, Ended(t)
    PROVE  TypeInv'
<1> DEFINE x == task[t].pending
           a == x.arena
           offset == OffsetAfter(x.start, x.size, x.count)
<1>1. x \in Pending /\ a \in Arenas /\ Made(x) \in Allocation
    BY DEF Pending, Made, Allocation
<1>2. offset \in Offset
    BY <1>1, OffsetAfterFits DEF Pending
<1>3. [task[t] EXCEPT !.pending = NoAllocation] \in TaskRecord
    BY WrittenTask DEF TaskRecord
<1>4. /\ header' = [header EXCEPT ![a].offset = offset]
      /\ live' = [live EXCEPT ![a] = Append(@, Made(x))]
      /\ task' = [task EXCEPT ![t] = [task[t] EXCEPT !.pending = NoAllocation]]
      /\ UNCHANGED << block, saved, past, failure >>
    BY DEF Ended
<1> HIDE DEF x, a, offset
<1>5. header' \in [Arenas -> Header]
    BY <1>1, <1>2, <1>4 DEF TypeInv, Header
<1>6. live' \in [Arenas -> Seq(Allocation)]
    BY <1>1, <1>4 DEF TypeInv
<1>7. task' \in [Tasks -> TaskRecord]
    BY <1>3, <1>4, WrittenTask
<1>8. QED
    BY <1>4, <1>5, <1>6, <1>7 DEF TypeInv, Header

\* An allocation that goes astray, without a failed assertion.
Strayed(a, x) ==
    /\ live' = [live EXCEPT ![a] = Append(@, x)]
    /\ past' = [past EXCEPT ![a].stale = TRUE]
    /\ failure' = "astray"
    /\ UNCHANGED << header, block, task, saved >>

\* An allocation that goes astray lies on its alignment all the same.
LEMMA AstrayIsAligned ==
    ASSUME TypeInv, NEW a \in Arenas, NEW size \in TypeSizes, NEW count \in Counts,
           AllocateAstray(a, size, count)
    PROVE  \/ Fail("overflow")
           \/ \E x \in Allocation : Strayed(a, x) /\ IsAligned(x)
<1> DEFINE start == RoundUp(block[a], Alignment(size))
           x == [start |-> start, size |-> size, count |-> count]
<1>1. block[a] \in Int
    BY DEF TypeInv
<1>2. /\ Alignment(size) \in {1, 4, 8, 16}
      /\ \A d \in {1, 2, 4, 8, 16} : size % d = 0 => d <= Alignment(size)
    BY AlignmentSuffices
<1>3. /\ start \in Int
      /\ \A d \in {1, 2, 4, 8, 16} : d <= Alignment(size) => start % d = 0
    BY <1>1, <1>2, RoundUpRounds
<1>4. Fail("overflow") \/ Strayed(a, x)
    BY DEF AllocateAstray, Strayed
<1> HIDE DEF start
<1>5. x \in Allocation /\ IsAligned(x)
    BY <1>2, <1>3 DEF Allocation, IsAligned
<1>6. QED
    BY <1>4, <1>5

\* The same: types.
LEMMA StrayedTypes ==
    ASSUME TypeInv, NEW a \in Arenas, NEW x \in Allocation, Strayed(a, x)
    PROVE  TypeInv'
<1>1. live' \in [Arenas -> Seq(Allocation)]
    BY DEF TypeInv, Strayed
<1>2. past' \in [Arenas -> [shared : BOOLEAN, stale : BOOLEAN, raced : BOOLEAN]]
    BY DEF TypeInv, Strayed
<1>3. QED
    BY <1>1, <1>2 DEF TypeInv, Strayed

SavedState == [offset : Offset, count : Nat]

\* saveState: types.
LEMMA SaveStateTypes ==
    ASSUME TypeInv, NEW t \in Tasks, NEW a \in Arenas, SaveState(t, a)
    PROVE  TypeInv'
<1> DEFINE x == [offset |-> header[a].offset, count |-> Len(live[a])]
<1>1. x \in SavedState
    BY DEF TypeInv, SavedState
<1>2. saved' = [saved EXCEPT ![a] = Append(saved[a], x)]
    BY DEF SaveState
<1>3. saved \in [Arenas -> Seq(SavedState)]
    BY DEF TypeInv, SavedState
<1> HIDE DEF x
<1>4. saved' \in [Arenas -> Seq(SavedState)]
    BY <1>1, <1>2, <1>3
<1>5. QED
    BY <1>4 DEF SaveState, TypeInv, SavedState

\* RestoreState of t with the k-th saved state of a.
Restored(t, a, k) ==
    /\ header' = [header EXCEPT ![a].offset = saved[a][k].offset]
    /\ live' = [live EXCEPT ![a] = SubSeq(@, 1, saved[a][k].count)]
    /\ saved' = [saved EXCEPT ![a] = SubSeq(@, 1, k)]
    /\ past' = [past EXCEPT ![a].raced = @ \/ Contended(t, a)]
    /\ UNCHANGED << block, task, failure >>

\* restoreState goes back to some saved state.
LEMMA RestoreStateRestores ==
    ASSUME TypeInv, NEW t \in Tasks, NEW a \in Arenas, RestoreState(t, a)
    PROVE  \E k \in DOMAIN saved[a] : Restored(t, a, k)
BY DEF RestoreState, Restored

\* restoreState: types; the offset is again one that fits the arena.
LEMMA RestoredTypes ==
    ASSUME TypeInv, NEW t \in Tasks, NEW a \in Arenas, HeaderOK(a),
           NEW k \in DOMAIN saved[a], Restored(t, a, k)
    PROVE  TypeInv'
<1>1. saved[a] \in Seq(SavedState) /\ saved[a][k] \in SavedState /\ k \in 1 .. Len(saved[a])
    <2>1. saved[a] \in Seq(SavedState)
        BY DEF TypeInv, SavedState
    <2>2. QED
        BY <2>1
<1>2. live[a] \in Seq(Allocation) /\ saved[a][k].count \in 0 .. Len(live[a])
    BY <1>1 DEF TypeInv, SavedState, HeaderOK
<1>3. SubSeq(saved[a], 1, k) \in Seq(SavedState)
    BY <1>1
<1>4. SubSeq(live[a], 1, saved[a][k].count) \in Seq(Allocation)
    BY <1>2
<1>5. header' \in [Arenas -> Header]
    BY <1>1 DEF Restored, TypeInv, Header, SavedState
<1>6. live' \in [Arenas -> Seq(Allocation)]
    BY <1>4 DEF Restored, TypeInv
<1>7. saved' \in [Arenas -> Seq(SavedState)]
    BY <1>3 DEF Restored, TypeInv, SavedState
<1>8. past' \in [Arenas -> [shared : BOOLEAN, stale : BOOLEAN, raced : BOOLEAN]]
    <2> DEFINE raced == past[a].raced \/ Contended(t, a)
    <2>1. raced \in BOOLEAN
        OBVIOUS
    <2>2. past' = [past EXCEPT ![a].raced = raced]
        BY DEF Restored
    <2> HIDE DEF raced
    <2>3. QED
        BY <2>1, <2>2 DEF TypeInv
<1>9. QED
    BY <1>5, <1>6, <1>7, <1>8 DEF Restored, TypeInv, Header, SavedState

-----------------------------------------------------------------------------
(* What a step leaves as it is                                             *)

\* A task that a step does not touch goes on using arenas that are there.
LEMMA OthersUse ==
    ASSUME NEW t \in Tasks, \A u \in Tasks : UsesOK(u),
           \A u \in Tasks \ {t} : task'[u] = task[u],
           \A a \in Arenas : Exists(a) => Exists(a)',
           TypeInv, UsesOK(t)'
    PROVE  \A u \in Tasks : UsesOK(u)'
<1> SUFFICES ASSUME NEW u \in Tasks \ {t} PROVE UsesOK(u)'
    OBVIOUS
<1>1. task'[u] = task[u] /\ UsesOK(u) /\ task[u] \in TaskRecord
    BY DEF TypeInv
<1>2. \A a \in Holds(u) \cup task[u].released : a \in Arenas
    BY <1>1, ModeMapFacts DEF Holds, TaskRecord, ModeMaps
<1>3. task[u].pending # NoAllocation => task[u].pending.arena \in Arenas
    BY <1>1 DEF TaskRecord, Pending
<1>4. QED
    BY <1>1, <1>2, <1>3 DEF UsesOK, Holds

\* A step after which nobody new holds an arena or allocates in it keeps who shares
\* it and who has raced.
LEMMA SameSharing ==
    ASSUME NEW a \in Arenas, SharingOK(a), past'[a] = past[a],
           \A u \in Tasks : a \in Holds(u)' => a \in Holds(u),
           \A u \in Tasks : task'[u].pending.arena = a =>
               task[u].pending.arena = a /\ (a \in Holds(u) => a \in Holds(u)')
    PROVE  SharingOK(a)'
BY DEF SharingOK

\* A step that leaves an arena and the allocations pending in it alone keeps its
\* order.
LEMMA SameArena ==
    ASSUME NEW a \in Arenas, HeaderOK(a), OrderOK(a),
           header'[a] = header[a], block'[a] = block[a],
           live'[a] = live[a], saved'[a] = saved[a],
           past'[a].raced = past[a].raced, past'[a].stale = past[a].stale,
           \A u \in Tasks : task'[u].pending.arena = a => task'[u].pending = task[u].pending
    PROVE  HeaderOK(a)' /\ OrderOK(a)'
<1>1. HeaderOK(a)'
    BY DEF HeaderOK, Exists
<1>2. OrderOK(a)'
    BY DEF OrderOK, Exists, Neat, End, Start
<1>3. QED
    BY <1>1, <1>2

\* A step that neither begins nor ends an allocation with success keeps alignment.
LEMMA SameAllocations ==
    ASSUME AlignmentOK, live' = live,
           \A u \in Tasks : task'[u].pending = task[u].pending \/ task'[u].pending = NoAllocation
    PROVE  AlignmentOK'
BY DEF AlignmentOK, IsAligned

\* The pending allocation of a task, if there is one, is in an arena.
LEMMA PendingArena ==
    ASSUME TypeInv, NEW t \in Tasks
    PROVE  /\ task[t].pending = NoAllocation => task[t].pending.arena \notin Arenas
           /\ task[t].pending # NoAllocation => task[t].pending \in Pending
           /\ Holds(t) \subseteq Arenas
<1>1. task[t] \in TaskRecord
    BY WrittenTask
<1>2. Holds(t) \subseteq Arenas
    BY <1>1, ModeMapFacts DEF Holds, TaskRecord, ModeMaps
<1>3. QED
    BY <1>1, <1>2, ArenaAssumption DEF NoAllocation, TaskRecord

-----------------------------------------------------------------------------
(* The steps that only change what a task holds                            *)

\* The invariant holds at the start.
LEMMA InitIInv == Init => IInv
<1> SUFFICES ASSUME Init PROVE IInv
    OBVIOUS
<1>1. TypeInv
    BY InitTypes
<1>2. ASSUME NEW t \in Tasks PROVE UsesOK(t)
    BY DEF Init, UsesOK, Idle, Holds
<1>3. ASSUME NEW a \in Arenas PROVE SharingOK(a)
    BY ArenaAssumption DEF Init, SharingOK, Idle, NoAllocation, Holds
<1>4. ASSUME NEW a \in Arenas PROVE HeaderOK(a)
    BY DEF Init, HeaderOK, Exists
<1>5. AlignmentOK
    BY DEF Init, AlignmentOK, Idle
<1>6. ASSUME NEW a \in Arenas PROVE OrderOK(a)
    BY DEF Init, OrderOK, Exists
<1>7. QED
    BY <1>1, <1>2, <1>3, <1>4, <1>5, <1>6 DEF IInv

\* A task starts with some arenas; if another task holds one of them, they share it
\* from then on.
LEMMA LaunchStep ==
    ASSUME IInv, NEW t \in Tasks, Launch(t)
    PROVE  IInv'
<1>1. TypeInv'
    BY LaunchTypes DEF IInv
<1>2. PICK A \in SUBSET { a \in Arenas : Exists(a) } : \E modes \in [A -> Modes] :
        /\ task' = [task EXCEPT ![t] = [PushTaskState(t) EXCEPT !.modes = modes]]
        /\ past' = [a \in Arenas |->
               [past[a] EXCEPT !.shared = @ \/ (a \in A /\ \E u \in Tasks \ {t} : a \in Holds(u))]]
    BY DEF Launch
<1>3. PICK modes \in [A -> Modes] :
        task' = [task EXCEPT ![t] = [PushTaskState(t) EXCEPT !.modes = modes]]
    BY <1>2
<1>4. /\ Holds(t)' = A
      /\ task'[t].released = {} /\ task'[t].implicit = NoArena
      /\ task'[t].pending = NoAllocation
      /\ \A u \in Tasks \ {t} : task'[u] = task[u] /\ Holds(u)' = Holds(u)
    BY <1>3 DEF PushTaskState, Idle, Holds, IInv, TypeInv
<1>5. \A a \in Arenas :
        /\ past'[a].stale = past[a].stale /\ past'[a].raced = past[a].raced
        /\ past[a].shared => past'[a].shared
        /\ a \in A /\ (\E u \in Tasks \ {t} : a \in Holds(u)) => past'[a].shared
    <2> SUFFICES ASSUME NEW a \in Arenas
                 PROVE  /\ past'[a].stale = past[a].stale /\ past'[a].raced = past[a].raced
                        /\ past[a].shared => past'[a].shared
                        /\ a \in A /\ (\E u \in Tasks \ {t} : a \in Holds(u)) => past'[a].shared
        OBVIOUS
    <2> DEFINE shared == past[a].shared \/ (a \in A /\ \E u \in Tasks \ {t} : a \in Holds(u))
    <2>1. past'[a] = [past[a] EXCEPT !.shared = shared]
        BY <1>2
    <2>2. past[a] \in [shared : BOOLEAN, stale : BOOLEAN, raced : BOOLEAN]
        BY DEF IInv, TypeInv
    <2>3. /\ past[a].shared => shared
          /\ a \in A /\ (\E u \in Tasks \ {t} : a \in Holds(u)) => shared
        OBVIOUS
    <2> HIDE DEF shared
    <2>4. /\ past'[a].stale = past[a].stale /\ past'[a].raced = past[a].raced
          /\ past'[a].shared = shared
        BY <2>1, <2>2
    <2>5. QED
        BY <2>3, <2>4
<1>6. UNCHANGED << header, block, live, saved, failure >>
    BY DEF Launch
<1>7. \A u \in Tasks : UsesOK(u)'
    <2>1. \A a \in Arenas : Exists(a) => Exists(a)'
        BY <1>6 DEF Exists
    <2>2. UsesOK(t)'
        BY <1>4, <1>6 DEF UsesOK, Exists
    <2>3. QED
        BY <1>4, <2>1, <2>2, OthersUse DEF IInv
<1>8. ASSUME NEW a \in Arenas PROVE SharingOK(a)'
    <2>1. SharingOK(a) /\ a # NoAllocation.arena
        BY ArenaAssumption DEF IInv, NoAllocation
    <2>2. QED
        BY <1>4, <1>5, <2>1 DEF SharingOK
<1>9. ASSUME NEW a \in Arenas PROVE HeaderOK(a)' /\ OrderOK(a)'
    <2>1. \A u \in Tasks : task'[u].pending.arena = a => task'[u].pending = task[u].pending
        BY <1>4, ArenaAssumption DEF NoAllocation
    <2>2. QED
        BY <1>5, <1>6, <2>1, SameArena DEF IInv
<1>10. AlignmentOK'
    BY <1>4, <1>6, SameAllocations DEF IInv
<1>11. QED
    BY <1>1, <1>7, <1>8, <1>9, <1>10 DEF IInv

\* A task between two allocations gives up some of the arenas it holds, or chooses
\* its implicit arena.
LEMMA OwnStep ==
    ASSUME IInv, TypeInv', NEW t \in Tasks, MayCall(t),
           UNCHANGED << header, block, live, saved, past, failure >>,
           \A u \in Tasks \ {t} : task'[u] = task[u],
           task'[t].pending = NoAllocation,
           Holds(t)' \subseteq Holds(t),
           UsesOK(t)'
    PROVE  IInv'
<1>1. \A u \in Tasks : UsesOK(u)'
    <2>1. \A a \in Arenas : Exists(a) => Exists(a)'
        BY DEF Exists
    <2>2. QED
        BY <2>1, OthersUse DEF IInv
<1>2. \A u \in Tasks : task'[u].pending = task[u].pending
    BY DEF MayCall
<1>3. ASSUME NEW a \in Arenas PROVE SharingOK(a)'
    <2>1. \A u \in Tasks : a \in Holds(u)' => a \in Holds(u)
        BY DEF Holds
    <2>2. \A u \in Tasks : task'[u].pending.arena = a =>
              task[u].pending.arena = a /\ (a \in Holds(u) => a \in Holds(u)')
        BY <1>2, ArenaAssumption DEF Holds, NoAllocation
    <2>3. QED
        BY <2>1, <2>2, SameSharing DEF IInv
<1>4. ASSUME NEW a \in Arenas PROVE HeaderOK(a)' /\ OrderOK(a)'
    BY <1>2, SameArena DEF IInv
<1>5. AlignmentOK'
    BY <1>2, SameAllocations DEF IInv
<1>6. QED
    BY <1>1, <1>3, <1>4, <1>5 DEF IInv

\* A task ends and holds nothing any more.
LEMMA FinishStep ==
    ASSUME IInv, NEW t \in Tasks, Finish(t)
    PROVE  IInv'
<1>1. task' = [task EXCEPT ![t] =
          [task[t] EXCEPT !.running = FALSE, !.modes = Idle.modes, !.released = {}]]
    BY DEF Finish
<1>2. task[t] \in TaskRecord /\ task \in [Tasks -> TaskRecord]
    BY WrittenTask DEF IInv, TypeInv
<1>3. /\ task'[t].pending = NoAllocation
      /\ ~ task'[t].running /\ task'[t].modes = Idle.modes /\ task'[t].released = {}
      /\ \A u \in Tasks \ {t} : task'[u] = task[u]
    BY <1>1, <1>2 DEF Finish, MayCall, TaskRecord
<1>4. Holds(t)' = {}
    BY <1>3 DEF Holds, Idle
<1>5. UsesOK(t)'
    BY <1>3, <1>4 DEF UsesOK
<1>6. QED
    BY <1>3, <1>4, <1>5, FinishTypes, OwnStep DEF Finish, IInv

\* A task releases an arena, though its implicit arena may still be this one.
LEMMA ReleaseStep ==
    ASSUME IInv, NEW t \in Tasks, NEW a \in Arenas, Release(t, a)
    PROVE  IInv'
<1> DEFINE modes == [b \in DOMAIN task[t].modes \ {a} |-> task[t].modes[b]]
<1>1. task' = [task EXCEPT ![t] =
          [task[t] EXCEPT !.modes = modes, !.released = task[t].released \cup {a}]]
    BY DEF Release
<1>2. task[t] \in TaskRecord /\ task \in [Tasks -> TaskRecord]
    BY WrittenTask DEF IInv, TypeInv
<1>3. DOMAIN modes = Holds(t) \ {a}
    BY DEF Holds
<1> HIDE DEF modes
<1>4. /\ task'[t].pending = NoAllocation
      /\ task'[t].modes = modes /\ task'[t].released = task[t].released \cup {a}
      /\ task'[t].implicit = task[t].implicit /\ task'[t].running = task[t].running
      /\ \A u \in Tasks \ {t} : task'[u] = task[u]
    <2>1. task[t].pending = NoAllocation
        BY DEF Release, MayCall
    <2> DEFINE released == task[t].released \cup {a}
    <2>2. task'[t] = [task[t] EXCEPT !.modes = modes, !.released = released]
        BY <1>1, <1>2
    <2>3. \A u \in Tasks \ {t} : task'[u] = task[u]
        BY <1>1, <1>2
    <2> HIDE DEF released
    <2>4. /\ task'[t].modes = modes /\ task'[t].released = released
          /\ task'[t].implicit = task[t].implicit /\ task'[t].running = task[t].running
          /\ task'[t].pending = task[t].pending
        BY <1>2, <2>2 DEF TaskRecord
    <2>5. QED
        BY <2>1, <2>3, <2>4 DEF released
<1>5. Holds(t)' = Holds(t) \ {a}
    BY <1>3, <1>4 DEF Holds
<1>6. a \in Holds(t) /\ UsesOK(t) /\ header' = header
    BY DEF Release, IInv
<1>7. UsesOK(t)'
    BY <1>4, <1>5, <1>6 DEF UsesOK, Exists
<1>8. QED
    BY <1>4, <1>5, <1>7, ReleaseTypes, OwnStep DEF Release, IInv

\* A task chooses one of its arenas as the implicit one.
LEMMA SetImplicitArenaStep ==
    ASSUME IInv, NEW t \in Tasks, NEW a \in Arenas \cup {NoArena}, SetImplicitArena(t, a)
    PROVE  IInv'
<1>1. task' = [task EXCEPT ![t] = [task[t] EXCEPT !.implicit = a]]
    BY DEF SetImplicitArena
<1>2. task[t] \in TaskRecord /\ task \in [Tasks -> TaskRecord]
    BY WrittenTask DEF IInv, TypeInv
<1>3. /\ task'[t].pending = NoAllocation
      /\ task'[t].modes = task[t].modes /\ task'[t].released = task[t].released
      /\ task'[t].implicit = a
      /\ \A u \in Tasks \ {t} : task'[u] = task[u]
    BY <1>1, <1>2 DEF SetImplicitArena, MayCall, TaskRecord
<1>4. Holds(t)' = Holds(t)
    BY <1>3 DEF Holds
<1>5. a \in Holds(t) \cup {NoArena} /\ UsesOK(t) /\ header' = header
    BY DEF SetImplicitArena, IInv
<1>6. UsesOK(t)'
    BY <1>3, <1>4, <1>5 DEF UsesOK, Exists
<1>7. QED
    BY <1>3, <1>4, <1>6, SetImplicitArenaTypes, OwnStep DEF SetImplicitArena, IInv

\* A failed assertion changes nothing else.
LEMMA FailStep ==
    ASSUME IInv, NEW x \in {"root", "small", "overflow", "uninitialized"}, Fail(x)
    PROVE  IInv'
<1>1. TypeInv'
    BY FailTypes DEF IInv
<1>2. UNCHANGED << header, block, task, live, saved, past >>
    BY DEF Fail
<1>3. QED
    BY <1>1, <1>2 DEF IInv, UsesOK, SharingOK, HeaderOK, AlignmentOK, OrderOK, Holds, Exists,
                      Neat, End, Start, IsAligned

-----------------------------------------------------------------------------
(* The steps that change an arena                                          *)

\* A new arena: a header that fits its datablock, and no allocations yet.
LEMMA CreateArenaStep ==
    ASSUME IInv, NEW t \in Tasks, NEW a \in Arenas, NEW bytes \in ArenaBytes,
           CreateArena(t, a, bytes)
    PROVE  IInv'
<1>1. TypeInv'
    BY CreateArenaTypes DEF IInv
<1>2. CASE bytes < HeaderSize
    BY <1>2, FailStep DEF CreateArena, HeaderSize
<1>3. CASE ~ bytes < HeaderSize
    <2> DEFINE modes == [b \in DOMAIN task[t].modes \cup {a} |->
                            IF b = a THEN "RW" ELSE task[t].modes[b]]
    <2>1. bytes \in Nat /\ bytes >= HeaderSize /\ HeaderSize * (bytes + HeaderSize) < 2 * Half
        BY <1>3, ArenaAssumption DEF HeaderSize
    <2>2. /\ block' = [block EXCEPT ![a] = Unsigned(HeaderSize * Unsigned(bytes + HeaderSize))]
          /\ header' = [header EXCEPT ![a] = AllocatorDbInit(bytes)]
          /\ task' = [task EXCEPT ![t].modes = modes]
          /\ UNCHANGED << live, saved, past, failure >>
          /\ ~ Exists(a)
          /\ task[t].pending = NoAllocation
        BY <1>3, <2>1 DEF CreateArena, MayCall, HeaderSize
    <2>3. DOMAIN modes = Holds(t) \cup {a}
        BY DEF Holds
    <2> HIDE DEF modes
    <2>4. task[t] \in TaskRecord /\ task \in [Tasks -> TaskRecord]
          /\ header \in [Arenas -> Header] /\ block \in [Arenas -> Nat]
        BY WrittenTask DEF IInv, TypeInv, Header
    <2>5. /\ task'[t].modes = modes
          /\ task'[t].pending = NoAllocation /\ task'[t].released = task[t].released
          /\ task'[t].implicit = task[t].implicit /\ task'[t].running = task[t].running
          /\ \A u \in Tasks \ {t} : task'[u] = task[u]
        BY <2>2, <2>4 DEF TaskRecord
    <2>6. Holds(t)' = Holds(t) \cup {a}
        BY <2>3, <2>5 DEF Holds
    <2>7. /\ header'[a] = [size |-> bytes, offset |-> HeaderSize]
          /\ \A b \in Arenas \ {a} : header'[b] = header[b] /\ block'[b] = block[b]
          /\ block'[a] = Unsigned(HeaderSize * Unsigned(bytes + HeaderSize))
        BY <2>2, <2>4 DEF AllocatorDbInit
    <2>8. block'[a] = HeaderSize * (bytes + HeaderSize)
        <3>1. bytes + HeaderSize \in Nat /\ bytes + HeaderSize < 2 * Half
            BY <2>1, ArenaAssumption DEF HeaderSize
        <3>2. HeaderSize * (bytes + HeaderSize) \in Nat
            BY <2>1 DEF HeaderSize
        <3>3. QED
            BY <2>1, <2>7, <3>1, <3>2, UnsignedFits
    <2>9. Exists(a)' /\ \A b \in Arenas : Exists(b) => Exists(b)'
        BY <2>1, <2>7 DEF Exists, Absent, HeaderSize
    <2>10. \A u \in Tasks : a \notin Holds(u) /\ task[u].pending.arena # a
        BY <2>2, PendingArena DEF IInv, UsesOK
    <2>11. \A u \in Tasks : UsesOK(u)'
        <3>1. UsesOK(t) /\ Holds(t) \subseteq Arenas /\ task[t].released \subseteq Arenas
            BY <2>4, PendingArena DEF IInv, TaskRecord
        <3>2. UsesOK(t)'
            BY <2>5, <2>6, <2>9, <3>1 DEF UsesOK
        <3>3. QED
            BY <1>1, <2>5, <2>9, <3>2, OthersUse DEF IInv
    <2>12. \A u \in Tasks : task'[u].pending = task[u].pending
        BY <2>2, <2>5
    <2>13. ASSUME NEW b \in Arenas PROVE SharingOK(b)'
        <3>1. CASE b = a
            <4>1. \A u \in Tasks : task'[u].pending.arena # a
                BY <2>10, <2>12
            <4>2. \A u \in Tasks \ {t} : a \notin Holds(u)'
                BY <2>5, <2>10 DEF Holds
            <4>3. past' = past /\ SharingOK(a)
                BY <2>2 DEF IInv
            <4>4. QED
                BY <3>1, <4>1, <4>2, <4>3 DEF SharingOK
        <3>2. CASE b # a
            <4>1. \A u \in Tasks : b \in Holds(u)' <=> b \in Holds(u)
                BY <2>5, <2>6, <3>2 DEF Holds
            <4>2. QED
                BY <2>2, <2>12, <4>1, SameSharing DEF IInv
        <3>3. QED
            BY <3>1, <3>2
    <2>14. ASSUME NEW b \in Arenas PROVE HeaderOK(b)' /\ OrderOK(b)'
        <3>1. CASE b = a
            <4>1. live[a] = << >> /\ saved[a] = << >> /\ live' = live /\ saved' = saved
                BY <2>2 DEF IInv, HeaderOK
            <4>2. \A u \in Tasks : task'[u].pending.arena # a
                BY <2>10, <2>12
            <4>3. HeaderOK(a)'
                BY <2>1, <2>7, <2>8, <2>9, <4>1 DEF HeaderOK, HeaderSize
            <4>4. OrderOK(a)'
                BY <2>7, <4>1, <4>2 DEF OrderOK, Neat, RootAt, HeaderSize
            <4>5. QED
                BY <3>1, <4>3, <4>4
        <3>2. CASE b # a
            BY <2>2, <2>7, <2>12, <3>2, SameArena DEF IInv
        <3>3. QED
            BY <3>1, <3>2
    <2>15. AlignmentOK'
        BY <2>2, <2>12, SameAllocations DEF IInv
    <2>16. QED
        BY <1>1, <2>11, <2>13, <2>14, <2>15 DEF IInv
<1>4. QED
    BY <1>2, <1>3

\* The task that enters the allocator of a holds a, or has released it.
LEMMA BeginAllocationStep ==
    ASSUME IInv, NEW t \in Tasks, NEW a \in Arenas, NEW size \in TypeSizes, NEW count \in Counts,
           MayCall(t), Exists(a), BeginAllocation(t, a, size, count),
           a \in Holds(t) \/ ImplicitReleased(t)
    PROVE  IInv'
<1> DEFINE x == [arena |-> a, start |-> Start(header[a], size), size |-> size, count |-> count]
<1>1. TypeInv' /\ task' = [task EXCEPT ![t] = Entered(t, a, size, count)]
    BY BeginAllocationTypes DEF IInv
<1>2. task[t] \in TaskRecord /\ task \in [Tasks -> TaskRecord]
    BY WrittenTask DEF IInv, TypeInv
<1>3. /\ x.arena = a /\ x.size = size /\ x.start = Start(header[a], size)
      /\ x # NoAllocation
    BY ArenaAssumption DEF NoAllocation
<1>4. Entered(t, a, size, count) = [task[t] EXCEPT !.pending = x]
    BY DEF Entered
<1> HIDE DEF x
<1>5. /\ task'[t].pending = x
      /\ task'[t].modes = task[t].modes /\ task'[t].released = task[t].released
      /\ task'[t].implicit = task[t].implicit /\ task'[t].running = task[t].running
      /\ \A u \in Tasks \ {t} : task'[u] = task[u]
    BY <1>1, <1>2, <1>4 DEF TaskRecord
<1>6. \A u \in Tasks : Holds(u)' = Holds(u)
    BY <1>5 DEF Holds
<1>7. UNCHANGED << header, block, live, saved, failure >> /\ task[t].pending = NoAllocation
    BY DEF BeginAllocation, MayCall
<1>8. /\ past'[a].shared = past[a].shared
      /\ past'[a].raced <=> past[a].raced \/ Contended(t, a)
      /\ past'[a].stale <=> past[a].stale \/ a \notin Holds(t)
      /\ \A b \in Arenas \ {a} : past'[b] = past[b]
    <2> DEFINE raced == past[a].raced \/ Contended(t, a)
               stale == past[a].stale \/ (a \notin Holds(t) /\ ImplicitReleased(t))
    <2>1. past' = [past EXCEPT ![a].raced = raced, ![a].stale = stale]
        BY DEF BeginAllocation
    <2>2. past \in [Arenas -> [shared : BOOLEAN, stale : BOOLEAN, raced : BOOLEAN]]
        BY DEF IInv, TypeInv
    <2>3. /\ raced <=> past[a].raced \/ Contended(t, a)
          /\ stale <=> past[a].stale \/ a \notin Holds(t)
        OBVIOUS
    <2> HIDE DEF raced, stale
    <2>4. /\ past'[a].shared = past[a].shared /\ past'[a].raced = raced /\ past'[a].stale = stale
          /\ \A b \in Arenas \ {a} : past'[b] = past[b]
        BY <2>1, <2>2
    <2>5. QED
        BY <2>3, <2>4
<1>9. \A u \in Tasks : UsesOK(u)'
    <2>1. \A b \in Arenas : Exists(b) => Exists(b)'
        BY <1>7 DEF Exists
    <2>2. UsesOK(t)'
        BY <1>3, <1>5, <1>6, <1>7 DEF UsesOK, Exists, IInv
    <2>3. QED
        BY <1>1, <1>5, <2>1, <2>2, OthersUse DEF IInv
<1>10. ASSUME NEW b \in Arenas PROVE SharingOK(b)'
    <2>1. CASE b = a
        <3>1. SharingOK(a) /\ (Contended(t, a) <=> \E u \in Tasks \ {t} : task[u].pending.arena = a)
            BY DEF IInv, Contended
        <3>2. \A u \in Tasks : task'[u].pending.arena = a => a \in Holds(u)' \/ past'[a].stale
            BY <1>5, <1>6, <1>8, <3>1 DEF SharingOK
        <3>3. \A u, v \in Tasks : u # v /\ a \in Holds(u)' /\ a \in Holds(v)' => past'[a].shared
            BY <1>6, <1>8, <3>1 DEF SharingOK
        <3>4. \A u, v \in Tasks :
                u # v /\ task'[u].pending.arena = a /\ task'[v].pending.arena = a => past'[a].raced
            BY <1>5, <1>8, <3>1 DEF SharingOK
        <3>5. past'[a].raced => past'[a].shared \/ past'[a].stale
            BY <1>8, <3>1 DEF SharingOK
        <3>6. QED
            BY <2>1, <3>2, <3>3, <3>4, <3>5 DEF SharingOK
    <2>2. CASE b # a
        BY <1>3, <1>5, <1>6, <1>8, <2>2, SameSharing DEF IInv
    <2>3. QED
        BY <2>1, <2>2
<1>11. ASSUME NEW b \in Arenas PROVE HeaderOK(b)' /\ OrderOK(b)'
    <2>1. CASE b = a
        <3>1. HeaderOK(a)'
            BY <1>7 DEF IInv, HeaderOK, Exists
        <3>2. CASE past'[a].raced \/ past'[a].stale
            BY <2>1, <3>1, <3>2 DEF OrderOK
        <3>3. CASE ~ past'[a].raced /\ ~ past'[a].stale
            <4>1. \A u \in Tasks \ {t} : task'[u].pending.arena # a
                BY <1>5, <1>8, <3>3 DEF Contended
            <4>2. task'[t].pending.start = Start(header[a], task'[t].pending.size)
                BY <1>3, <1>5
            <4>3. ~ past[a].raced /\ ~ past[a].stale /\ OrderOK(a)
                BY <1>8, <3>3 DEF IInv
            <4>4. OrderOK(a)'
                BY <1>7, <4>1, <4>2, <4>3 DEF OrderOK, Exists, Neat, End, Start
            <4>5. QED
                BY <2>1, <3>1, <4>4
        <3>4. QED
            BY <3>2, <3>3
    <2>2. CASE b # a
        BY <1>3, <1>5, <1>7, <1>8, <2>2, SameArena DEF IInv
    <2>3. QED
        BY <2>1, <2>2
<1>12. AlignmentOK'
    <2>1. header[a] \in Header
        BY DEF IInv, TypeInv, Header
    <2>2. IsAligned(x)
        BY <1>3, <2>1, StartFits DEF IsAligned
    <2>3. QED
        BY <1>5, <1>7, <2>2 DEF IInv, AlignmentOK, IsAligned
<1>13. QED
    BY <1>1, <1>9, <1>10, <1>11, <1>12 DEF IInv

\* The allocations in front of the n-th do not depend on those behind it.
LEMMA NeatPart ==
    ASSUME NEW seq \in Seq(Allocation), NEW new \in Seq(Allocation), NEW n \in Nat, NEW offset,
           n <= Len(seq), n <= Len(new), \A i \in 1 .. n : new[i] = seq[i],
           Neat(seq, n, offset)
    PROVE  Neat(new, n, offset)
<1>1. \A i \in 1 .. n : new[i] = seq[i] /\ End(new[i]) = End(seq[i])
    BY DEF End
<1>2. n > 0 => new[1] = seq[1]
    OBVIOUS
<1>3. SUFFICES ASSUME \A i \in 1 .. n : End(new[i]) < Half
               PROVE  /\ offset >= HeaderSize
                      /\ \A i \in 1 .. n : new[i].start >= HeaderSize /\ End(new[i]) <= offset
                      /\ \A i, j \in 1 .. n : i < j => End(new[i]) <= new[j].start
                      /\ n = 0 => offset = RootAt
                      /\ n > 0 => new[1].start = RootAt
    BY DEF Neat
<1>4. /\ offset >= HeaderSize
      /\ \A i \in 1 .. n : seq[i].start >= HeaderSize /\ End(seq[i]) <= offset
      /\ \A i, j \in 1 .. n : i < j => End(seq[i]) <= seq[j].start
      /\ n = 0 => offset = RootAt
      /\ n > 0 => seq[1].start = RootAt
    BY <1>1, <1>3 DEF Neat
<1>5. QED
    BY <1>1, <1>2, <1>4

\* One more allocation, at the offset or behind it.
LEMMA NeatAppend ==
    ASSUME NEW seq \in Seq(Allocation), NEW x \in Allocation, NEW offset \in Int, NEW new \in Int,
           x.start >= offset, offset = RootAt => x.start = RootAt,
           x.start >= 0 /\ End(x) < Half => new = End(x),
           Neat(seq, Len(seq), offset)
    PROVE  Neat(Append(seq, x), Len(Append(seq, x)), new)
<1> DEFINE n == Len(seq)
           both == Append(seq, x)
<1>1. /\ n \in Nat /\ Len(both) = n + 1
      /\ \A i \in 1 .. n : both[i] = seq[i] /\ seq[i] \in Allocation
      /\ both[n + 1] = x
    OBVIOUS
<1> HIDE DEF both, n
<1>2. \A y \in Allocation : y.start \in Int /\ End(y) \in Int /\ End(y) >= y.start
    BY EndIsBehindStart DEF Allocation
<1>3. SUFFICES ASSUME \A i \in 1 .. n + 1 : End(both[i]) < Half
               PROVE  /\ new >= HeaderSize
                      /\ \A i \in 1 .. n + 1 : both[i].start >= HeaderSize /\ End(both[i]) <= new
                      /\ \A i, j \in 1 .. n + 1 : i < j => End(both[i]) <= both[j].start
                      /\ both[1].start = RootAt
    BY <1>1 DEF Neat, n, both
<1>4. (\A i \in 1 .. n : End(seq[i]) < Half) /\ End(x) < Half
    BY <1>1, <1>3
<1>5. /\ offset >= HeaderSize
      /\ \A i \in 1 .. n : seq[i].start >= HeaderSize /\ End(seq[i]) <= offset
      /\ \A i, j \in 1 .. n : i < j => End(seq[i]) <= seq[j].start
      /\ n = 0 => offset = RootAt
      /\ n > 0 => seq[1].start = RootAt
    BY <1>4 DEF Neat, n
<1>6. new = End(x) /\ x.start >= HeaderSize /\ new >= x.start
    BY <1>2, <1>4, <1>5 DEF HeaderSize
<1>7. ASSUME NEW i \in 1 .. n + 1
      PROVE  both[i].start >= HeaderSize /\ End(both[i]) <= new
    <2>1. CASE i \in 1 .. n
        <3>1. both[i] = seq[i] /\ End(seq[i]) \in Int /\ HeaderSize \in Int
            BY <1>1, <1>2, <2>1 DEF HeaderSize
        <3>2. QED
            BY <1>2, <1>5, <1>6, <2>1, <3>1 DEF Allocation
    <2>2. CASE i = n + 1
        BY <1>1, <1>2, <1>6, <2>2
    <2>3. QED
        BY <1>1, <2>1, <2>2
<1>8. \A i, j \in 1 .. n + 1 : i < j => End(both[i]) <= both[j].start
    <2> SUFFICES ASSUME NEW i \in 1 .. n + 1, NEW j \in 1 .. n + 1, i < j
                 PROVE  End(both[i]) <= both[j].start
        OBVIOUS
    <2>1. i \in 1 .. n /\ (j \in 1 .. n \/ j = n + 1)
        BY <1>1
    <2>2. CASE j = n + 1
        <3>1. both[i] = seq[i] /\ both[j] = x /\ End(seq[i]) \in Int
            BY <1>1, <1>2, <2>1, <2>2
        <3>2. QED
            BY <1>2, <1>5, <2>1, <3>1
    <2>4. CASE j \in 1 .. n
        BY <1>1, <1>5, <2>1, <2>4
    <2>5. QED
        BY <2>1, <2>2, <2>4
<1>9. both[1].start = RootAt
    BY <1>1, <1>5
<1>10. new >= HeaderSize
    <2>1. x.start \in Int /\ HeaderSize \in Int
        BY <1>2 DEF HeaderSize
    <2>2. QED
        BY <1>6, <2>1
<1>11. QED
    BY <1>7, <1>8, <1>9, <1>10

\* An allocation succeeds: if no two tasks have raced, it lies behind all those
\* before, and the offset behind it.
LEMMA EndedStep ==
    ASSUME IInv, NEW t \in Tasks, task[t].pending \in Pending, Ended(t)
    PROVE  IInv'
<1>1. TypeInv'
    BY EndedTypes DEF IInv
<1>2. PICK x \in Pending, a \in Arenas : x = task[t].pending /\ a = x.arena
    BY DEF Pending
<1> DEFINE offset == OffsetAfter(x.start, x.size, x.count)
<1>3. x \in Pending /\ a \in Arenas /\ Made(x) \in Allocation /\ x # NoAllocation
      /\ offset \in Offset /\ Made(x).start = x.start /\ Made(x).size = x.size
      /\ End(Made(x)) = End(x)
    BY <1>2, OffsetAfterFits DEF Pending, Made, Allocation, Ended, End
<1>4. /\ offset <= header[a].size
      /\ header' = [header EXCEPT ![a].offset = offset]
      /\ live' = [live EXCEPT ![a] = Append(@, Made(x))]
      /\ task' = [task EXCEPT ![t] = [task[t] EXCEPT !.pending = NoAllocation]]
      /\ UNCHANGED << block, saved, past, failure >>
    BY <1>2 DEF Ended
<1>5. x.start >= 0 /\ End(x) < Half => offset = End(x)
    BY <1>3, OffsetAfterFits DEF Pending
<1>6. \A u \in Tasks : task[u].pending.arena = a /\ u # t => past[a].raced
    BY <1>2, <1>3 DEF IInv, SharingOK
<1> HIDE DEF offset
<1>7. /\ task[t] \in TaskRecord /\ task \in [Tasks -> TaskRecord]
      /\ header \in [Arenas -> Header] /\ live \in [Arenas -> Seq(Allocation)]
      /\ saved[a] \in Seq(SavedState)
    BY <1>3, WrittenTask DEF IInv, TypeInv, Header, SavedState
<1>8. /\ task'[t].pending = NoAllocation
      /\ task'[t].modes = task[t].modes /\ task'[t].released = task[t].released
      /\ task'[t].implicit = task[t].implicit /\ task'[t].running = task[t].running
      /\ \A u \in Tasks \ {t} : task'[u] = task[u]
    BY <1>4, <1>7 DEF TaskRecord
<1>9. \A u \in Tasks : Holds(u)' = Holds(u)
    BY <1>8 DEF Holds
<1>10. /\ header'[a].offset = offset /\ header'[a].size = header[a].size
       /\ live'[a] = Append(live[a], Made(x))
       /\ \A b \in Arenas \ {a} : header'[b] = header[b] /\ live'[b] = live[b]
    BY <1>3, <1>4, <1>7 DEF Header
<1>11. Exists(a) /\ HeaderOK(a) /\ OrderOK(a)
    BY <1>2, <1>3 DEF IInv, UsesOK
<1>12. Exists(a)' /\ \A b \in Arenas : Exists(b) => Exists(b)'
    <2>1. header'[a].size >= HeaderSize
        BY <1>10, <1>11 DEF HeaderOK
    <2>2. Exists(a)'
        BY <2>1 DEF Exists, Absent, HeaderSize
    <2>3. QED
        BY <1>10, <2>2 DEF Exists
<1>13. \A u \in Tasks : UsesOK(u)'
    <2>1. UsesOK(t) /\ Holds(t) \subseteq Arenas /\ task[t].released \subseteq Arenas
        BY <1>7, PendingArena DEF IInv, TaskRecord
    <2>2. UsesOK(t)'
        BY <1>8, <1>9, <1>12, <2>1 DEF UsesOK
    <2>3. QED
        BY <1>1, <1>8, <1>12, <2>2, OthersUse DEF IInv
<1>14. \A u \in Tasks : \A b \in Arenas :
         task'[u].pending.arena = b => task'[u].pending = task[u].pending /\ u # t
    BY <1>8, ArenaAssumption DEF NoAllocation
<1>15. ASSUME NEW b \in Arenas PROVE SharingOK(b)'
    BY <1>4, <1>9, <1>14, SameSharing DEF IInv
<1>16. HeaderOK(a)'
    <2>1. Len(live'[a]) = Len(live[a]) + 1
        BY <1>3, <1>7, <1>10
    <2>2. \A k \in DOMAIN saved[a] : saved[a][k].count \in Nat
        <3>1. \A k \in DOMAIN saved[a] : saved[a][k] \in SavedState
            BY <1>7
        <3>2. QED
            BY <3>1 DEF SavedState
    <2>3. Len(live[a]) \in Nat
        BY <1>3, <1>7
    <2>4. QED
        <3>1. /\ header'[a].offset <= header'[a].size
              /\ header'[a].size <= block'[a]
              /\ HeaderSize <= header'[a].size
            BY <1>4, <1>10, <1>11 DEF HeaderOK
        <3>2. \A k \in DOMAIN saved'[a] :
                /\ saved'[a][k].offset <= header'[a].size
                /\ saved'[a][k].count <= Len(live'[a])
                /\ \A l \in 1 .. k : saved'[a][l].count <= saved'[a][k].count
            BY <1>4, <1>10, <1>11, <2>1, <2>2, <2>3 DEF HeaderOK
        <3>3. QED
            BY <1>12, <3>1, <3>2 DEF HeaderOK
<1>17. OrderOK(a)'
    <2> SUFFICES ASSUME ~ past[a].raced, ~ past[a].stale
                 PROVE  /\ Neat(live'[a], Len(live'[a]), offset)
                        /\ \A k \in DOMAIN saved[a] :
                              Neat(live'[a], saved[a][k].count, saved[a][k].offset)
                        /\ \A u \in Tasks : task'[u].pending.arena # a
        <3>1. header'[a].offset = offset /\ past' = past /\ saved' = saved
            BY <1>4, <1>10
        <3>2. QED
            BY <3>1 DEF OrderOK
    <2>1. /\ Neat(live[a], Len(live[a]), header[a].offset)
          /\ \A k \in DOMAIN saved[a] : Neat(live[a], saved[a][k].count, saved[a][k].offset)
          /\ x.start = Start(header[a], x.size)
        BY <1>2, <1>11 DEF OrderOK
    <2>2. x.start >= header[a].offset /\ (header[a].offset = RootAt => x.start = RootAt)
        BY <1>3, <1>7, <2>1, StartFits DEF Pending
    <2>3. live[a] \in Seq(Allocation) /\ header[a].offset \in Int /\ offset \in Int
        BY <1>3, <1>7, ArenaAssumption DEF Header, Offset
    <2>4. Neat(live'[a], Len(live'[a]), offset)
        BY <1>3, <1>5, <1>10, <2>1, <2>2, <2>3, NeatAppend
    <2>5. ASSUME NEW k \in DOMAIN saved[a]
          PROVE  Neat(live'[a], saved[a][k].count, saved[a][k].offset)
        <3>1. saved[a][k] \in SavedState
            BY <1>7
        <3>2. saved[a][k].count \in Nat /\ saved[a][k].count <= Len(live[a])
            BY <1>11, <3>1 DEF HeaderOK, SavedState
        <3>3. live'[a] \in Seq(Allocation) /\ Len(live'[a]) = Len(live[a]) + 1
              /\ Len(live[a]) \in Nat
              /\ \A i \in 1 .. Len(live[a]) : live'[a][i] = live[a][i]
            BY <1>3, <1>10, <2>3
        <3>4. saved[a][k].count <= Len(live'[a])
            BY <3>2, <3>3
        <3>5. \A i \in 1 .. saved[a][k].count : live'[a][i] = live[a][i]
            BY <3>2, <3>3
        <3>6. Neat(live[a], saved[a][k].count, saved[a][k].offset)
            BY <2>1
        <3>7. QED
            BY <2>3, <3>2, <3>3, <3>4, <3>5, <3>6, NeatPart
    <2>6. \A u \in Tasks : task'[u].pending.arena # a
        BY <1>3, <1>6, <1>14
    <2>7. QED
        BY <2>4, <2>5, <2>6
<1>18. ASSUME NEW b \in Arenas \ {a} PROVE HeaderOK(b)' /\ OrderOK(b)'
    BY <1>4, <1>10, <1>14, SameArena DEF IInv
<1>19. AlignmentOK'
    <2>1. IsAligned(Made(x))
        BY <1>2, <1>3 DEF IInv, AlignmentOK, IsAligned
    <2>2. ASSUME NEW b \in Arenas, NEW i \in DOMAIN live'[b] PROVE IsAligned(live'[b][i])
        <3>1. CASE b = a
            <4>1. live[a] \in Seq(Allocation) /\ \A j \in DOMAIN live[a] : IsAligned(live[a][j])
                BY <1>3, <1>7 DEF IInv, AlignmentOK
            <4>2. live'[a][i] = Made(x) \/ (i \in DOMAIN live[a] /\ live'[a][i] = live[a][i])
                BY <1>3, <1>10, <2>2, <3>1, <4>1
            <4>3. QED
                BY <2>1, <3>1, <4>1, <4>2
        <3>2. CASE b # a
            BY <1>10, <2>2, <3>2 DEF IInv, AlignmentOK
        <3>3. QED
            BY <3>1, <3>2
    <2>3. \A u \in Tasks : task'[u].pending # NoAllocation => IsAligned(task'[u].pending)
        BY <1>8 DEF IInv, AlignmentOK
    <2>4. QED
        BY <2>2, <2>3 DEF AlignmentOK, IsAligned
<1>20. QED
    <2>1. \A b \in Arenas : HeaderOK(b)' /\ OrderOK(b)'
        BY <1>16, <1>17, <1>18
    <2>2. QED
        BY <1>1, <1>13, <1>15, <1>19, <2>1 DEF IInv

\* An allocation goes astray: nothing is claimed of its arena from then on but that
\* its objects are aligned.
LEMMA AstrayStep ==
    ASSUME IInv, NEW a \in Arenas, Exists(a), NEW size \in TypeSizes, NEW count \in Counts,
           AllocateAstray(a, size, count)
    PROVE  IInv'
<1> SUFFICES ASSUME NEW x \in Allocation, Strayed(a, x), IsAligned(x) PROVE IInv'
    BY AstrayIsAligned, FailStep DEF IInv
<1>1. TypeInv'
    BY StrayedTypes DEF IInv
<1>2. /\ UNCHANGED << header, block, task, saved >>
      /\ live \in [Arenas -> Seq(Allocation)] /\ live[a] \in Seq(Allocation)
      /\ past \in [Arenas -> [shared : BOOLEAN, stale : BOOLEAN, raced : BOOLEAN]]
      /\ saved \in [Arenas -> Seq(SavedState)]
    BY DEF Strayed, IInv, TypeInv, SavedState
<1>3. /\ live'[a] = Append(live[a], x)
      /\ past'[a].stale /\ past'[a].shared = past[a].shared /\ past'[a].raced = past[a].raced
      /\ \A b \in Arenas \ {a} : live'[b] = live[b] /\ past'[b] = past[b]
    BY <1>2 DEF Strayed
<1>4. \A u \in Tasks : UsesOK(u)'
    BY <1>2 DEF IInv, UsesOK, Exists, Holds
<1>5. \A b \in Arenas : SharingOK(b)'
    <2>1. SharingOK(a)'
        BY <1>2, <1>3 DEF IInv, SharingOK, Holds
    <2>2. ASSUME NEW b \in Arenas \ {a} PROVE SharingOK(b)'
        BY <1>2, <1>3, SameSharing DEF IInv, Holds
    <2>3. QED
        BY <2>1, <2>2
<1>6. HeaderOK(a)' /\ OrderOK(a)'
    <2>1. HeaderOK(a) /\ Len(live'[a]) = Len(live[a]) + 1 /\ Len(live[a]) \in Nat
        BY <1>2, <1>3 DEF IInv
    <2>2. \A k \in DOMAIN saved[a] : saved[a][k].count \in Nat
        <3>1. \A k \in DOMAIN saved[a] : saved[a][k] \in SavedState
            BY <1>2
        <3>2. QED
            BY <3>1 DEF SavedState
    <2>3. HeaderOK(a)'
        BY <1>2, <2>1, <2>2 DEF HeaderOK, Exists
    <2>4. QED
        BY <1>3, <2>3 DEF OrderOK
<1>7. ASSUME NEW b \in Arenas \ {a} PROVE HeaderOK(b)' /\ OrderOK(b)'
    BY <1>2, <1>3, SameArena DEF IInv
<1>8. AlignmentOK'
    <2>1. ASSUME NEW b \in Arenas, NEW i \in DOMAIN live'[b] PROVE IsAligned(live'[b][i])
        <3>1. CASE b = a
            <4>1. live'[a][i] = x \/ (i \in DOMAIN live[a] /\ live'[a][i] = live[a][i])
                BY <1>2, <1>3, <2>1, <3>1
            <4>2. QED
                BY <3>1, <4>1 DEF IInv, AlignmentOK
        <3>2. CASE b # a
            BY <1>3, <2>1, <3>2 DEF IInv, AlignmentOK
        <3>3. QED
            BY <3>1, <3>2
    <2>2. \A u \in Tasks : task'[u].pending # NoAllocation => IsAligned(task'[u].pending)
        BY <1>2 DEF IInv, AlignmentOK
    <2>3. QED
        BY <2>1, <2>2 DEF AlignmentOK, IsAligned
<1>9. QED
    <2>1. \A b \in Arenas : HeaderOK(b)' /\ OrderOK(b)'
        BY <1>6, <1>7
    <2>2. QED
        BY <1>1, <1>4, <1>5, <1>8, <2>1 DEF IInv

\* The state saved is that of all allocations in use.
LEMMA SaveStateStep ==
    ASSUME IInv, NEW t \in Tasks, NEW a \in Arenas, SaveState(t, a)
    PROVE  IInv'
<1> DEFINE x == [offset |-> header[a].offset, count |-> Len(live[a])]
           n == Len(saved[a])
<1>1. TypeInv'
    BY SaveStateTypes DEF IInv
<1>2. /\ saved' = [saved EXCEPT ![a] = Append(saved[a], x)]
      /\ UNCHANGED << header, block, task, live, past, failure >>
      /\ a \in Holds(t)
    BY DEF SaveState
<1>3. /\ saved[a] \in Seq(SavedState) /\ saved \in [Arenas -> Seq(SavedState)]
      /\ header[a] \in Header /\ live[a] \in Seq(Allocation)
    BY DEF IInv, TypeInv, Header, SavedState
<1>4. x.offset = header[a].offset /\ x.count = Len(live[a])
    OBVIOUS
<1> HIDE DEF x
<1>5. /\ saved'[a] = Append(saved[a], x)
      /\ \A b \in Arenas \ {a} : saved'[b] = saved[b]
    BY <1>2, <1>3
<1>6. /\ DOMAIN saved'[a] = 1 .. n + 1 /\ saved'[a][n + 1] = x /\ n \in Nat
      /\ DOMAIN saved[a] = 1 .. n
      /\ \A k \in 1 .. n : saved'[a][k] = saved[a][k] /\ saved[a][k] \in SavedState
    BY <1>3, <1>5
<1> HIDE DEF n
<1>7. Exists(a) /\ HeaderOK(a) /\ OrderOK(a)
    BY <1>2 DEF IInv, UsesOK
<1>8. \A u \in Tasks : UsesOK(u)'
    BY <1>2 DEF IInv, UsesOK, Exists, Holds
<1>9. \A b \in Arenas : SharingOK(b)'
    BY <1>2 DEF IInv, SharingOK, Holds
<1>10. HeaderOK(a)'
    <2>1. \A k \in 1 .. n + 1 : k \in 1 .. n \/ k = n + 1
        BY <1>6
    <2>2. ASSUME NEW k \in 1 .. n + 1
          PROVE  /\ saved'[a][k].offset <= header[a].size
                 /\ saved'[a][k].count <= Len(live[a])
                 /\ \A l \in 1 .. k : saved'[a][l].count <= saved'[a][k].count
        <3>1. CASE k \in 1 .. n
            <4>1. \A l \in 1 .. k : l \in 1 .. n
                BY <1>6, <3>1
            <4>2. QED
                BY <1>6, <1>7, <3>1, <4>1 DEF HeaderOK
        <3>2. CASE k = n + 1
            <4>1. Len(live[a]) \in Nat
                BY <1>3
            <4>2. ASSUME NEW l \in 1 .. k PROVE saved'[a][l].count <= Len(live[a])
                <5>1. l \in 1 .. n \/ l = n + 1
                    BY <1>6, <3>2
                <5>2. CASE l \in 1 .. n
                    BY <1>6, <1>7, <5>2 DEF HeaderOK
                <5>3. CASE l = n + 1
                    BY <1>4, <1>6, <4>1, <5>3
                <5>4. QED
                    BY <5>1, <5>2, <5>3
            <4>3. saved'[a][k] = x /\ header[a].offset <= header[a].size
                BY <1>6, <1>7, <3>2 DEF HeaderOK
            <4>4. QED
                BY <1>4, <4>1, <4>2, <4>3
        <3>3. QED
            BY <2>1, <3>1, <3>2
    <2>3. Exists(a)' /\ header'[a].offset <= header'[a].size /\ header'[a].size <= block'[a]
          /\ HeaderSize <= header'[a].size
        BY <1>2, <1>7 DEF HeaderOK, Exists
    <2>4. QED
        BY <1>2, <1>6, <2>2, <2>3 DEF HeaderOK
<1>11. OrderOK(a)'
    <2> SUFFICES ASSUME ~ past[a].raced, ~ past[a].stale, NEW k \in 1 .. n + 1
                 PROVE  Neat(live[a], saved'[a][k].count, saved'[a][k].offset)
        BY SMTT(30), <1>2, <1>6, <1>7 DEF OrderOK, Exists, Neat, End, Start
    <2>1. CASE k \in 1 .. n
        BY <1>6, <1>7, <2>1 DEF OrderOK
    <2>2. CASE k = n + 1
        BY <1>4, <1>6, <1>7, <2>2 DEF OrderOK
    <2>3. QED
        BY <1>6, <2>1, <2>2
<1>12. ASSUME NEW b \in Arenas \ {a} PROVE HeaderOK(b)' /\ OrderOK(b)'
    BY <1>2, <1>5, SameArena DEF IInv
<1>13. AlignmentOK'
    BY <1>2, SameAllocations DEF IInv
<1>14. QED
    <2>1. \A b \in Arenas : HeaderOK(b)' /\ OrderOK(b)'
        BY <1>10, <1>11, <1>12
    <2>2. QED
        BY <1>1, <1>8, <1>9, <1>13, <2>1 DEF IInv

\* The state restored is that of the allocations that stay in use.
LEMMA RestoredStep ==
    ASSUME IInv, NEW t \in Tasks, NEW a \in Arenas, MayCall(t), a \in Holds(t),
           NEW k \in DOMAIN saved[a], Restored(t, a, k)
    PROVE  IInv'
<1>1. TypeInv' /\ HeaderOK(a)
    BY RestoredTypes DEF IInv
<1>2. PICK x : x = saved[a][k]
    OBVIOUS
<1>3. /\ saved[a] \in Seq(SavedState) /\ saved \in [Arenas -> Seq(SavedState)]
      /\ header \in [Arenas -> Header] /\ live[a] \in Seq(Allocation)
      /\ live \in [Arenas -> Seq(Allocation)]
    BY DEF IInv, TypeInv, Header, SavedState
<1>4. x \in SavedState /\ k \in 1 .. Len(saved[a]) /\ x.count \in Nat /\ x.offset \in Offset
    <2>1. x \in SavedState /\ k \in 1 .. Len(saved[a])
        BY <1>2, <1>3
    <2>2. QED
        BY <2>1 DEF SavedState
<1>5. Exists(a) /\ HeaderOK(a) /\ OrderOK(a)
    BY DEF IInv, UsesOK
<1>6. x.count <= Len(live[a]) /\ x.offset <= header[a].size
    BY <1>2, <1>5 DEF HeaderOK
<1>7. /\ header' = [header EXCEPT ![a].offset = x.offset]
      /\ live' = [live EXCEPT ![a] = SubSeq(live[a], 1, x.count)]
      /\ saved' = [saved EXCEPT ![a] = SubSeq(saved[a], 1, k)]
      /\ UNCHANGED << block, task, failure >>
    BY <1>2 DEF Restored
<1>8. /\ header'[a].offset = x.offset /\ header'[a].size = header[a].size
      /\ live'[a] = SubSeq(live[a], 1, x.count)
      /\ saved'[a] = SubSeq(saved[a], 1, k)
      /\ \A b \in Arenas \ {a} : header'[b] = header[b] /\ live'[b] = live[b] /\ saved'[b] = saved[b]
    BY <1>3, <1>7 DEF Header
<1>9. /\ live'[a] \in Seq(Allocation) /\ Len(live'[a]) = x.count
      /\ \A i \in 1 .. x.count : live'[a][i] = live[a][i]
    BY <1>3, <1>4, <1>6, <1>8
<1>10. /\ DOMAIN saved'[a] = 1 .. k /\ DOMAIN saved[a] = 1 .. Len(saved[a])
       /\ \A l \in 1 .. k : saved'[a][l] = saved[a][l] /\ l \in 1 .. Len(saved[a])
       /\ \A l \in 1 .. k : saved[a][l] \in SavedState
    BY <1>3, <1>4, <1>8
<1>11. /\ past'[a].shared = past[a].shared /\ past'[a].stale = past[a].stale
       /\ past'[a].raced <=> past[a].raced \/ Contended(t, a)
       /\ \A b \in Arenas \ {a} : past'[b] = past[b]
    <2> DEFINE raced == past[a].raced \/ Contended(t, a)
    <2>1. past' = [past EXCEPT ![a].raced = raced]
        BY DEF Restored
    <2>2. past \in [Arenas -> [shared : BOOLEAN, stale : BOOLEAN, raced : BOOLEAN]]
        BY DEF IInv, TypeInv
    <2>3. raced <=> past[a].raced \/ Contended(t, a)
        OBVIOUS
    <2> HIDE DEF raced
    <2>4. /\ past'[a].shared = past[a].shared /\ past'[a].raced = raced
          /\ past'[a].stale = past[a].stale /\ \A b \in Arenas \ {a} : past'[b] = past[b]
        BY <2>1, <2>2
    <2>5. QED
        BY <2>3, <2>4
<1>12. Exists(a)' /\ \A b \in Arenas : Exists(b) => Exists(b)'
    <2>1. header'[a].size >= HeaderSize
        BY <1>5, <1>8 DEF HeaderOK
    <2>2. Exists(a)'
        BY <2>1 DEF Exists, Absent, HeaderSize
    <2>3. QED
        BY <1>8, <2>2 DEF Exists
<1>13. \A u \in Tasks : UsesOK(u)'
    <2>1. UsesOK(t)'
        <3>1. UsesOK(t) /\ Holds(t) \subseteq Arenas /\ task[t].released \subseteq Arenas
            BY WrittenTask, PendingArena DEF IInv, TaskRecord
        <3>2. task[t].pending = NoAllocation
            BY DEF MayCall
        <3>3. QED
            BY <1>7, <1>12, <3>1, <3>2 DEF UsesOK, Holds
    <2>2. QED
        BY <1>1, <1>7, <1>12, <2>1, OthersUse DEF IInv
<1>14. ASSUME NEW b \in Arenas PROVE SharingOK(b)'
    <2>1. CASE b = a
        <3>1. SharingOK(a) /\ (Contended(t, a) <=> \E u \in Tasks \ {t} : task[u].pending.arena = a)
            BY DEF IInv, Contended
        <3>2. past'[a].raced => past'[a].shared \/ past'[a].stale
            BY <1>11, <3>1 DEF SharingOK
        <3>3. QED
            BY <1>7, <1>11, <2>1, <3>1, <3>2 DEF SharingOK, Holds
    <2>2. CASE b # a
        BY <1>7, <1>11, <2>2, SameSharing DEF IInv, Holds
    <2>3. QED
        BY <2>1, <2>2
<1>15. HeaderOK(a)'
    <2>1. /\ header'[a].offset <= header'[a].size /\ header'[a].size <= block'[a]
          /\ HeaderSize <= header'[a].size
        BY <1>5, <1>6, <1>7, <1>8 DEF HeaderOK
    <2>2. ASSUME NEW l \in 1 .. k
          PROVE  /\ saved'[a][l].offset <= header'[a].size
                 /\ saved'[a][l].count <= Len(live'[a])
                 /\ \A m \in 1 .. l : saved'[a][m].count <= saved'[a][l].count
        <3>1. saved[a][l].offset <= header[a].size /\ saved[a][l].count <= x.count
              /\ \A m \in 1 .. l : saved[a][m].count <= saved[a][l].count
            BY <1>2, <1>5, <1>10 DEF HeaderOK
        <3>2. \A m \in 1 .. l : m \in 1 .. k
            BY <1>4
        <3>3. QED
            BY <1>8, <1>9, <1>10, <3>1, <3>2
    <2>3. QED
        BY <1>10, <1>12, <2>1, <2>2 DEF HeaderOK
<1>16. OrderOK(a)'
    <2> SUFFICES ASSUME ~ past'[a].raced, ~ past'[a].stale
                 PROVE  /\ Neat(live'[a], Len(live'[a]), x.offset)
                        /\ \A l \in 1 .. k : Neat(live'[a], saved[a][l].count, saved[a][l].offset)
                        /\ \A u \in Tasks : task[u].pending.arena # a
        BY <1>7, <1>8, <1>10 DEF OrderOK
    <2>1. ~ past[a].raced /\ ~ past[a].stale /\ ~ Contended(t, a)
        BY <1>11
    <2>2. \A u \in Tasks : task[u].pending.arena # a
        BY <2>1, ArenaAssumption DEF Contended, MayCall, NoAllocation
    <2>3. ASSUME NEW l \in 1 .. k
          PROVE  Neat(live'[a], saved[a][l].count, saved[a][l].offset)
        <3>1. Neat(live[a], saved[a][l].count, saved[a][l].offset)
            BY <1>5, <1>10, <2>1 DEF OrderOK
        <3>2. saved[a][l].count \in Nat /\ saved[a][l].count <= x.count
            BY <1>2, <1>5, <1>10 DEF HeaderOK, SavedState
        <3>3. /\ saved[a][l].count <= Len(live[a]) /\ saved[a][l].count <= Len(live'[a])
              /\ \A i \in 1 .. saved[a][l].count : live'[a][i] = live[a][i]
            BY <1>3, <1>4, <1>6, <1>9, <3>2
        <3>4. QED
            BY <1>3, <1>9, <3>1, <3>2, <3>3, NeatPart
    <2>4. Neat(live'[a], Len(live'[a]), x.offset)
        BY <1>2, <1>4, <1>9, <2>3
    <2>5. QED
        BY <2>2, <2>3, <2>4
<1>17. ASSUME NEW b \in Arenas \ {a} PROVE HeaderOK(b)' /\ OrderOK(b)'
    BY <1>7, <1>8, <1>11, SameArena DEF IInv
<1>18. AlignmentOK'
    <2>1. ASSUME NEW b \in Arenas, NEW i \in DOMAIN live'[b] PROVE IsAligned(live'[b][i])
        <3>1. CASE b = a
            <4>1. i \in 1 .. x.count
                BY <1>9, <2>1, <3>1
            <4>2. i \in DOMAIN live[a] /\ live'[a][i] = live[a][i]
                BY <1>3, <1>4, <1>6, <1>9, <4>1
            <4>3. QED
                BY <3>1, <4>2 DEF IInv, AlignmentOK
        <3>2. CASE b # a
            BY <1>8, <2>1, <3>2 DEF IInv, AlignmentOK
        <3>3. QED
            BY <3>1, <3>2
    <2>2. \A u \in Tasks : task'[u].pending # NoAllocation => IsAligned(task'[u].pending)
        BY <1>7 DEF IInv, AlignmentOK
    <2>3. QED
        BY <2>1, <2>2 DEF AlignmentOK, IsAligned
<1>19. QED
    <2>1. \A b \in Arenas : HeaderOK(b)' /\ OrderOK(b)'
        BY <1>15, <1>16, <1>17
    <2>2. QED
        BY <1>1, <1>13, <1>14, <1>18, <2>1 DEF IInv

-----------------------------------------------------------------------------
(* The theorems                                                            *)

\* Every step keeps the invariant.
LEMMA StepOK == IInv /\ [Next]_vars => IInv'
<1> SUFFICES ASSUME IInv, [Next]_vars PROVE IInv'
    OBVIOUS
<1>1. CASE UNCHANGED vars
    <2>1. TypeInv'
        BY <1>1 DEF vars, IInv, TypeInv
    <2>2. UNCHANGED << header, block, task, live, saved, past >>
        BY <1>1 DEF vars
    <2>3. QED
        BY <2>1, <2>2 DEF IInv, UsesOK, SharingOK, HeaderOK, AlignmentOK, OrderOK, Holds, Exists,
                          Neat, End, Start, IsAligned
<1>2. ASSUME NEW t \in Tasks, NEW size \in TypeSizes, NEW count \in Counts,
             NewArrayImplicit(t, size, count)
      PROVE  IInv'
    <2> DEFINE a == task[t].implicit
    <2>1. MayCall(t) /\ UsesOK(t) /\ task[t].released \subseteq Arenas /\ Holds(t) \subseteq Arenas
        BY <1>2, WrittenTask, PendingArena DEF NewArrayImplicit, IInv, TaskRecord
    <2>2. CASE Fail("uninitialized")
        BY <2>2, FailStep
    <2>3. CASE a \in Arenas /\ ~ ImplicitReleased(t) /\ BeginAllocation(t, a, size, count)
        <3>1. a \in Holds(t) /\ Exists(a)
            BY <2>1, <2>3, ArenaAssumption DEF UsesOK, ImplicitReleased, MayCall
        <3>2. QED
            BY <2>1, <2>3, <3>1, BeginAllocationStep
    <2>4. ASSUME NEW b \in Arenas, Exists(b), ImplicitReleased(t),
                 BeginAllocation(t, b, size, count)
          PROVE  IInv'
        BY <2>1, <2>4, BeginAllocationStep
    <2>5. CASE ImplicitReleased(t) /\ AllocateAstray(a, size, count)
        BY <2>1, <2>5, AstrayStep DEF UsesOK, ImplicitReleased
    <2>6. QED
        BY <1>2, <2>2, <2>3, <2>4, <2>5 DEF NewArrayImplicit
<1>3. ASSUME NEW t \in Tasks, NEW a \in Arenas, NEW size \in TypeSizes, NEW count \in Counts,
             NewArray(t, a, size, count)
      PROVE  IInv'
    BY <1>3, BeginAllocationStep DEF NewArray, IInv, UsesOK
<1>4. ASSUME NEW t \in Tasks, EndAllocation(t) PROVE IInv'
    <2> DEFINE x == task[t].pending
    <2>1. /\ x \in Pending
          /\ Fail("overflow") \/ Ended(t) \/ AllocateAstray(x.arena, x.size, x.count)
        BY <1>4, EndAllocationEnds DEF IInv
    <2>2. /\ x.arena \in Arenas /\ x.size \in TypeSizes /\ x.count \in Counts
          /\ Exists(x.arena)
        BY <1>4, <2>1 DEF Pending, EndAllocation, IInv, UsesOK
    <2>3. QED
        BY <2>1, <2>2, FailStep, EndedStep, AstrayStep
<1>5. ASSUME NEW t \in Tasks, NEW a \in Arenas, RestoreState(t, a) PROVE IInv'
    <2>1. PICK k \in DOMAIN saved[a] : Restored(t, a, k)
        BY <1>5, RestoreStateRestores DEF IInv
    <2>2. QED
        BY <1>5, <2>1, RestoredStep DEF RestoreState
<1>6. ASSUME NEW t \in Tasks, NEW a \in Arenas, SaveState(t, a) PROVE IInv'
    BY <1>6, SaveStateStep
<1>7. ASSUME NEW t \in Tasks, NEW a \in Arenas \cup {NoArena}, SetImplicitArena(t, a)
      PROVE  IInv'
    BY <1>7, SetImplicitArenaStep
<1>8. ASSUME NEW t \in Tasks, Launch(t) \/ Finish(t) PROVE IInv'
    BY <1>8, LaunchStep, FinishStep
<1>9. ASSUME NEW t \in Tasks, NEW a \in Arenas, Release(t, a) PROVE IInv'
    BY <1>9, ReleaseStep
<1>10. ASSUME NEW t \in Tasks, NEW a \in Arenas, NEW bytes \in ArenaBytes,
              CreateArena(t, a, bytes)
       PROVE  IInv'
    BY <1>10, CreateArenaStep
<1>11. QED
    BY <1>1, <1>2, <1>3, <1>4, <1>5, <1>6, <1>7, <1>8, <1>9, <1>10 DEF Next

\* In every reachable state the invariant holds.
LEMMA Invariance == Spec => []IInv
<1>1. Init => IInv
    BY InitIInv
<1>2. IInv /\ [Next]_vars => IInv'
    BY StepOK
<1>3. QED
    BY <1>1, <1>2, PTL DEF Spec

\* Type correctness of the arenas, for any number of tasks and arenas, any sizes and
\* any width of size_t: no header's offset leaves the range of a ptrdiff_t or its
\* arena, though allocateAligned computes it in size_t and compares it signed.
THEOREM TypeCorrect == Spec => []TypeOK
<1>1. IInv => TypeOK
    <2> SUFFICES ASSUME IInv PROVE TypeOK
        OBVIOUS
    <2>1. ASSUME NEW a \in Arenas PROVE header[a].offset <= header[a].size
        BY DEF IInv, HeaderOK, Exists, Absent
    <2>2. ASSUME NEW t \in Tasks
          PROVE  /\ task[t].implicit \in Arenas \cup {NoArena}
                 /\ Holds(t) \subseteq Arenas
                 /\ task[t].pending.arena \in Arenas \cup {NoArena}
        <3>1. task[t] \in TaskRecord
            BY WrittenTask DEF IInv
        <3>2. QED
            BY <3>1, PendingArena DEF IInv, TaskRecord, Pending, NoAllocation
    <2>3. ASSUME NEW a \in Arenas, NEW i \in DOMAIN live[a]
          PROVE  live[a][i] \in [start : Int, size : TypeSizes, count : Counts]
        <3>1. live[a] \in Seq(Allocation)
            BY DEF IInv, TypeInv
        <3>2. live[a][i] \in Allocation
            BY <3>1
        <3>3. QED
            BY <3>2 DEF Allocation
    <2>4. QED
        BY <2>1, <2>2, <2>3 DEF IInv, TypeInv, TypeOK
<1>2. QED
    BY <1>1, Invariance, PTL

\* Whatever tasks do with the arenas they hold, objects lie on multiples of the
\* alignment of their types: what DatablockAllocator::allocate chooses suffices.
THEOREM ObjectsAreAligned == Spec => []NaturallyAligned
<1>1. IInv => NaturallyAligned
    BY DEF IInv, AlignmentOK, IsAligned, NaturallyAligned
<1>2. QED
    BY <1>1, Invariance, PTL

\* No two tasks are in the allocator of an arena at once, unless the program lets
\* them share it or uses an implicit arena that it has released.
THEOREM OnlySharedArenasRace == Spec => []RacesNeedSharing
<1>1. IInv => RacesNeedSharing
    BY DEF IInv, SharingOK, RacesNeedSharing
<1>2. QED
    BY <1>1, Invariance, PTL

\* In an arena with allocations in use, the invariant orders them up to the offset.
LEMMA OrderlyIsNeat ==
    ASSUME IInv, NEW a \in Arenas, Orderly(a), NEW i \in DOMAIN live[a]
    PROVE  /\ HeaderOK(a) /\ Exists(a)
           /\ header[a].offset \in Int /\ header[a].size \in Nat /\ block[a] \in Nat
           /\ DOMAIN live[a] = 1 .. Len(live[a]) /\ Len(live[a]) > 0
           /\ \A j \in DOMAIN live[a] :
                /\ End(live[a][j]) \in Int /\ End(live[a][j]) <= header[a].offset
                /\ live[a][j].start >= HeaderSize
                /\ \A k \in DOMAIN live[a] : j < k => End(live[a][j]) <= live[a][k].start
           /\ live[a][1].start = RootAt
<1>1. live[a] \in Seq(Allocation) /\ header[a] \in Header /\ block[a] \in Nat
    BY DEF IInv, TypeInv, Header
<1>2. DOMAIN live[a] = 1 .. Len(live[a]) /\ Len(live[a]) \in Nat /\ Len(live[a]) > 0
    BY <1>1
<1>3. HeaderOK(a) /\ Exists(a)
    BY <1>2 DEF IInv, HeaderOK
<1>4. Neat(live[a], Len(live[a]), header[a].offset)
    BY <1>3 DEF IInv, OrderOK, Orderly
<1>5. \A j \in DOMAIN live[a] : End(live[a][j]) \in Int /\ End(live[a][j]) < Half
    <2>1. \A j \in DOMAIN live[a] : live[a][j] \in Allocation
        BY <1>1
    <2>2. QED
        BY <2>1, EndIsBehindStart DEF Allocation, Orderly
<1>6. /\ \A j \in 1 .. Len(live[a]) :
            live[a][j].start >= HeaderSize /\ End(live[a][j]) <= header[a].offset
      /\ \A j, k \in 1 .. Len(live[a]) : j < k => End(live[a][j]) <= live[a][k].start
      /\ live[a][1].start = RootAt
    BY <1>2, <1>4, <1>5 DEF Neat
<1>7. header[a].offset \in Int /\ header[a].size \in Nat
    BY <1>1, ArenaAssumption DEF Header, Offset
<1>8. QED
    BY <1>1, <1>2, <1>3, <1>5, <1>6, <1>7

\* Allocations in use never overlap, however allocations, saves and restores of
\* several tasks follow one another, in an arena in which no tasks have raced, which
\* none has used after its release, and whose arrays fit ptrdiff_t.
THEOREM AllocationsStayApart == Spec => []AllocationsDisjoint
<1>1. IInv => AllocationsDisjoint
    BY OrderlyIsNeat DEF AllocationsDisjoint
<1>2. QED
    BY <1>1, Invariance, PTL

\* And they stay in such an arena and its datablock.
THEOREM AllocationsStayInside == Spec => []AllocationsInBounds
<1>1. IInv => AllocationsInBounds
    <2> SUFFICES ASSUME IInv, NEW a \in Arenas, Orderly(a), NEW i \in DOMAIN live[a]
                 PROVE  End(live[a][i]) <= header[a].size /\ End(live[a][i]) <= block[a]
        BY DEF AllocationsInBounds
    <2>1. header[a].offset <= header[a].size /\ header[a].size <= block[a]
        BY OrderlyIsNeat DEF HeaderOK
    <2>2. QED
        BY <2>1, OrderlyIsNeat
<1>2. QED
    BY <1>1, Invariance, PTL

\* The first allocation of an arena is its root, whatever has been restored since.
THEOREM RootStaysFirst == Spec => []RootIsFirst
<1>1. IInv => RootIsFirst
    <2> SUFFICES ASSUME IInv, NEW a \in Arenas, Orderly(a), live[a] # << >>
                 PROVE  live[a][1].start = RootAt
        BY DEF RootIsFirst
    <2>1. live[a] \in Seq(Allocation)
        BY DEF IInv, TypeInv
    <2>2. 1 \in DOMAIN live[a]
        BY <2>1
    <2>3. QED
        BY <2>2, OrderlyIsNeat
<1>2. QED
    BY <1>1, Invariance, PTL

=============================================================================
