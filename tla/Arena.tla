-------------------------------- MODULE Arena --------------------------------
(***************************************************************************)
(* Arenas (ocxxr-arena.hpp): datablocks with a header and a bump allocator *)
(* behind it.  The header lies in the datablock, so it is shared by all    *)
(* tasks that hold it and survives them; a task allocates through an Arena *)
(* object that it has not released, or through its implicit arena, a bare  *)
(* pointer in the task-local state that only SetImplicitArena changes.     *)
(*                                                                         *)
(* Offsets count from the base of a datablock, wherever that lies.  The    *)
(* runtime may move a datablock that a task does not hold, so an implicit  *)
(* arena used after its release may lead to the arena, to another arena or *)
(* to other memory.                                                        *)
(*                                                                         *)
(* size_t and u64 have 2 * Half values, ptrdiff_t and s64 are their signed *)
(* counterparts.  The assertions are assumed to be compiled in.  A task    *)
(* gets an arena in one of Modes: "EW" excludes other holders, "RW", the   *)
(* default, does not.                                                      *)
(***************************************************************************)
EXTENDS Integers, Sequences

CONSTANTS
    Tasks,
    Arenas,         \* datablocks used as arenas
    NoArena,        \* the null arena
    Modes,          \* access modes the program asks for
    Half,           \* 2^(w-1) where size_t has w bits
    ArenaBytes,     \* the sizes arenas are asked for
    RootSize,       \* sizeof(T) of Arena<T>
    TypeSizes,      \* sizeof of the types allocated
    Counts,         \* element counts of arrays
    MaxAllocs,      \* bound on the allocations of one arena
    MaxSaves        \* bound on the saved states of one arena

HeaderSize == 16    \* sizeof(DbArenaHeader) and sizeof(ArenaState<T>)

\* No arena is asked for whose datablock size_t could not count.
ASSUME ArenaAssumption ==
    /\ NoArena \notin Arenas
    /\ Modes \subseteq {"EW", "RW"}
    /\ Half \in Nat \ {0}
    /\ ArenaBytes \subseteq Nat
    /\ \A bytes \in ArenaBytes : HeaderSize * (bytes + HeaderSize) < 2 * Half
    /\ RootSize \in Nat \ {0}
    /\ TypeSizes \subseteq Nat \ {0}
    /\ Counts \subseteq Nat
    /\ MaxAllocs \in Nat
    /\ MaxSaves \in Nat

VARIABLES
    header,     \* header[a]: DbArenaHeader and, before creation, Absent
    block,      \* block[a]: bytes of the datablock
    task,       \* task[t]: what the task that runs as t holds and does
    live,       \* live[a]: the allocations of a in use, in order (history)
    saved,      \* saved[a]: the AllocatorStates taken, the oldest first
    past,       \* past[a]: how the tasks have used a (history)
    failure     \* the assertion that has ended the program, "astray" once it has
                \* written where no arena lies, or "none"

vars == << header, block, task, live, saved, past, failure >>

Absent == [size |-> 0, offset |-> 0]

RootAt == HeaderSize    \* &header[1]

NoAllocation == [arena |-> NoArena]

\* modes: how the task holds its arenas; released: those it has released;
\* implicit: its arena_allocator; pending: the allocation it is in.
Idle ==
    [running |-> FALSE, modes |-> [a \in {} |-> "RW"], released |-> {},
     implicit |-> NoArena, pending |-> NoAllocation]

Unsigned(n) == n % (2 * Half)

Signed(n) ==
    LET u == Unsigned(n) IN IF u >= Half THEN u - 2 * Half ELSE u

-----------------------------------------------------------------------------
(* The allocator                                                           *)

\* Mutants: rounding down; a smaller alignment for sizes from 5 to 8; the offset
\* starts behind the header's first field.
RoundDown(offset, alignment) == (offset \div alignment) * alignment

AlignmentTooSmall(size) ==
    CASE size = 1 -> 1
      [] size \in 2 .. 8 -> 4
      [] OTHER -> 16

AllocatorDbInitEarly(bytes) == [size |-> bytes, offset |-> 8]

\* (offset + alignment - 1) & (-alignment)
RoundUp(offset, alignment) ==
    ((offset + alignment - 1) \div alignment) * alignment

\* The alignment DatablockAllocator::allocate takes for elements of a size.
Alignment(size) ==
    CASE size = 1 -> 1
      [] size \in 2 .. 4 -> 4
      [] size \in 5 .. 8 -> 8
      [] OTHER -> 16

AllocatorDbInit(bytes) == [size |-> bytes, offset |-> HeaderSize]

\* Where allocateAligned puts an array, and the offset it leaves in the header.
Start(h, size) == RoundUp(h.offset, Alignment(size))

OffsetAfter(start, size, count) == Signed(start + Unsigned(size * count))

Exists(a) == header[a] # Absent

-----------------------------------------------------------------------------
(* Tasks                                                                   *)

Fail(assertion) ==
    /\ failure' = assertion
    /\ UNCHANGED << header, block, task, live, saved, past >>

Holds(t) == DOMAIN task[t].modes

\* The runtime gives arenas to a task only in modes that go together.
Compatible(t, modes) ==
    \A u \in Tasks \ {t} : \A a \in DOMAIN modes \cap Holds(u) :
        modes[a] = "RW" /\ task[u].modes[a] = "RW"

\* t, where it runs and no call of the allocator is under way in it.  What tasks
\* do once two of them have raced is not followed: a bound.
MayCall(t) ==
    /\ failure = "none"
    /\ \A a \in Arenas : ~ past[a].raced
    /\ task[t].running
    /\ task[t].pending = NoAllocation

\* Mutant of PushTaskState: what the thread's last task has left.
PushTaskStateUncleared(t) == [task[t] EXCEPT !.running = TRUE]

\* The zero-initialised state of a task that starts as t: no implicit arena.
PushTaskState(t) == [Idle EXCEPT !.running = TRUE]

\* A task starts, with Arena(ocrEdtDep_t) for the arenas among its arguments.
Launch(t) ==
    /\ failure = "none"
    /\ ~ task[t].running
    /\ \E A \in SUBSET { a \in Arenas : Exists(a) } : \E modes \in [A -> Modes] :
        /\ Compatible(t, modes)
        /\ task' = [task EXCEPT ![t] = [PushTaskState(t) EXCEPT !.modes = modes]]
        /\ past' = [a \in Arenas |->
               [past[a] EXCEPT !.shared = @ \/ (a \in A /\ \E u \in Tasks \ {t} : a \in Holds(u))]]
    /\ UNCHANGED << header, block, live, saved, failure >>

\* PopTaskState, and the runtime releases what the task still holds.
Finish(t) ==
    /\ MayCall(t)
    /\ task' = [task EXCEPT ![t].running = FALSE, ![t].modes = Idle.modes,
                            ![t].released = {}]
    /\ UNCHANGED << header, block, live, saved, past, failure >>

\* Arena::Release: no bookkeeping; the implicit arena stays.
Release(t, a) ==
    /\ MayCall(t)
    /\ a \in Holds(t)
    /\ task' = [task EXCEPT ![t].modes = [b \in DOMAIN @ \ {a} |-> @[b]],
                            ![t].released = @ \cup {a}]
    /\ UNCHANGED << header, block, live, saved, past, failure >>

\* Arena::Create.  The ArenaHandle asks ocrDbCreate for a count of ArenaState
\* objects; its assertion takes the size of the empty struct SizeOf<T>, which
\* is 1, for the size of the root; the header counts within the bytes asked for.
CreateArena(t, a, bytes) ==
    /\ MayCall(t)
    /\ ~ Exists(a)
    /\ IF bytes < 1
       THEN Fail("root")
       ELSE IF bytes < HeaderSize
       THEN Fail("small")
       ELSE /\ block' = [block EXCEPT ![a] = Unsigned(HeaderSize * Unsigned(bytes + HeaderSize))]
            /\ header' = [header EXCEPT ![a] = AllocatorDbInit(bytes)]
            /\ task' = [task EXCEPT ![t].modes =
                   [b \in DOMAIN @ \cup {a} |-> IF b = a THEN "RW" ELSE @[b]]]
            /\ UNCHANGED << live, saved, past, failure >>

SetImplicitArena(t, a) ==
    /\ MayCall(t)
    /\ a \in Holds(t) \cup {NoArena}
    /\ task' = [task EXCEPT ![t].implicit = a]
    /\ UNCHANGED << header, block, live, saved, past, failure >>

-----------------------------------------------------------------------------
(* Allocation: the offset is read, then written                            *)

\* Another task is between its read and its write.
Contended(t, a) == \E u \in Tasks \ {t} : task[u].pending.arena = a

\* t has released its implicit arena.
ImplicitReleased(t) == task[t].implicit \in task[t].released

\* DatablockAllocator::allocate, and allocateAligned up to the read of the offset.
BeginAllocation(t, a, size, count) ==
    /\ Len(live[a]) < MaxAllocs
    /\ task' = [task EXCEPT ![t].pending =
           [arena |-> a, start |-> Start(header[a], size), size |-> size, count |-> count]]
    /\ past' = [past EXCEPT ![a].raced = @ \/ Contended(t, a),
                            ![a].stale = @ \/ (a \notin Holds(t) /\ ImplicitReleased(t))]
    /\ UNCHANGED << header, block, live, saved, failure >>

\* Arena::New, Arena::NewArray.
NewArray(t, a, size, count) ==
    /\ MayCall(t)
    /\ a \in Holds(t)
    /\ BeginAllocation(t, a, size, count)

\* The allocator of a writes where a no longer lies: what is read there fails the
\* assertion, or some place outside a passes for an allocation of a.  What the
\* program overwrites with it is not followed: a bound.
AllocateAstray(a, size, count) ==
    \/ Fail("overflow")
    \/ /\ Len(live[a]) < MaxAllocs
       /\ live' = [live EXCEPT ![a] = Append(@,
              [start |-> RoundUp(block[a], Alignment(size)), size |-> size, count |-> count])]
       /\ past' = [past EXCEPT ![a].stale = TRUE]
       /\ failure' = "astray"
       /\ UNCHANGED << header, block, task, saved >>

\* ocxxr::New, ocxxr::NewArray: in the implicit arena.  Where the task has released
\* that, the pointer leads to whatever lies there now.
NewArrayImplicit(t, size, count) ==
    LET a == task[t].implicit
    IN  /\ MayCall(t)
        /\ \/ a = NoArena /\ Fail("uninitialized")
           \/ /\ a \in Arenas /\ ~ ImplicitReleased(t)
              /\ BeginAllocation(t, a, size, count)
           \/ /\ ImplicitReleased(t)
              /\ \/ \E b \in Arenas : Exists(b) /\ BeginAllocation(t, b, size, count)
                 \/ AllocateAstray(a, size, count)

\* Mutant of OverflowFails: the assertion is left out.
OverflowUnchecked(h, offset) == FALSE

OverflowFails(h, offset) == offset > h.size

\* The rest of allocateAligned.  An arena that the task does not hold may have been
\* moved meanwhile.
EndAllocation(t) ==
    LET x      == task[t].pending
        a      == x.arena
        offset == OffsetAfter(x.start, x.size, x.count)
    IN  /\ failure = "none"
        /\ x # NoAllocation
        /\ \/ a \notin Holds(t) /\ AllocateAstray(a, x.size, x.count)
           \/ OverflowFails(header[a], offset) /\ Fail("overflow")
           \/ /\ ~ OverflowFails(header[a], offset)
              /\ header' = [header EXCEPT ![a].offset = offset]
              /\ live' = [live EXCEPT ![a] =
                     Append(@, [start |-> x.start, size |-> x.size, count |-> x.count])]
              /\ task' = [task EXCEPT ![t].pending = NoAllocation]
              /\ UNCHANGED << block, saved, past, failure >>

SaveState(t, a) ==
    /\ MayCall(t)
    /\ a \in Holds(t)
    /\ Len(saved[a]) < MaxSaves
    /\ saved' = [saved EXCEPT ![a] =
           Append(@, [offset |-> header[a].offset, count |-> Len(live[a])])]
    /\ UNCHANGED << header, block, task, live, past, failure >>

\* Restoring a state gives up what was allocated since, and with it the states
\* saved since: the program restores the states of an arena in stack order.
RestoreState(t, a) ==
    /\ MayCall(t)
    /\ a \in Holds(t)
    /\ \E k \in DOMAIN saved[a] :
        /\ header' = [header EXCEPT ![a].offset = saved[a][k].offset]
        /\ live' = [live EXCEPT ![a] = SubSeq(@, 1, saved[a][k].count)]
        /\ saved' = [saved EXCEPT ![a] = SubSeq(@, 1, k)]
    /\ past' = [past EXCEPT ![a].raced = @ \/ Contended(t, a)]
    /\ UNCHANGED << block, task, failure >>

Init ==
    /\ header = [a \in Arenas |-> Absent]
    /\ block = [a \in Arenas |-> 0]
    /\ task = [t \in Tasks |-> Idle]
    /\ live = [a \in Arenas |-> << >>]
    /\ saved = [a \in Arenas |-> << >>]
    /\ past = [a \in Arenas |-> [shared |-> FALSE, stale |-> FALSE, raced |-> FALSE]]
    /\ failure = "none"

Next ==
    \E t \in Tasks :
        \/ Launch(t)
        \/ Finish(t)
        \/ EndAllocation(t)
        \/ SetImplicitArena(t, NoArena)
        \/ \E size \in TypeSizes, count \in Counts : NewArrayImplicit(t, size, count)
        \/ \E a \in Arenas :
            \/ \E bytes \in ArenaBytes : CreateArena(t, a, bytes)
            \/ \E size \in TypeSizes, count \in Counts : NewArray(t, a, size, count)
            \/ SetImplicitArena(t, a)
            \/ Release(t, a)
            \/ SaveState(t, a)
            \/ RestoreState(t, a)

Spec == Init /\ [][Next]_vars

-----------------------------------------------------------------------------
(* Properties                                                              *)

Offset == -Half .. Half - 1

\* Type correctness; an offset is a ptrdiff_t and never beyond its arena.
TypeOK ==
    /\ header \in [Arenas -> [size : Nat, offset : Offset]]
    /\ \A a \in Arenas : header[a].offset <= header[a].size
    /\ block \in [Arenas -> Nat]
    /\ \A t \in Tasks :
         /\ task[t].implicit \in Arenas \cup {NoArena}
         /\ Holds(t) \subseteq Arenas
         /\ task[t].pending.arena \in Arenas \cup {NoArena}
    /\ \A a \in Arenas : \A i \in DOMAIN live[a] :
         live[a][i] \in [start : Int, size : TypeSizes, count : Counts]
    /\ \A a \in Arenas : saved[a] \in Seq([offset : Offset, count : Nat])
    /\ failure \in {"none", "root", "small", "overflow", "uninitialized", "astray"}

\* Behind the bytes the program uses of an allocation.
End(x) == x.start + x.size * x.count

\* Nobody has asked a for more bytes than a ptrdiff_t can count, no two tasks have
\* been in its allocator at once, and no task after it had given a up.
Orderly(a) ==
    /\ ~ past[a].raced /\ ~ past[a].stale
    /\ \A i \in DOMAIN live[a] : End(live[a][i]) < Half

\* Two allocations in use never share a byte, and none touches the header,
\* whatever several tasks have allocated, saved and restored one after the other:
\* only tasks in the allocator at the same time, an implicit arena used after its
\* release, or an array beyond the range of ptrdiff_t, break the bump allocator.
AllocationsDisjoint ==
    \A a \in Arenas : Orderly(a) =>
        \A i, j \in DOMAIN live[a] :
            /\ live[a][i].start >= HeaderSize
            /\ i < j => End(live[a][i]) <= live[a][j].start

\* No allocation reaches past the end the arena was created with, nor past the
\* datablock, with the same three exceptions: "Datablock allocator overflow".
AllocationsInBounds ==
    \A a \in Arenas : Orderly(a) =>
        \A i \in DOMAIN live[a] :
            End(live[a][i]) <= header[a].size /\ End(live[a][i]) <= block[a]

\* Every object lies on a multiple of each power of two up to 16 that its type
\* can have as its alignment, in a datablock whose base is a multiple of 16.
NaturallyAligned ==
    \A a \in Arenas : \A i \in DOMAIN live[a], alignment \in {1, 2, 4, 8, 16} :
        live[a][i].size % alignment = 0 => live[a][i].start % alignment = 0

\* Arena::data and GetArenaRoot look for the root right behind the header, and
\* that is where the first allocation of an arena has put it.
RootIsFirst ==
    \A a \in Arenas : Orderly(a) /\ live[a] # << >> => live[a][1].start = RootAt

\* Two tasks are in the allocator of an arena at once only where the program has
\* let both have it without exclusive access, or where a task goes on with its
\* implicit arena after it has released it: no other task gets at an arena through
\* the implicit arena of the one that ran before it.
RacesNeedSharing ==
    \A a \in Arenas : past[a].raced => past[a].shared \/ past[a].stale

\* "Arena must be big enough to hold root object": an arena that could be created
\* has room for its root.
RootFits ==
    \A a \in Arenas :
        Exists(a) /\ live[a] = << >> =>
            OffsetAfter(Start(header[a], RootSize), RootSize, 1) <= header[a].size

=============================================================================
