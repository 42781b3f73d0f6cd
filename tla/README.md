# Verification of ocxxr

ocxxr is a header-only C++ library over the Open Community Runtime (OCR). A
program made with it is a graph of tasks: each task has dependence slots, starts
when all of them have been satisfied, and gets the datablocks it depends on as
arguments. The library itself keeps little state, but what it keeps is
thread-local, shared by tasks that interrupt one another, and full of addresses
that are valid only for a while.

This directory holds TLA+ models of the library's own logic, TLC configurations
that check them on small instances, and proofs checked by TLAPS. OCR is not part
of the repository; each module says what it assumes of it.

## 1. The system

Paths are relative to `src/include/ocxxr-internal/`.

| Component | State | Operations |
|---|---|---|
| Task-local state, `ocxxr-task-state.hpp` | one thread-local pointer per worker, `_task_local_state`, to a chain of states; in each a table of acquired datablocks (two sorted arrays and a count) and an implicit arena | `PushTaskState`, `PopTaskState`, `AddDatablock`, `RemoveDatablock`, `AddressForGuid`, `GuidOffsetForAddress` |
| Datablocks, `ocxxr-core.hpp` | a guid and an address in each `Datablock` | construct from a dependence, `Create`, `Release`, `Destroy` |
| Relative pointers, `ocxxr-relptr.hpp` | an offset (`RelPtr`); a guid and an offset (`BasedPtr`), stored inside datablocks | construct, set, copy, get |
| Arenas, `ocxxr-arena.hpp` | a header with size and offset in the datablock | `Create`, `New`, `NewArray`, `saveState`, `restoreState`, `SetImplicitArena` |
| Tasks and futures, `ocxxr-core.hpp` | none of its own: slots of OCR tasks | `CreateTask`, `CreateTaskPartial`, `CreateFuturePartial`, `DependOn`, `DependOnList`, `DependOnWithinList`, `DependOnRange`, `Destroy`, the launch function `InternalFn` |
| Events, `ocxxr-core.hpp`, `ocxxr-extension.hpp` | OCR events | creation by type, with and without a label, `Satisfy`, `Up`, `Down`, `DependOn`, `Destroy` |
| Task signatures, `ocxxr-core.hpp` | none: compile time | `FnInfo`, `TaskArgInfo`, `CountMissingDeps`, `TaskParamInfo` |
| Label ranges, `ocxxr-extension.hpp` | none: a guid for each index | `HandleRange::Create`, `operator[]` |
| Handles, hints | none | wrappers of OCR values |

How they interact. OCR calls `InternalFn` on a worker thread. It pushes a
task-local state, constructs the arguments (each constructor adds a datablock to
the table), runs the user's function and pops the state. The function calls
back into OCR: to create, release and destroy datablocks (which edits the table
after the OCR call has returned), to create tasks and events and to attach them
to one another. `BasedPtr` reads the table to turn an address into a guid with
an offset and back; `New` reads the implicit arena.

What is hard about it:

- *Work shifting.* While a task is blocked in an OCR call its thread may run
  another task to the end. That task pushes its own state; the table edit that
  follows the OCR call must find the old one again.
- *Moving memory.* A datablock keeps its address while a task holds it, and may
  be anywhere at the next acquisition. Tables and pointers must not lead to
  where it used to be.
- *Binary searches* on arrays that every edit must leave sorted, though a removal
  reorders the arrays in place.
- *Slots.* Five calls, one constructor and the launch function each compute
  slot numbers, in terms of fixed parameters and a list; they must agree. Types
  are looked up by a third numbering, among all parameters of the function.
- *Order.* A task can be filled by any running task in any order, a future's
  consumers must come before its last source, latches are counted from several
  tasks, a channel's payloads and consumers come in any order, a label is used for
  one event after another.
- *Sharing.* The header of an arena is shared by all tasks that hold it; the
  allocator reads its offset and writes it back.
- *Unchecked results.* `Task::Init` ignores the status of `ocrEdtCreate`.
- *Boundaries.* 256 slots, closed address ranges, offset 0, wrapping sizes.

What makes each component correct is stated by the properties in section 3;
`PROJECT.json` lists the hazards with the lines where they bite.

## 2. The modules

| Module | Models | Uses |
|---|---|---|
| `DbTable` | the table: `AddDatablock`, `RemoveDatablock` and the searches, as operators on a record of two sequences | |
| `TaskState` | the stack of states of every worker, and the calls that push, pop, fill and edit tables | `DbTable` |
| `Pointers` | `RelPtr` and `BasedPtr` stored in the datablocks of `TaskState` | `TaskState` |
| `Arena` | the bump allocator behind the header, save and restore, implicit arenas, tasks that share arenas | |
| `Signatures` | what the library computes from the type of a task function | |
| `Events` | the OCR events behind the event classes, as operators on a record | |
| `TaskGraph` | tasks with their slots, lists, futures, events, and the launch of a task | `Signatures`, `Events` |
| `AcquiredBlocks` | abstract: the map of acquired blocks that `TaskState` implements | |
| `Dataflow` | abstract: the graph of tasks and values that `TaskGraph` implements | |
| `DbTableProofs`, `TaskStateProofs`, `AcquiredBlocksProofs` | lemmas and theorems about task-local state | `DbTable`, `TaskState`, `AcquiredBlocks` |
| `PointersProofs` | the same about pointers | `Pointers`, `AcquiredBlocksProofs` |
| `ArenaProofs` | about arenas | `Arena` |
| `TaskGraphProofs`, `SourceProofs`, `DataflowProofs` | about tasks and events | `TaskGraph` |
| `MCTaskState`, `MCPointers`, `MCArena`, `MCTaskGraph` | constants for TLC | |

Definitions whose comment says "Mutant" are never used by a
specification: each stands for a plausible bug in the definition that follows
it, to see that a property tells the two apart.

### DbTable and TaskState

`DbTable` represents each of the two arrays by the sequence of its used slots.
`std::sort` is not stable, so an operation that sorts returns the *set* of tables
it may leave behind. `std::lower_bound` and its kin are partition points, defined
only when there is one: the code is right to call them exactly when the tables
are sorted, which is what `TablesCoherent` says.

In `TaskState`, `stack[w]` is the chain of states of a worker, newest first. A
frame has the task, the arguments still to be constructed, the OCR call the task
is in, the table and the implicit arena. A call that blocks is two actions:
`BeginCreate`, `BeginRelease` and `BeginDestroy` make the OCR call, `EndCall` does
what the code does after it returns. In between, `LaunchTask` may push another
frame onto the same worker. The arguments of a function are constructed in any
order, as C++ leaves it open.

`RemoveDatablock` is translated as it is written, not as it was meant:
`std::swap(i, --g_end)` exchanges two iterators, so both arrays are sorted again
without their last element and nothing leaves the table.

Assumed of OCR: a task starts with its dependences acquired; a held datablock has
one address, and held blocks do not overlap; guids are not used again.
Assumed of the program: it releases blocks it holds, once.

`AcquiredBlocks` says what all this is for, in three actions and without threads,
tables or sorts: a set of entries (task, block, address); `Acquire` adds one,
`Release` removes one, `Leave` removes all entries of a task. The refinement
mapping `Acquired` takes for each frame the blocks its task can name
(`Usable`: held and constructed) with the address that `AddressForGuid` computes
from the frame's table. So a step of one worker that changed a table entry of a
task below it, or a sort that lost one, would be no step of `AcquiredBlocks`.

### Pointers

A pointer lives in a cell, a datablock and an offset, and survives the task that
has set it. A copy is a `get` in one cell and a `set` in another: `RelPtr` works its
distance out anew, as a default assignment would not; `BasedPtr` does so where its
encoding is relative and otherwise copies the guid. An assertion of a pointer
operation, such as that of copying a `RelPtr` that was never set, ends the program
(`asserted`). The history variables `meant` and `relMeant` record where each pointer
should lead, and the circumstances under which the code's encoding is known not to
survive (see section 5), which a copy inherits; properties compare `get` with them in
every task that can read the pointer.

### Arena

`size_t` has `2 * Half` values, and the code's conversions to `ptrdiff_t` are kept.
`live` records the allocations in use. The assertions are compiled in; a failed
one ends the program.

An allocation is two steps, `BeginAllocation` (the offset is read and rounded) and
`EndAllocation` (it is written back and compared with the size), so that tasks that
hold an arena together can be in the allocator at once. Which tasks may hold it
together depends on the access modes they ask for. The implicit arena is part of
the task-local state: zero after `PushTaskState`, set by `SetImplicitArena`, and
not reset by `Release`.

`Arena::New` goes through an `Arena` object, which the program uses only while it
holds the arena. The implicit arena is a bare pointer. After `Release` the runtime
may move the block, as in `TaskState`, and put another in its place: an allocation
through the pointer may then be one in its own arena, in another, a failed assertion,
or one at some place outside (`AllocateAstray`). The same goes for an allocation that
was begun in this way, as the block may move before its end. What a program does
after it has written astray is not followed.

`past` records how an arena has been used: whether two
tasks have ever held it (`shared`), whether a task that did not hold it has allocated
in it or for it (`stale`), whether two allocations have overlapped in time (`raced`).

### Signatures, Events and TaskGraph

`Signatures` translates the template recursion over the parameters of a task
function: a value in front, then datablocks, then at most one list. TaskGraph
takes from it the number of slots, the type every call expects of a source, how
many holes `CreateTaskPartial` pads with, and the number of slots a template
fixes. `DepsFn` are the parameters after the value (`AfterParam`) and before the
list.

`Events` has a record for each event. A class decides its type and parameters
(`Created`, `ChannelNbDeps`); what OCR does with it is external: when it triggers,
who may wait, when it goes away. `payloads` is all an event was triggered with. For
a channel these are several; the k-th slot that waits for it gets the k-th
(`Turn`). An event with a label keeps the payloads of the events that had the
label before it, so that what an older consumer waits for stays apart from what a
newer one does.

`task[t].slots` are the numbered slots of the OCR task. The program talks about
*positions*, the parameter i or the element i of the list; `wanted` records which
source it gave to which position: a handle, or a claim on a payload of an event.
Every call maps positions to slots as its code does, and `Start` maps slots to
arguments as `UnpackArgs` and `UnpackVarArgs` do. `ArgumentsInOrder` compares the
two ends.

A payload does not change once it is there, so delivery to a task is not a step: a
task may start at any moment after its slots are ready. An event that depends on
another is triggered by `Propagate`. Nobody looks at the status of `ocrEdtCreate`:
a source that is gone leaves a slot that is `Lost`, and a number of slots that is
not the template's leaves a task whose guid is garbage.

A labelled event is created with the handle of its label (`CreateLabeled`). Without
`kLabeled` in the flags the assertion in `Event::Init` fails; with `kChecked` a
label in use makes `OK` fail; with the blocking flag the call waits. (`kBlocking`
does not contain `kLabeled`: a program has to give both.)

`Dataflow` is the abstract specification: tasks with named inputs and places that
are written once. A task runs when all its inputs are connected and there is a
value for each, on exactly these values. The refinement mapping in `TaskGraph` takes
positions for inputs, payloads of events for places and the arguments the function
was called with for `args`. There are no slots, lists, holes or event types in
`Dataflow`.

Assumed of the program: it uses an event as its type allows (no consumers of a
once event after it was satisfied, no more consumers than a counted event is made
for), gives a position one source, and depends on a future before it gives the
future's task its last source, as `test/FutureCreateChain` does. Two bounds: an event
depends on at most one other event in each of its lives (the code lets a program
attach several to a latch or a channel), and `DependOnRange` attaches ranges of
handles, not of events.

## 3. The runs

Deadlock is not checked: a program ends when its tasks have, and a failed
assertion ends it at once.

| Run | Properties | Shows |
|---|---|---|
| `shifting` | `TypeOK`, `TablesCoherent`, `TaskStatesIsolated`, `NoReleaseAssertion`, `CapacityOnlyByOwnBlocks` | one thread, a task shifted onto it, three datablocks, a table of two slots |
| `threads` | `HeldBlocksResolve`, `LaunchedTasksEnd`, `AcquiredBlocksSpec` | two threads that share two moving datablocks; liveness; refinement of `AcquiredBlocks` |
| `capacity` (violation) | `CapacityOnlyWhenAcquired` | finding 1 |
| `pointers` | `PtrTypeOK`, `BasedPtrsResolve`, `HeldTargetsAccepted`, `RelPtrsResolve` | pointers across tasks and moves |
| `edge_ptrs` (violation) | `BasedPtrsResolveFromAnyCell` | finding 2 |
| `arena` | `TypeOK`, `AllocationsDisjoint`, `AllocationsInBounds`, `NaturallyAligned`, `RootIsFirst`, `RacesNeedSharing` | allocations, saves and restores of two tasks, one after the other or at once |
| `arena_root` (violation) | `RootFits` | finding 3 |
| `graph` | `TypeOK`, `ArgumentsInOrder`, `ArgumentsWellTyped`, `NoEarlyStart`, `NoLaunchAssertion`, `EverySourceIsAttached`, `FuturesDeliver`, `DataflowSpec` | tasks created and filled in every way, with futures; refinement of `Dataflow` |
| `graph_events` | `LatchesBalance`, `EverySourceIsAttached` | events of five types, chained, counted, destroyed, created again under a label |
| `graph_ends` | `ChannelsDeliverOnce`, `DueTasksEnd`, `DataflowSpec` | channels; liveness of tasks that have all their sources |
| `finish` (violation) | `FinishAssertionTellsTheTruth` | finding 4 |
| `forwarded_lists` (violation) | `CompleteListsAccepted` | finding 5 |

**Bounds, and why they are enough.**

- `shifting`: `MaxDbs = 2` stands for 256. Three blocks are one more than the
  table holds, and with three arguments (`MaxDepc = 3`) a duplicate can come when
  the table is full. `MaxDepth = 2`: a frame sees the frames above it come and go,
  and deeper stacks only repeat that; the theorems cover all depths.
- `threads`: two workers, both of which can shift; blocks of four bytes at 4, 6
  and 8, so that a block can come to lie over the place where another has been,
  or over half of it.
- `pointers`: blocks of four bytes with bases 4, 6 and 8: side by side, in either
  order, or over a stale entry. A `BasedPtr` in the middle and one at the base of a
  block, targets at both. Two `RelPtr`s in the same block, one at a target and one
  behind it, so that a pointer of distance 0 or 1 can be copied to where its distance
  would be another.
- `arena`: two tasks and an arena they may have exclusively or together. 12-bit
  sizes, one type size per alignment class, single objects and arrays of 512, of
  which those of 8 bytes wrap to no bytes and those of 12 to a negative size;
  arenas that are too small, just large enough for the header, and larger. Three
  allocations and one save, so that allocations are given up and made anew. One arena:
  that the implicit arena leads to another after its release is covered by the proof
  only. What tasks do after two of them have raced, or one has written astray, is not
  followed.
- `graph`: two tasks besides the main one, two datablocks of one type, one of
  another and the null handle, a signature with two datablocks and one with a
  value, a datablock and a list of up to two: the smallest in which every wrong
  slot, and every type looked up by the wrong number, shows.
- `graph_events`: one event with a label and one without, so that one can depend
  on the other and one can be created again, counts 1 and 2, `MaxUps = 1`,
  `MaxDowns = 2`, `MaxPayloads = 2` for all events that have the same label. One
  task that depends on them: others would only add more dependents, which the
  other event does as well.
- `graph_ends`: one event, which may be a future, a once event or a channel of two,
  and one datablock suffice for a chain of two tasks through any of them and
  through a list; `MaxPayloads = 2`. No symmetry, as there is a temporal property.

**Fairness.** `threads`: weak fairness of each worker's own steps, `UnpackArg`,
`EndCall` and `FinishTask`. An OS schedules threads, OCR calls return, and
`FinishTask` stands for a user function that ends although it could make more
calls. `LaunchTask` is not fair: nothing forces a task to be created, or shifted
at a given moment. `graph_ends`: weak fairness of `Start` and `Finish` of each
task, since OCR runs what is ready and functions return, and of `Propagate`. No
call the program makes is fair.

## 4. What is proved

Every safety invariant of a passing run, and both refinements, are theorems: they
hold for all values of the constants. The violation runs have nothing to prove.

| Theorem | Property |
|---|---|
| `TaskStateProofs`, of `TaskState!Spec` | for any number of workers, tasks, blocks and table slots and any depth of shifting |
| `TypeCorrect` | `[]TypeOK`: the arrays of a table never overflow |
| `TablesStayCoherent` | `[]TablesCoherent`: both arrays are sorted and have the same entries, one per guid |
| `LookupsResolve` | `[]HeldBlocksResolve`: a held block is found where it lies now |
| `StatesAreIsolated` | `[]TaskStatesIsolated`: shifted tasks do not touch each other's state |
| `ReleaseNeverFails` | `[]NoReleaseAssertion`: the assertions of `RemoveDatablock` never fire |
| `CapacityIsPerTask` | `[]CapacityOnlyByOwnBlocks`: a table is full only when its own task has held that many blocks |
| `AcquiredBlocksProofs` | |
| `ImplementsAcquiredBlocks` | `AcquiredBlocksSpec`: every step is one of `AcquiredBlocks` or changes nothing any task sees |
| `PointersProofs`, of `PtrSpec` | for any cells, and any places the blocks may have |
| `PtrTypeCorrect` | `[]PtrTypeOK` |
| `BasedPtrsSurviveMoves` | `[]BasedPtrsResolve`: with the two provisos that findings 1 and 2 call for |
| `RelPtrsSurviveMoves` | `[]RelPtrsResolve` |
| `HeldTargetsNeverRefused` | `[]HeldTargetsAccepted`: the assertions of `GuidOffsetForAddress` do not fire for what the task holds |
| `ArenaProofs`, of `Arena!Spec` | for any number of tasks, arenas, allocations and saved states, any width of `size_t`, any type sizes |
| `TypeCorrect` | `[]TypeOK`: no offset is beyond its arena |
| `AllocationsStayApart` | `[]AllocationsDisjoint` |
| `AllocationsStayInside` | `[]AllocationsInBounds` |
| `ObjectsAreAligned` | `[]NaturallyAligned` |
| `RootStaysFirst` | `[]RootIsFirst` |
| `OnlySharedArenasRace` | `[]RacesNeedSharing` |
| `TaskGraphProofs`, of `TaskGraph!Spec` | for any tasks, events, blocks and types, any legal signatures, lists of any length |
| `TypeCorrect` | `[]TypeOK`: a task has the slots its signature and its list call for |
| `NoTaskStartsEarly` | `[]NoEarlyStart` |
| `ArgumentsComeInOrder` | `[]ArgumentsInOrder`: what is given to a position arrives at this position |
| `ArgumentsHaveTheirTypes` | `[]ArgumentsWellTyped` |
| `LaunchNeverAsserts` | `[]NoLaunchAssertion` |
| `FuturesBringResults` | `[]FuturesDeliver` |
| `LatchesAreBalanced` | `[]LatchesBalance` |
| `SourceProofs` | |
| `ChannelsAreExact` | `[]ChannelsDeliverOnce` |
| `SourcesGetAttached` | `[]EverySourceIsAttached`, for a `Careful` program (see below) |
| `DataflowProofs` | |
| `ImplementsDataflow` | `DataflowSpec`: every step is one of `Dataflow` or changes nothing in it |

**Assumptions.** The named `ASSUME`s of the modules, which TLC evaluates in every run:
`MaxDbsAssumption` (the number of table slots is a natural number),
`TaskStateAssumption` (guids and addresses are positive numbers, arenas are
datablocks), `PointersAssumption` (cells and targets lie in blocks, no cell has two
pointers), `ArenaAssumption` (sizes are natural numbers, those of types not zero;
`Create` is asked for arenas whose size does not wrap), `TaskGraphAssumption`
(signatures pass the static assertions of `TaskArgInfo`, each block has a type) and
`GuidAssumption` (guids differ from one another and from the null guid).

`SourcesGetAttached` has a hypothesis of its own, `Careful`: a program that depends
on futures of tasks that miss nothing has no function that can do without
dependences, and a list that a function has received is passed on only if it came
without fixed parameters. The runs `graph` and `graph_events` satisfy it and check
the property; programs that do not are those of finding 5 and of the last limit in
section 5.

**Tables.** None of the properties is inductive alone. A lookup is right
because the table is sorted *and* has the block's present address; the address
is right because the block has not moved, which holds because it is held; a
blocked frame is right because the tasks above it cannot write to it, and
because no task appears on the stacks twice. `IInv` puts this together:

- `StackOK`: the frames of all stacks belong to different, started tasks
  (`FramesApart`), and each is in order (`FrameOK`): its table is coherent and
  within bounds, what it tracks and its arena it has held, and each block it can
  use is tracked with its present place;
- `MemoryOK`: a block has a place exactly when some task holds it;
- `BlocksExist`, and that no assertion but that of the table's capacity has
  failed.

`DbTableProofs` supplies what the table operations keep. The lengthy part is
`RemoveKeepsCoherent`: `RemoveDatablock` sorts a proper prefix of each array, and
the lemmas show that this rearranges without losing an entry or leaving one out
of order. `AddKeepsCoherent` does the same for `AddDatablock`. In
`TaskStateProofs`, `PushStep`, `PopStep` and `CurrentStep` say that changing the
top of one stack leaves every other frame in order; there is then one lemma per
action, `StepOK` collects them, and `Invariance` is the induction.

`CapacityIsPerTask` counts. A table that is full has `MaxDbs` different guids
(`FullTableCounts`); its task has held all of these, since `FrameOK` says so, and
also the one that `AddDatablock` has no room for, which is not among them, as it
would have been found. That the task has held more than `MaxDbs` follows if it has
held finitely many, the additional invariant `FiniteOK`.

**AcquiredBlocks.** `UsableBlocksResolve` lets the abstract map
be written by the memory instead of the tables (`AcquiredByPlace`), so the proof
is about who holds what and where, and no longer about sorting. `OthersKeepTheirs`
says that a step of a worker changes the entries of one task only: no other frame
is written, and the blocks of others stay where they are. `CurrentMap` describes
the entries of that task before and after; `AcquireStep` and `ReleaseStep` turn a
change by one block into a step of the abstract specification, there is one lemma
per action, and `StepImplements` collects them. That entries of different blocks
lie apart is the invariant `Disjoint(place)`, added by `PlacesStayApart`.

**Pointers.** The value of a pointer says nothing of where blocks lie. So `PtrOK`
speaks of targets only: a pointer is one of the two encodings of its target, as guid
and offset or as a distance (`Encodes`), and no step of `TaskState` can disturb that.
Places matter at the two ends. When a pointer is set, `GuidOffsetForAddress` looks
for the last block at or below an address (`EncodingEntryIsLast`); that it is the
target's block follows if every entry of the table is where its block lies, the
proviso `stale`, and the pointer's own block is told apart if it does not begin
where the target's ends, the proviso `edge` (`SettingEncodes`). When it is read,
`IInv` says that the table has both blocks where they are by then
(`EncodedResolves`). A copy is a read and a set, possibly in different blocks.

For `RelPtr` the same is `RelOK`: what is stored is the distance from the cell to the
target, 0 or, if never set, 1 (`RelEncodes`). `CopyRelPtrStep` shows that a copy stores
the distance from *its* cell, for which the block that is read must be held; a pointer
whose distance stood for something else when it was set or copied is marked
(`clash`), and so are its copies.

**Arenas.** The offset of an arena is behind every allocation in use: `Neat` says of a
sequence of allocations and an offset that they lie one behind the other from the
root to it. `OrderOK` says so of the header, and of every saved state with the
allocations made before it, which is what `restoreState` needs; and a task between
`BeginAllocation` and `EndAllocation` has computed its place from the present
offset, all this unless two tasks have raced or the arena was used after a release.
A step in one arena leaves the others in order (`SameArena`), also where the pointer
to a released arena leads to it: that arena is then marked (`stale`), as is one
that an allocation outside was made for (`AstrayStep`). `HeaderOK` adds that saved states belong to
ever longer parts of the allocations, `AlignmentOK` that the alignment is also that
of an allocation not yet written back. `SharingOK` and `UsesOK` say who can be in the
allocator at all: whoever holds the arena, or has kept an implicit arena after its
release. `Start` has the modular arithmetic; the lemmas `UnsignedFits` and
`SignedFits` are where `Half` is used.

**Tasks and events.** The heart is `PositionFacts`: for every legal signature and every
length of the list, positions and slots correspond one to one, fixed parameters
first. `Core`, the invariant, rests on it:

- `TypeInv`, and `UnusedOK`: what has not been created is as it was at the start;
- `SlotsOK`: the slot of each position has the source the program gave to it, or a
  hole (`Matches`), whichever call filled it;
- `RunOK`: a task that runs or has ended got at each position the payload of its
  source; this persists as payloads are only appended;
- `ListOK`, `RoomOK`: capacities and bounds, without which a payload might be lost;
- `OutOK`: the event of a future is its own, no other call triggers it, and it is
  triggered exactly when the task has ended; this gives `FuturesBringResults`;
- `CountOK`: the counter of a latch is what `Up` and `Down` made it; this gives
  `LatchesAreBalanced`;
- `TaskDelivers`, `EventDelivers`: a source leads to a datablock of the type of its
  position, through chains of events and through labels that are used again.

A step of TaskGraph is one of a few kinds (`Effect`): a task is made, filled,
dropped, started or ended, something is done with one event, or the program ends with
an assertion. Each action is first shown to be of its kind (`StepFacts` collects
these); then there is one lemma per kind, and it is these lemmas that `SourceProofs`
and `DataflowProofs` use again, in place of the actions.

`ChannelsAreExact` needs that a slot's claim on a channel is one that was counted, and
no two slots have the same (`ChannelsOK`); the positions that have got a payload are
then mapped one to one to the payloads. `SourcesGetAttached` needs that what the
program may depend on is still there (`SourceStays`): an output event because its
task still misses a source and cannot have ended, a counted event because it is
waited for less often than it was made for.

**Dataflow.** `GraphRecords` and `PutFacts` write the refinement mapping by records of
tasks and by payloads. A change of one task is a change of one task in the graph
(`GraphStep`), and a payload more is one `Put` (`PutOne`). Each kind of step has its
action: `MakingCreates`, `FillingConnects`, `DroppingCancels`, `StartingRuns`,
`EndingEnds`, `CallingPuts`; `StartingRuns` is where `Matches` and `Ready` are needed,
as `Dataflow` starts a task on the values of its inputs. `NextMaps` collects them.

**Only model-checked.** `LaunchedTasksEnd` and `DueTasksEnd`: liveness under fairness is
out of the prover's reach. Nothing here uses induction over data or RECURSIVE
operators.

## 5. Findings

1. **Released blocks keep their slots** (`ocxxr-task-state.hpp:152`, run
   `capacity`). `std::swap(i, --g_end)` swaps iterators, and the count is never
   decremented. A task that creates and releases blocks runs into "Acquired too
   many datablocks in one task" while it holds fewer. The stale entries also
   stay in the search by address: a pointer set in a task with stale entries may
   be encoded against a released block. That is the proviso `stale` in
   `BasedPtrsResolve`; without it the property fails.
2. **Address ranges are closed** (`ocxxr-task-state.hpp:207`, run `edge_ptrs`). A
   `BasedPtr` at the base of the block that follows its target's is stored as
   relative, though it lies in another block.
3. **The root need not fit** (`ocxxr-arena.hpp:175`, run `arena_root`).
   `sizeof(internal::SizeOf<T>)` is the size of an empty struct.
4. **The finish assertion is inverted** (`ocxxr-core.hpp:936`, run `finish`): it
   fires when the output event *is* used.
5. **A list that was received cannot be passed on** (`ocxxr-core.hpp:653`, run
   `forwarded_lists`): its capacity counts the fixed arguments as well.

Five more limits show as provisos or bounds of passing runs:

- a `RelPtr` to its own address reads back as null (`ocxxr-relptr.hpp:61`), and one
  to the byte behind it as never set, since the default constructor stores the
  distance 1 and `get` asserts that it is another; so a copy of the first is null
  wherever it lies, and one of the second fails the assertion; `RelPtrsResolve`
  excepts both and their copies;
- an array whose size wraps `size_t`, or does not fit `ptrdiff_t`, passes the
  overflow assertion (`ocxxr-arena.hpp:60`): `Orderly` in `AllocationsInBounds` and
  `AllocationsDisjoint` excepts arenas with such arrays, which occur in the run;
- `Arena::Release` leaves the implicit arena as it is (`ocxxr-arena.hpp:230`), so `New`
  and `NewArray` after it write through a pointer to where the block used to be:
  `Orderly` excepts arenas that a task has used in this way;
- two tasks that share an arena in the default mode can be given the same memory:
  `Orderly` excepts arenas in which two tasks have raced, and `RacesNeedSharing`
  says when that may be: shared access, or an implicit arena used after its release;
- a future of a function without dependences may be over before anybody depends
  on its event, although `CreateFuture` is private for just this reason
  (`ocxxr-core.hpp:1017`): with `EagerFutures = TRUE` and a function of no
  parameters, `EverySourceIsAttached` fails.

## 6. Not modelled

- The contents of datablocks, other than pointers and arena headers, and when they
  become visible to other tasks. OCR promises that for what was written before a
  release; the comment at `ocxxr-core.hpp:176` says so, the library leaves it to
  the program, and `examples/Fibonacci` satisfies events with blocks it has not
  released. A model would be one of OCR's memory and not of this code. Access modes
  matter to the library only where it writes to a block itself, in an arena.
- Hints, and the guids of templates: passed through to OCR, with no effect on
  anything the library does.
- The copy of the value parameter: OCR makes it, by a word count that the template
  and the launch function compute from the same type.
- `ObjectHandle`'s comparisons, `HandleRange::Create` and `Destroy`, the type-level
  functions of `ocxxr-relptr.hpp` (`NestedRelPtr`, `BasedPtrFor`), the C++11 shims
  and the Boost code: they have no state and decide nothing at run time.
- `DatablockHandle::Create` does not instantiate: it calls an `Init` that is not
  there. `ArenaHandle(u64)` and `ArenaHandle::Create` pass a null `data_ptr` to the
  `DatablockHandle::Init` that acquires and dereferences it (`ocxxr-core.hpp:114`):
  they cannot be called with success. `DataHandleList` is empty.
- Guids that OCR uses again after a datablock was destroyed: the library creates no
  datablock with a label, and the model assumes new ones. `AddDatablock` would keep
  the old address of such a guid (`ocxxr-task-state.hpp:123`).
- The example and test programs: the program in `TaskGraph` may make any legal call
  from any running task, and theirs are among them.

## 7. The plan

Done: all modules of section 2, both refinements, and the theorems of section 4. What
is left is to say more:

1. Theorems about the abstract specifications, which then hold of the library through
   the refinements: in `Dataflow`, that the arguments of a task are the data of its
   inputs for good; in `AcquiredBlocks`, that the blocks of all tasks lie apart.
2. Action properties: what a task has been started with, a payload that has been
   delivered, or the place of an allocation in use, never changes.
3. `SourcesGetAttached` under a hypothesis about the program's steps instead of
   `Careful`, which speaks of its functions.

## 8. Running

    tlc -config MCThreads.cfg MCTaskState
    tlc -config MCGraph.cfg MCTaskGraph
    tlapm DbTableProofs.tla
    tlapm TaskStateProofs.tla
    tlapm AcquiredBlocksProofs.tla
    tlapm PointersProofs.tla
    tlapm ArenaProofs.tla
    tlapm TaskGraphProofs.tla
    tlapm SourceProofs.tla
    tlapm DataflowProofs.tla

`PROJECT.json` names the configuration of each run, and for every definition the
lines of the repository it models.
