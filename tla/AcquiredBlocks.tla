---------------------------- MODULE AcquiredBlocks ----------------------------
(***************************************************************************)
(* What the bookkeeping of ocxxr-task-state.hpp promises, without threads, *)
(* tables and sorts: every task has a set of acquired datablocks, each     *)
(* with the address AddressForGuid gives for it.  A task's set is changed  *)
(* by the task's own calls only, block by block; an address does not       *)
(* change as long as the task has the block, and all tasks that have a     *)
(* block at the same time see it at the same place, apart from all others. *)
(***************************************************************************)
EXTENDS Integers

CONSTANTS
    Tasks,
    Dbs,            \* guids of datablocks
    Addresses,      \* where they may lie
    DbSize          \* bytes of a datablock

VARIABLE
    acquired        \* a set of records [task, db, at]

Entry == [task : Tasks, db : Dbs, at : Addresses]

\* d, lying at a, is the same block as that of x, or another one elsewhere.
Compatible(d, a, x) ==
    IF x.db = d THEN x.at = a ELSE a + DbSize <= x.at \/ x.at + DbSize <= a

\* A Datablock or an Arena object is constructed or created.
Acquire(t, d, a) ==
    /\ \A x \in acquired : Compatible(d, a, x) /\ ~ (x.task = t /\ x.db = d)
    /\ acquired' = acquired \cup {[task |-> t, db |-> d, at |-> a]}

\* It is released or destroyed.
Release(t, d) == acquired' = { x \in acquired : ~ (x.task = t /\ x.db = d) }

\* The task ends.
Leave(t) == acquired' = { x \in acquired : x.task # t }

Init == acquired = {}

Next ==
    \E t \in Tasks :
        \/ \E d \in Dbs, a \in Addresses : Acquire(t, d, a)
        \/ \E d \in Dbs : Release(t, d)
        \/ Leave(t)

Spec == Init /\ [][Next]_acquired

=============================================================================
