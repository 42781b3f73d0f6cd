------------------------------ MODULE Pointers ------------------------------
(***************************************************************************)
(* RelPtr and BasedPtr (ocxxr-relptr.hpp) stored in datablocks.            *)
(*                                                                         *)
(* A pointer object lies in a cell, a datablock and an offset in it, and   *)
(* keeps its value when the datablock is released and acquired somewhere   *)
(* else by a later task.  The tasks of TaskState set, copy and read the    *)
(* pointers of the blocks they hold.  A history variable records what each *)
(* pointer was meant to point at, so that the properties can compare.      *)
(***************************************************************************)
EXTENDS TaskState

CONSTANTS
    BasedCells,     \* the cells that hold a BasedPtr
    RelCells,       \* the cells that hold a RelPtr
    Offsets         \* the offsets in a datablock that pointers may point at

ASSUME PointersAssumption ==
    /\ Offsets \subseteq 0 .. DbSize - 1
    /\ BasedCells \subseteq Dbs \X (0 .. DbSize - 1)
    /\ RelCells \subseteq Dbs \X (0 .. DbSize - 1)
    /\ BasedCells \cap RelCells = {}

VARIABLES
    based,      \* based[c]: target_guid_ and offset_ of the BasedPtr in cell c
    rel,        \* rel[c]: offset_ of the RelPtr in cell c
    asserted,   \* an assertion of a pointer operation has ended the program
    meant,      \* meant[c]: what the BasedPtr in c should point at (history)
    relMeant    \* relMeant[c]: what the RelPtr in c should point at (history)

ptrVars == << based, rel, asserted, meant, relMeant >>

allVars == << stack, started, dbState, holds, everHeld, place, failure,
              based, rel, asserted, meant, relMeant >>

Cells == BasedCells \cup RelCells

\* A pointer that was never set, a null pointer, and a pointer to an offset in a
\* datablock.
Unset == [db |-> ERROR_GUID, off |-> 0]
NullTarget == [db |-> NULL_GUID, off |-> 0]
Targets == {NullTarget} \cup [db : Dbs, off : Offsets]

\* Two conditions under which a BasedPtr was set, for the properties: the task
\* tracked blocks it had already given up; the pointer lies at the base of the
\* tracked block that follows the one it points into.
Meanings == [target : {Unset} \cup Targets, stale : BOOLEAN, edge : BOOLEAN]

\* One condition under which a RelPtr was set, or copied from one that was set so:
\* its distance to the target is one that stands for something else.
RelMeanings == [target : {Unset} \cup Targets, clash : BOOLEAN]

AddressOfCell(c) == place[c[1]] + c[2]

AddressOfTarget(x) == IF x = NullTarget THEN NullPtr ELSE place[x.db] + x.off

-----------------------------------------------------------------------------
(* RelPtr                                                                  *)

\* RelPtr() sets the offset 1, RelPtr::set the distance, or 0 for nullptr.
RelUnset == 1

RelEncode(target, c) == IF target = NullPtr THEN 0 ELSE target - AddressOfCell(c)

RelGet(c) == IF rel[c] = 0 THEN NullPtr ELSE AddressOfCell(c) + rel[c]

\* Mutant of RelCopy: the copy a default assignment operator would make.
RelCopyAsIs(c, e) == rel[c]

\* RelPtr::set(const RelPtr &): the distance is worked out anew from the cell e.
RelCopy(c, e) == RelEncode(RelGet(c), e)

-----------------------------------------------------------------------------
(* BasedPtr                                                                *)

BasedUnset == [guid |-> ERROR_GUID, offset |-> 0]

\* BasedPtr::get in the current task of w, whose table is tbl.
BasedGetFails(tbl, p) ==
    p.guid = ERROR_GUID \/ (p.guid \in Guid /\ LookupFails(tbl, p.guid))

BasedGet(tbl, c) ==
    LET p == based[c]
    IN  CASE p.guid = NULL_GUID -> NullPtr
          [] p.guid = UNINITIALIZED_GUID -> AddressOfCell(c) + p.offset
          [] OTHER -> AddressForGuid(tbl, p.guid) + p.offset

-----------------------------------------------------------------------------
(* Steps                                                                   *)

TracksGivenUp(f) ==
    \E e \in Range(f.table.byGuid) : e.guid \notin holds[f.task]

AtNextBase(tbl, target, source) ==
    LET j == UpperBoundBase(tbl.byAddr, target)
    IN  target # NullPtr /\ j \in DOMAIN tbl.byAddr /\ source = tbl.byAddr[j].base

\* A pointer in c has been given the address of x by the task of frame f.
Meaning(f, x, c) ==
    [target |-> x,
     stale  |-> TracksGivenUp(f),
     edge   |-> AtNextBase(f.table, AddressOfTarget(x), AddressOfCell(c))]

Reach(f) == { x \in Targets : x = NullTarget \/ x.db \in Usable(f) }

\* The distance from c to the target x is 0 or RelUnset.
Clashes(x, c) == x.db = c[1] /\ x.off \in {c[2], c[2] + RelUnset}

\* RelPtr::set(const T *): to a place in the same datablock, as its comment asks.
SetRelPtr(w) ==
    /\ failure = "none"
    /\ Running(w)
    /\ \E c \in RelCells, x \in Reach(Current(w)) :
        /\ c[1] \in Usable(Current(w))
        /\ x.db \in {c[1], NULL_GUID}
        /\ rel' = [rel EXCEPT ![c] = RelEncode(AddressOfTarget(x), c)]
        /\ relMeant' = [relMeant EXCEPT ![c] = [target |-> x, clash |-> Clashes(x, c)]]
    /\ UNCHANGED << vars, based, asserted, meant >>

\* RelPtr::set(const RelPtr &), between cells of the target's datablock: reading a
\* pointer that was never set, or seems so, is an assertion that fails.
CopyRelPtr(w) ==
    /\ failure = "none"
    /\ Running(w)
    /\ \E c, e \in RelCells :
        LET old == relMeant[c]
        IN  /\ {c[1], e[1]} \subseteq Usable(Current(w))
            /\ old.target.db \in {e[1], NULL_GUID, ERROR_GUID}
            /\ IF rel[c] = RelUnset
               THEN asserted' = TRUE /\ UNCHANGED << rel, relMeant >>
               ELSE /\ rel' = [rel EXCEPT ![e] = RelCopy(c, e)]
                    /\ relMeant' = [relMeant EXCEPT ![e] =
                           [target |-> old.target,
                            clash |-> old.clash \/ Clashes(old.target, e)]]
                    /\ UNCHANGED asserted
    /\ UNCHANGED << vars, based, meant >>

\* BasedPtr::set(const T *), unless an assertion of GuidOffsetForAddress fails.
SetBasedPtr(w) ==
    /\ failure = "none"
    /\ Running(w)
    /\ \E c \in BasedCells, x \in Reach(Current(w)) :
        /\ c[1] \in Usable(Current(w))
        /\ IF EncodeFails(Current(w).table, AddressOfTarget(x))
           THEN asserted' = TRUE /\ UNCHANGED << based, meant >>
           ELSE /\ based' = [based EXCEPT ![c] =
                       GuidOffsetForAddress(Current(w).table, AddressOfTarget(x), AddressOfCell(c))]
                /\ meant' = [meant EXCEPT ![c] = Meaning(Current(w), x, c)]
                /\ UNCHANGED asserted
    /\ UNCHANGED << vars, rel, relMeant >>

\* BasedPtr::set(const BasedPtr &): a relative pointer is encoded anew for its
\* new cell, any other is copied as it is, set or not, and whether or not its
\* target is acquired.
CopyBasedPtr(w) ==
    /\ failure = "none"
    /\ Running(w)
    /\ \E c, e \in BasedCells :
        LET tbl == Current(w).table
            old == meant[c]
            new == Meaning(Current(w), old.target, e)
        IN  /\ {c[1], e[1]} \subseteq Usable(Current(w))
            /\ c # e
            /\ CASE based[c].guid # UNINITIALIZED_GUID ->
                       /\ based' = [based EXCEPT ![e] = based[c]]
                       /\ meant' = [meant EXCEPT ![e] = old]
                       /\ UNCHANGED asserted
                 [] based[c].guid = UNINITIALIZED_GUID /\ EncodeFails(tbl, BasedGet(tbl, c)) ->
                       asserted' = TRUE /\ UNCHANGED << based, meant >>
                 [] OTHER ->
                       /\ old.target \in Reach(Current(w))
                       /\ based' = [based EXCEPT ![e] =
                              GuidOffsetForAddress(tbl, BasedGet(tbl, c), AddressOfCell(e))]
                       /\ meant' = [meant EXCEPT ![e] =
                              [target |-> old.target, stale |-> old.stale \/ new.stale,
                               edge |-> old.edge \/ new.edge]]
                       /\ UNCHANGED asserted
    /\ UNCHANGED << vars, rel, relMeant >>

PtrInit ==
    /\ Init
    /\ based = [c \in BasedCells |-> BasedUnset]
    /\ rel = [c \in RelCells |-> RelUnset]
    /\ asserted = FALSE
    /\ meant = [c \in BasedCells |-> [target |-> Unset, stale |-> FALSE, edge |-> FALSE]]
    /\ relMeant = [c \in RelCells |-> [target |-> Unset, clash |-> FALSE]]

PtrNext ==
    /\ ~ asserted
    /\ \/ Next /\ UNCHANGED ptrVars
       \/ \E w \in Workers :
             SetRelPtr(w) \/ CopyRelPtr(w) \/ SetBasedPtr(w) \/ CopyBasedPtr(w)

PtrSpec == PtrInit /\ [][PtrNext]_allVars

-----------------------------------------------------------------------------
(* Properties                                                              *)

\* Type correctness.
PtrTypeOK ==
    /\ based \in [BasedCells -> [guid : Dbs \cup {NULL_GUID, ERROR_GUID, UNINITIALIZED_GUID},
                                 offset : Int]]
    /\ rel \in [RelCells -> Int]
    /\ asserted \in BOOLEAN
    /\ meant \in [BasedCells -> Meanings]
    /\ relMeant \in [RelCells -> RelMeanings]

\* The pointer in cell c and its target x are within reach of the task of f.
Readable(f, c, x) ==
    /\ c[1] \in Usable(f)
    /\ x \in Reach(f)

BasedPtrResolves(f, c) ==
    /\ ~ BasedGetFails(f.table, based[c])
    /\ BasedGet(f.table, c) = AddressOfTarget(meant[c].target)

\* A BasedPtr that some task has set or copied leads every later task that holds
\* both blocks to its target, wherever the blocks lie by then, provided that the
\* task that set it tracked only blocks it held and the pointer is not at the very
\* base of the block that follows its target.
BasedPtrsResolve ==
    \A f \in Frames, c \in BasedCells :
        Readable(f, c, meant[c].target) /\ ~ meant[c].stale /\ ~ meant[c].edge => BasedPtrResolves(f, c)

\* The same without the second proviso: a pointer is encoded as relative only
\* when it lies in the same datablock as its target.
BasedPtrsResolveFromAnyCell ==
    \A f \in Frames, c \in BasedCells :
        Readable(f, c, meant[c].target) /\ ~ meant[c].stale => BasedPtrResolves(f, c)

\* An address in a block the task holds is never refused by the assertions of
\* GuidOffsetForAddress.
HeldTargetsAccepted ==
    \A f \in Frames : \A x \in Reach(f) : ~ EncodeFails(f.table, AddressOfTarget(x))

\* The RelPtr in c can be read, and leads to its target.
RelPtrResolves(c) ==
    rel[c] # RelUnset /\ RelGet(c) = AddressOfTarget(relMeant[c].target)

\* A RelPtr into its own block that some task has set, or copied from another cell,
\* leads every later task to its target.  Excepted are pointers whose distance was 0
\* or 1 when they were set or copied, which stand for a null pointer and for one
\* that was never set, and the copies made of those.
RelPtrsResolve ==
    \A f \in Frames, c \in RelCells :
        Readable(f, c, relMeant[c].target) /\ ~ relMeant[c].clash => RelPtrResolves(c)

=============================================================================
