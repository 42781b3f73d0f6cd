---------------------------- MODULE PointersProofs ----------------------------
(***************************************************************************)
(* What RelPtr and BasedPtr guarantee for every number of workers, tasks,  *)
(* datablocks and cells, and for every layout of the memory: proofs about  *)
(* Pointers.                                                               *)
(*                                                                         *)
(* The value of a pointer says nothing of where blocks lie, so no step of  *)
(* TaskState can disturb it: PtrOK says what a pointer that was set holds, *)
(* by its target alone.  Where blocks lie matters when a pointer is set    *)
(* and when it is read; there IInv of TaskStateProofs says that the table  *)
(* has the blocks the task holds where they are, and Disjoint that another *)
(* block cannot lie between a block's base and an address in it.           *)
(***************************************************************************)
EXTENDS Pointers, AcquiredBlocksProofs

-----------------------------------------------------------------------------
(* The inductive invariant                                                 *)

\* p, in cell c, is an encoding of the target x: null, the guid and the offset, or
\* the distance within the block they share.
Encodes(p, x, c) ==
    IF x = NullTarget
    THEN p.guid = NULL_GUID
    ELSE \/ p.guid = x.db /\ p.offset = x.off
         \/ p.guid = UNINITIALIZED_GUID /\ x.db = c[1] /\ p.offset = x.off - c[2]

BasedOK ==
    \A c \in BasedCells :
        meant[c].target # Unset /\ ~ meant[c].stale /\ ~ meant[c].edge
            => Encodes(based[c], meant[c].target, c)

\* r, in cell c, is an encoding of the target x that reads as nothing else: null, or
\* the distance within the block they share.
RelEncodes(r, x, c) ==
    IF x = NullTarget
    THEN r = 0
    ELSE x.db = c[1] /\ r = x.off - c[2] /\ r \notin {0, RelUnset}

RelOK ==
    \A c \in RelCells :
        relMeant[c].target # Unset /\ ~ relMeant[c].clash
            => RelEncodes(rel[c], relMeant[c].target, c)

PtrOK == PtrTypeOK /\ BasedOK /\ RelOK

\* What the tasks and the runtime guarantee in every state.
MemoryInv == IInv /\ Disjoint(place)

-----------------------------------------------------------------------------
(* Addresses                                                               *)

\* Cells and targets.
LEMMA CellsAndTargets ==
    /\ \A c \in Cells : c[1] \in Dbs /\ c[2] \in Nat /\ c[2] < DbSize
    /\ BasedCells \subseteq Cells /\ RelCells \subseteq Cells
    /\ \A x \in Targets : x # NullTarget => x.db \in Dbs /\ x.off \in Nat /\ x.off < DbSize
    /\ Unset \notin Targets
    /\ Dbs \subseteq Nat \ {0}
    /\ DbSize \in Nat
<1>1. /\ DbSize \in Nat /\ Dbs \subseteq Nat \ {0}
      /\ 0 .. DbSize - 1 = { n \in Nat : n < DbSize }
    BY TaskStateAssumption DEF Guid, NULL_GUID
<1>2. \A c \in Cells : c[1] \in Dbs /\ c[2] \in 0 .. DbSize - 1
    BY PointersAssumption DEF Cells
<1>3. \A x \in Targets : x # NullTarget => x.db \in Dbs /\ x.off \in 0 .. DbSize - 1
    BY PointersAssumption DEF Targets
<1>4. Unset \notin Targets
    <2>1. Unset.db = -1 /\ NullTarget.db = 0
        BY DEF Unset, NullTarget, ERROR_GUID, NULL_GUID
    <2>2. \A x \in Targets : x.db = 0 \/ x.db \in Dbs
        BY <2>1 DEF Targets
    <2>3. QED
        BY <1>1, <2>1, <2>2
<1>5. QED
    BY <1>1, <1>2, <1>3, <1>4 DEF Cells

\* Their addresses are numbers.
LEMMA AddressesAreNumbers ==
    ASSUME IInv
    PROVE  /\ \A c \in Cells : AddressOfCell(c) \in Nat
           /\ \A x \in Targets : AddressOfTarget(x) \in Nat
<1>1. ASSUME NEW d \in Dbs PROVE place[d] \in Nat
    <2>1. place[d] \in Bases \cup {NullPtr}
        BY DEF IInv, MemoryOK
    <2>2. Bases \subseteq Nat
        BY TaskStateAssumption DEF Address
    <2>3. NullPtr \in Nat
        BY DEF NullPtr
    <2>4. QED
        BY <2>1, <2>2, <2>3
<1>2. ASSUME NEW c \in Cells PROVE AddressOfCell(c) \in Nat
    <2>1. place[c[1]] \in Nat /\ c[2] \in Nat
        BY <1>1, CellsAndTargets
    <2>2. QED
        BY <2>1 DEF AddressOfCell
<1>3. ASSUME NEW x \in Targets PROVE AddressOfTarget(x) \in Nat
    <2>1. CASE x = NullTarget
        BY <2>1 DEF AddressOfTarget, NullPtr
    <2>2. CASE x # NullTarget
        <3>1. place[x.db] \in Nat /\ x.off \in Nat
            BY <1>1, <2>2, CellsAndTargets
        <3>2. QED
            BY <2>2, <3>1 DEF AddressOfTarget
    <2>3. QED
        BY <2>1, <2>2
<1>4. QED
    BY <1>2, <1>3

\* A block a task can use is in its table, at the address where it lies.
LEMMA UsableEntry ==
    ASSUME IInv, NEW f \in Frames, NEW d \in Usable(f)
    PROVE  /\ f.table \in Table /\ Coherent(f.table)
           /\ d \in Dbs /\ place[d] \in Nat /\ place[d] # NullPtr
           /\ Tracks(f.table, d) /\ AddressForGuid(f.table, d) = place[d]
           /\ \E e \in Range(f.table.byGuid) : e.guid = d /\ e.base = place[d]
<1>1. /\ f \in Frame /\ f.task \in Tasks /\ f.table \in Table
      /\ FrameOK(f, holds[f.task], everHeld[f.task], place)
    BY FramesAreOK, FrameFields
<1>2. d \in holds[f.task]
    BY DEF Usable
<1>3. d \in Dbs /\ d \in Guid /\ place[d] \in Address
    BY <1>1, <1>2, HeldAddress DEF IInv
<1>4. Tracks(f.table, d) /\ AddressForGuid(f.table, d) = place[d]
    BY UsableBlocksResolve DEF HeldBlocksResolve
<1>5. Coherent(f.table)
    BY <1>1 DEF FrameOK
<1>6. PICK e \in Range(f.table.byGuid) : e.guid = d
    BY <1>1, <1>3, <1>4, <1>5, TracksMeans DEF Guid
<1>7. e.base = place[d]
    BY <1>1, <1>2, <1>6 DEF FrameOK, EntriesOK
<1>8. QED
    BY <1>1, <1>3, <1>4, <1>5, <1>6, <1>7 DEF Address

\* An entry of a table whose blocks the task holds is where its block lies.
LEMMA HeldEntry ==
    ASSUME IInv, NEW f \in Frames, ~ TracksGivenUp(f), NEW e \in Range(f.table.byGuid)
    PROVE  e.guid \in Dbs /\ place[e.guid] # NullPtr /\ e.base = place[e.guid]
<1>1. /\ f \in Frame /\ f.task \in Tasks
      /\ FrameOK(f, holds[f.task], everHeld[f.task], place)
    BY FramesAreOK
<1>2. e.guid \in holds[f.task]
    BY DEF TracksGivenUp
<1>3. e.base = place[e.guid]
    BY <1>1, <1>2 DEF FrameOK, EntriesOK
<1>4. e.guid \in Dbs /\ place[e.guid] \in Address
    BY <1>1, <1>2, HeldAddress DEF IInv
<1>5. QED
    BY <1>3, <1>4 DEF Address

-----------------------------------------------------------------------------
(* Setting a pointer                                                       *)

\* Whatever the table tracks, what BasedPtr::set writes has the right type.
LEMMA EncodingIsTyped ==
    ASSUME IInv, NEW f \in Frames, NEW target \in Int, NEW source \in Int,
           ~ EncodeFails(f.table, target)
    PROVE  GuidOffsetForAddress(f.table, target, source) \in
               [guid : Dbs \cup {NULL_GUID, ERROR_GUID, UNINITIALIZED_GUID}, offset : Int]
<1>1. /\ f.table \in Table /\ f.task \in Tasks
      /\ FrameOK(f, holds[f.task], everHeld[f.task], place)
    BY FramesAreOK, FrameFields
<1>2. CASE target = NullPtr
    BY <1>2 DEF GuidOffsetForAddress
<1>3. CASE target # NullPtr
    <2> DEFINE e == EncodingEntry(f.table, target)
    <2>1. e \in Range(f.table.byGuid)
        BY <1>1, <1>3, EncodingEntryIsLast DEF FrameOK
    <2>2. e.guid \in Dbs
        BY <1>1, <2>1 DEF FrameOK, EntriesOK, IInv, MemoryOK
    <2>3. e.base \in Int
        <3>1. \A x \in Range(f.table.byGuid) : x \in DbPair
            BY <1>1 DEF Table, Range
        <3>2. QED
            BY <2>1, <3>1, DbPairFields
    <2>4. \/ GuidOffsetForAddress(f.table, target, source) =
                [guid |-> UNINITIALIZED_GUID, offset |-> target - source]
          \/ GuidOffsetForAddress(f.table, target, source) =
                [guid |-> e.guid, offset |-> target - e.base]
        BY <1>3 DEF GuidOffsetForAddress, EncodingEntry
    <2> HIDE DEF e
    <2>5. QED
        BY <2>2, <2>3, <2>4
<1>4. QED
    BY <1>2, <1>3

\* An address in a block the task can use is accepted.
LEMMA ReachIsAccepted ==
    ASSUME IInv, NEW f \in Frames, NEW x \in Reach(f)
    PROVE  ~ EncodeFails(f.table, AddressOfTarget(x))
<1>1. CASE x = NullTarget
    BY <1>1 DEF EncodeFails, AddressOfTarget
<1>2. CASE x # NullTarget
    <2>1. x \in Targets /\ x.db \in Usable(f) /\ x.off \in Nat
        BY <1>2, CellsAndTargets DEF Reach
    <2>2. PICK e \in Range(f.table.byGuid) : e.base = place[x.db]
        BY <2>1, UsableEntry
    <2>3. AddressOfTarget(x) = place[x.db] + x.off /\ place[x.db] \in Nat
        BY <1>2, <2>1, UsableEntry DEF AddressOfTarget
    <2>4. e.base <= AddressOfTarget(x) /\ AddressOfTarget(x) \in Int
        BY <2>1, <2>2, <2>3
    <2>5. QED
        BY <2>1, <2>4, UsableEntry, EncodingAccepts
<1>3. QED
    BY <1>1, <1>2

\* A task that tracks only blocks it holds, and whose pointer is not at the base of
\* the block after the target's, encodes the target.
LEMMA SettingEncodes ==
    ASSUME MemoryInv, NEW f \in Frames, NEW x \in Reach(f), NEW c \in Cells,
           c[1] \in Usable(f), ~ TracksGivenUp(f),
           ~ AtNextBase(f.table, AddressOfTarget(x), AddressOfCell(c))
    PROVE  Encodes(GuidOffsetForAddress(f.table, AddressOfTarget(x), AddressOfCell(c)), x, c)
<1> DEFINE target == AddressOfTarget(x)
           source == AddressOfCell(c)
           tbl == f.table
           p == GuidOffsetForAddress(tbl, target, source)
           j == UpperBoundBase(tbl.byAddr, target)
<1>1. IInv /\ Disjoint(place)
    BY DEF MemoryInv
<1>2. CASE x = NullTarget
    BY <1>2 DEF Encodes, GuidOffsetForAddress, AddressOfTarget
<1>3. CASE x # NullTarget
    <2>1. /\ x.db \in Usable(f) /\ x.off \in Nat /\ x.off < DbSize /\ x \in Targets
          /\ c[2] \in Nat /\ c[2] < DbSize /\ DbSize \in Nat
        BY <1>3, CellsAndTargets DEF Reach
    <2>2. /\ tbl \in Table /\ Coherent(tbl)
          /\ x.db \in Dbs /\ place[x.db] \in Nat /\ place[x.db] # NullPtr
          /\ c[1] \in Dbs /\ place[c[1]] \in Nat /\ place[c[1]] # NullPtr
        BY <1>1, <2>1, UsableEntry
    <2>3. /\ target = place[x.db] + x.off /\ source = place[c[1]] + c[2]
          /\ target \in Int /\ source \in Int /\ target # NullPtr
        BY <1>3, <2>1, <2>2 DEF AddressOfTarget, AddressOfCell, NullPtr
    <2>4. ~ EncodeFails(tbl, target)
        BY <1>1, ReachIsAccepted
    <2>5. PICK ex \in Range(tbl.byGuid) : ex.guid = x.db /\ ex.base = place[x.db]
        BY <1>1, <2>1, UsableEntry
    <2>6. PICK ec \in Range(tbl.byGuid) : ec.guid = c[1] /\ ec.base = place[c[1]]
        BY <1>1, UsableEntry
    <2> DEFINE e == EncodingEntry(tbl, target)
    <2>7. /\ e \in Range(tbl.byGuid) /\ e.base <= target
          /\ ex.base <= target => ex.base <= e.base
        <3> HIDE DEF target, e, tbl
        <3>1. QED
            BY <2>2, <2>3, <2>4, <2>5, EncodingEntryIsLast DEF e
    <2>8. e.guid \in Dbs /\ place[e.guid] # NullPtr /\ e.base = place[e.guid]
        BY <1>1, <2>7, HeldEntry
    <2>9. place[e.guid] \in Nat
        BY <1>1, <2>8, TaskStateAssumption DEF IInv, MemoryOK, Address, NullPtr
    <2>10. e.guid = x.db
        <3>1. e.guid # x.db => \/ place[e.guid] + DbSize <= place[x.db]
                               \/ place[x.db] + DbSize <= place[e.guid]
            BY <1>1, <2>2, <2>8 DEF Disjoint
        <3>2. place[x.db] <= place[e.guid] /\ place[e.guid] <= place[x.db] + x.off
            BY <2>1, <2>2, <2>3, <2>5, <2>7, <2>8, <2>9
        <3> HIDE DEF e
        <3>3. DbSize # 0
            BY TaskStateAssumption
        <3>4. QED
            BY <2>1, <2>2, <2>9, <3>1, <3>2, <3>3
    <2>11. p = IF e.base <= source /\ (j \in DOMAIN tbl.byAddr => source <= tbl.byAddr[j].base)
               THEN [guid |-> UNINITIALIZED_GUID, offset |-> target - source]
               ELSE [guid |-> e.guid, offset |-> target - e.base]
        BY <2>3 DEF GuidOffsetForAddress, EncodingEntry
    <2>12. ASSUME e.base <= source,
                  j \in DOMAIN tbl.byAddr => source <= tbl.byAddr[j].base,
                  c[1] # x.db
           PROVE  FALSE
        <3>1. \/ place[c[1]] + DbSize <= place[x.db]
              \/ place[x.db] + DbSize <= place[c[1]]
            BY <1>1, <2>2, <2>12 DEF Disjoint
        <3>2. place[x.db] + DbSize <= place[c[1]]
            BY <2>1, <2>2, <2>3, <2>8, <2>10, <2>12, <3>1
        <3>3. ec.base > target
            BY <2>1, <2>2, <2>3, <2>6, <3>2
        <3>4. j \in DOMAIN tbl.byAddr /\ tbl.byAddr[j].base <= ec.base
            <4> HIDE DEF target, tbl
            <4>1. QED
                BY <2>2, <2>3, <2>6, <3>3, NextEntryIsFirst
        <3>5. tbl.byAddr[j].base \in Nat
            BY <2>2, <3>4, DbPairFields DEF Table
        <3>6. source = tbl.byAddr[j].base
            BY <2>1, <2>2, <2>3, <2>6, <2>12, <3>4, <3>5
        <3>7. QED
            BY <2>3, <3>4, <3>6 DEF AtNextBase
    <2>13. CASE e.base <= source /\ (j \in DOMAIN tbl.byAddr => source <= tbl.byAddr[j].base)
        <3>1. c[1] = x.db
            BY <2>12, <2>13
        <3>2. p.guid = UNINITIALIZED_GUID /\ p.offset = target - source
            BY <2>11, <2>13
        <3>3. target - source = x.off - c[2]
            BY <2>1, <2>2, <2>3, <3>1
        <3>4. QED
            BY <1>3, <3>1, <3>2, <3>3 DEF Encodes
    <2>14. CASE ~ (e.base <= source /\ (j \in DOMAIN tbl.byAddr => source <= tbl.byAddr[j].base))
        <3>1. p.guid = e.guid /\ p.offset = target - e.base
            BY <2>11, <2>14
        <3>2. target - e.base = x.off
            BY <2>1, <2>2, <2>3, <2>8, <2>10
        <3>3. QED
            BY <1>3, <2>10, <3>1, <3>2 DEF Encodes
    <2>15. QED
        BY <2>13, <2>14
<1>4. QED
    BY <1>2, <1>3

-----------------------------------------------------------------------------
(* The steps                                                               *)

\* What is recorded of a pointer that is set to a target.
LEMMA MeaningIsTyped ==
    ASSUME NEW f, NEW x \in Targets, NEW c
    PROVE  /\ Meaning(f, x, c) \in Meanings
           /\ Meaning(f, x, c).target = x
           /\ Meaning(f, x, c).stale <=> TracksGivenUp(f)
           /\ Meaning(f, x, c).edge <=> AtNextBase(f.table, AddressOfTarget(x), AddressOfCell(c))
<1>1. TracksGivenUp(f) \in BOOLEAN
    BY DEF TracksGivenUp
<1>2. AtNextBase(f.table, AddressOfTarget(x), AddressOfCell(c)) \in BOOLEAN
    BY DEF AtNextBase
<1>3. QED
    BY <1>1, <1>2 DEF Meaning, Meanings

\* The current task of a worker that is running.
LEMMA RunningFrame ==
    ASSUME NEW w \in Workers, IInv, Running(w)
    PROVE  Current(w) \in Frames
<1>1. stack[w] # << >> /\ stack[w] \in Seq(Frame)
    BY DEF Running, IInv, StackOK
<1>2. 1 \in DOMAIN stack[w]
    BY <1>1
<1>3. QED
    BY <1>2 DEF Frames, Current

\* Writing a BasedPtr keeps the others, and the RelPtrs.
LEMMA BasedPtrWritten ==
    ASSUME PtrOK, NEW c \in BasedCells,
           NEW p \in [guid : Dbs \cup {NULL_GUID, ERROR_GUID, UNINITIALIZED_GUID}, offset : Int],
           NEW m \in Meanings,
           based' = [based EXCEPT ![c] = p], meant' = [meant EXCEPT ![c] = m],
           rel' = rel, relMeant' = relMeant, asserted' = asserted,
           m.target # Unset /\ ~ m.stale /\ ~ m.edge => Encodes(p, m.target, c)
    PROVE  PtrOK'
<1>1. PtrTypeOK
    BY DEF PtrOK
<1>2. PtrTypeOK'
    BY <1>1 DEF PtrTypeOK
<1>3. BasedOK'
    <2> SUFFICES ASSUME NEW e \in BasedCells,
                        meant'[e].target # Unset, ~ meant'[e].stale, ~ meant'[e].edge
                 PROVE  Encodes(based'[e], meant'[e].target, e)
        BY DEF BasedOK
    <2>1. CASE e = c
        BY <1>1, <2>1 DEF PtrTypeOK
    <2>2. CASE e # c
        <3>1. based'[e] = based[e] /\ meant'[e] = meant[e]
            BY <1>1, <2>2 DEF PtrTypeOK
        <3>2. QED
            BY <3>1 DEF PtrOK, BasedOK
    <2>3. QED
        BY <2>1, <2>2
<1>4. RelOK'
    BY DEF RelOK, PtrOK
<1>5. QED
    BY <1>2, <1>3, <1>4 DEF PtrOK

\* Writing a RelPtr keeps the others, and the BasedPtrs.
LEMMA RelPtrWritten ==
    ASSUME PtrOK, NEW c \in RelCells, NEW r \in Int, NEW m \in RelMeanings,
           rel' = [rel EXCEPT ![c] = r], relMeant' = [relMeant EXCEPT ![c] = m],
           based' = based, meant' = meant, asserted' = asserted,
           m.target # Unset /\ ~ m.clash => RelEncodes(r, m.target, c)
    PROVE  PtrOK'
<1>1. PtrTypeOK
    BY DEF PtrOK
<1>2. PtrTypeOK'
    BY <1>1 DEF PtrTypeOK
<1>3. BasedOK'
    BY DEF BasedOK, PtrOK
<1>4. RelOK'
    <2> SUFFICES ASSUME NEW e \in RelCells, relMeant'[e].target # Unset, ~ relMeant'[e].clash
                 PROVE  RelEncodes(rel'[e], relMeant'[e].target, e)
        BY DEF RelOK
    <2>1. CASE e = c
        BY <1>1, <2>1 DEF PtrTypeOK
    <2>2. CASE e # c
        <3>1. rel'[e] = rel[e] /\ relMeant'[e] = relMeant[e]
            BY <1>1, <2>2 DEF PtrTypeOK
        <3>2. QED
            BY <3>1 DEF PtrOK, RelOK
    <2>3. QED
        BY <2>1, <2>2
<1>5. QED
    BY <1>2, <1>3, <1>4 DEF PtrOK

\* A failed assertion leaves the pointers as they were.
LEMMA AssertionKeeps ==
    ASSUME PtrOK, asserted' = TRUE,
           UNCHANGED << based, rel, meant, relMeant >>
    PROVE  PtrOK'
BY DEF PtrOK, PtrTypeOK, BasedOK, RelOK

\* The distance to a target in the cell's block, or null, encodes it unless it
\* clashes; and it is a number in any case.
LEMMA DistanceEncodes ==
    ASSUME IInv, NEW f \in Frames, NEW c \in RelCells, c[1] \in Usable(f),
           NEW x \in Targets, x.db \in {c[1], NULL_GUID}
    PROVE  /\ RelEncode(AddressOfTarget(x), c) \in Int
           /\ ~ Clashes(x, c) => RelEncodes(RelEncode(AddressOfTarget(x), c), x, c)
<1> DEFINE r == RelEncode(AddressOfTarget(x), c)
<1>1. c \in Cells
    BY CellsAndTargets
<1>2. CASE x = NullTarget
    BY <1>2 DEF RelEncode, AddressOfTarget, RelEncodes
<1>3. CASE x # NullTarget
    <2>1. x.db = c[1] /\ x.off \in Nat /\ c[2] \in Nat
        BY <1>1, <1>3, CellsAndTargets DEF NULL_GUID
    <2>2. place[x.db] \in Nat /\ place[x.db] # NullPtr
        BY <2>1, UsableEntry
    <2>3. AddressOfTarget(x) = place[x.db] + x.off /\ AddressOfTarget(x) # NullPtr
        BY <1>3, <2>1, <2>2 DEF AddressOfTarget, NullPtr
    <2>4. r = (place[x.db] + x.off) - (place[x.db] + c[2])
        BY <2>1, <2>3 DEF RelEncode, AddressOfCell
    <2>5. r = x.off - c[2]
        BY <2>1, <2>2, <2>4
    <2>6. ~ Clashes(x, c) => x.off # c[2] /\ x.off # c[2] + 1
        BY <2>1 DEF Clashes, RelUnset
    <2> HIDE DEF r
    <2>7. r \in Int /\ (~ Clashes(x, c) => r # 0 /\ r # 1)
        BY <2>1, <2>5, <2>6
    <2>8. ~ Clashes(x, c) => RelEncodes(r, x, c)
        BY <1>3, <2>1, <2>5, <2>7 DEF RelEncodes, RelUnset
    <2>9. QED
        BY <2>7, <2>8 DEF r
<1>4. QED
    BY <1>2, <1>3

\* A RelPtr that encodes its target leads a task that can use the block to it.
LEMMA RelEncodedResolves ==
    ASSUME IInv, NEW f \in Frames, NEW c \in RelCells, c[1] \in Usable(f),
           NEW x \in Targets, RelEncodes(rel[c], x, c)
    PROVE  rel[c] # RelUnset /\ RelGet(c) = AddressOfTarget(x)
<1>1. CASE x = NullTarget
    BY <1>1 DEF RelEncodes, RelGet, RelUnset, AddressOfTarget
<1>2. CASE x # NullTarget
    <2>1. x.db = c[1] /\ rel[c] = x.off - c[2] /\ rel[c] \notin {0, RelUnset}
        BY <1>2 DEF RelEncodes
    <2>2. x.off \in Nat /\ c[2] \in Nat /\ place[c[1]] \in Nat
        BY <1>2, CellsAndTargets, UsableEntry
    <2>3. /\ RelGet(c) = (place[c[1]] + c[2]) + (x.off - c[2])
          /\ AddressOfTarget(x) = place[c[1]] + x.off
        BY <1>2, <2>1 DEF RelGet, AddressOfCell, AddressOfTarget
    <2>4. QED
        BY <2>1, <2>2, <2>3
<1>3. QED
    BY <1>1, <1>2

\* RelPtr::set of an address.
LEMMA SetRelPtrStep ==
    ASSUME MemoryInv, PtrOK, NEW w \in Workers, SetRelPtr(w)
    PROVE  PtrOK'
<1>1. PICK c \in RelCells, x \in Reach(Current(w)) :
        /\ c[1] \in Usable(Current(w))
        /\ x.db \in {c[1], NULL_GUID}
        /\ rel' = [rel EXCEPT ![c] = RelEncode(AddressOfTarget(x), c)]
        /\ relMeant' = [relMeant EXCEPT ![c] = [target |-> x, clash |-> Clashes(x, c)]]
    BY DEF SetRelPtr
<1>2. based' = based /\ meant' = meant /\ asserted' = asserted
    BY DEF SetRelPtr
<1>3. IInv /\ Current(w) \in Frames
    BY RunningFrame DEF SetRelPtr, MemoryInv
<1>4. x \in Targets
    BY DEF Reach
<1> DEFINE m == [target |-> x, clash |-> Clashes(x, c)]
           r == RelEncode(AddressOfTarget(x), c)
<1>5. m \in RelMeanings
    BY <1>4 DEF RelMeanings, Clashes
<1>6. r \in Int /\ (~ m.clash => RelEncodes(r, x, c))
    BY <1>1, <1>3, <1>4, DistanceEncodes
<1>7. m.target = x /\ rel' = [rel EXCEPT ![c] = r] /\ relMeant' = [relMeant EXCEPT ![c] = m]
    BY <1>1
<1> HIDE DEF m, r
<1>8. QED
    BY <1>2, <1>5, <1>6, <1>7, RelPtrWritten

\* RelPtr::set of another RelPtr.
LEMMA CopyRelPtrStep ==
    ASSUME MemoryInv, PtrOK, NEW w \in Workers, CopyRelPtr(w)
    PROVE  PtrOK'
<1>1. PICK c \in RelCells, e \in RelCells :
        /\ {c[1], e[1]} \subseteq Usable(Current(w))
        /\ relMeant[c].target.db \in {e[1], NULL_GUID, ERROR_GUID}
        /\ IF rel[c] = RelUnset
           THEN asserted' = TRUE /\ UNCHANGED << rel, relMeant >>
           ELSE /\ rel' = [rel EXCEPT ![e] = RelCopy(c, e)]
                /\ relMeant' = [relMeant EXCEPT ![e] =
                       [target |-> relMeant[c].target,
                        clash |-> relMeant[c].clash \/ Clashes(relMeant[c].target, e)]]
                /\ UNCHANGED asserted
    BY DEF CopyRelPtr
<1>2. based' = based /\ meant' = meant
    BY DEF CopyRelPtr
<1>3. IInv /\ Current(w) \in Frames
    BY RunningFrame DEF CopyRelPtr, MemoryInv
<1>4. CASE rel[c] = RelUnset
    BY <1>1, <1>2, <1>4, AssertionKeeps
<1>5. CASE rel[c] # RelUnset
    <2> DEFINE x == relMeant[c].target
               old == relMeant[c]
               m == [target |-> x, clash |-> old.clash \/ Clashes(x, e)]
               r == RelCopy(c, e)
    <2>1. /\ rel' = [rel EXCEPT ![e] = r] /\ relMeant' = [relMeant EXCEPT ![e] = m]
          /\ asserted' = asserted
        BY <1>1, <1>5
    <2>2. old \in RelMeanings /\ rel[c] \in Int /\ c \in Cells /\ e \in Cells
        BY CellsAndTargets DEF PtrOK, PtrTypeOK
    <2>3. x \in {Unset} \cup Targets /\ old.clash \in BOOLEAN
        BY <2>2 DEF RelMeanings
    <2>4. m \in RelMeanings
        <3>1. (old.clash \/ Clashes(x, e)) \in BOOLEAN
            OBVIOUS
        <3>2. QED
            BY <2>3, <3>1 DEF RelMeanings
    <2>5. r \in Int
        <3>1. AddressOfCell(c) \in Int /\ AddressOfCell(e) \in Int
            BY <1>3, <2>2, AddressesAreNumbers
        <3>2. QED
            BY <2>2, <3>1 DEF RelCopy, RelEncode, RelGet, NullPtr
    <2>6. ASSUME x # Unset, ~ m.clash
          PROVE  RelEncodes(r, x, e)
        <3>1. ~ old.clash /\ ~ Clashes(x, e) /\ x \in Targets
            BY <2>3, <2>6
        <3>2. x.db \in {e[1], NULL_GUID}
            <4>1. x = NullTarget \/ x.db # ERROR_GUID
                BY <3>1, CellsAndTargets DEF ERROR_GUID
            <4>2. NullTarget.db = NULL_GUID
                BY DEF NullTarget
            <4>3. QED
                BY <1>1, <4>1, <4>2
        <3>3. RelEncodes(rel[c], x, c)
            BY <2>6, <3>1 DEF PtrOK, RelOK
        <3>4. RelGet(c) = AddressOfTarget(x)
            BY <1>1, <1>3, <3>1, <3>3, RelEncodedResolves
        <3>5. r = RelEncode(AddressOfTarget(x), e)
            BY <3>4 DEF RelCopy
        <3>6. QED
            BY <1>1, <1>3, <3>1, <3>2, <3>5, DistanceEncodes
    <2>7. m.target = x
        OBVIOUS
    <2> HIDE DEF m, r, x
    <2>8. QED
        BY <1>2, <2>1, <2>4, <2>5, <2>6, <2>7, RelPtrWritten
<1>6. QED
    BY <1>4, <1>5

\* BasedPtr::set of an address.
LEMMA SetBasedPtrStep ==
    ASSUME MemoryInv, PtrOK, NEW w \in Workers, SetBasedPtr(w)
    PROVE  PtrOK'
<1> DEFINE f == Current(w)
<1>1. PICK c \in BasedCells, x \in Reach(f) :
        /\ c[1] \in Usable(f)
        /\ IF EncodeFails(f.table, AddressOfTarget(x))
           THEN asserted' = TRUE /\ UNCHANGED << based, meant >>
           ELSE /\ based' = [based EXCEPT ![c] =
                       GuidOffsetForAddress(f.table, AddressOfTarget(x), AddressOfCell(c))]
                /\ meant' = [meant EXCEPT ![c] = Meaning(f, x, c)]
                /\ UNCHANGED asserted
    BY DEF SetBasedPtr
<1>2. rel' = rel /\ relMeant' = relMeant /\ IInv /\ f \in Frames
    BY RunningFrame DEF SetBasedPtr, MemoryInv
<1>3. ~ EncodeFails(f.table, AddressOfTarget(x))
    BY <1>2, ReachIsAccepted
<1>4. c \in Cells /\ x \in Targets
    BY CellsAndTargets DEF Reach
<1> HIDE DEF f
<1> DEFINE m == Meaning(f, x, c)
           p == GuidOffsetForAddress(f.table, AddressOfTarget(x), AddressOfCell(c))
<1>5. /\ m \in Meanings /\ m.target = x
      /\ m.stale <=> TracksGivenUp(f)
      /\ m.edge <=> AtNextBase(f.table, AddressOfTarget(x), AddressOfCell(c))
    BY <1>4, MeaningIsTyped
<1>6. AddressOfTarget(x) \in Int /\ AddressOfCell(c) \in Int
    BY <1>2, <1>4, AddressesAreNumbers
<1>7. p \in [guid : Dbs \cup {NULL_GUID, ERROR_GUID, UNINITIALIZED_GUID}, offset : Int]
    BY <1>2, <1>6, <1>3, EncodingIsTyped
<1>8. ~ m.stale /\ ~ m.edge => Encodes(p, x, c)
    BY <1>1, <1>2, <1>4, <1>5, SettingEncodes
<1> HIDE DEF m, p
<1>9. /\ based' = [based EXCEPT ![c] = p] /\ meant' = [meant EXCEPT ![c] = m]
      /\ asserted' = asserted
    BY <1>1, <1>3 DEF m, p
<1>10. QED
    BY <1>2, <1>5, <1>7, <1>8, <1>9, BasedPtrWritten

\* A pointer that encodes its target leads a task that can use both blocks to it.
LEMMA EncodedResolves ==
    ASSUME IInv, NEW f \in Frames, NEW c \in BasedCells, NEW x \in Reach(f),
           c[1] \in Usable(f), Encodes(based[c], x, c)
    PROVE  /\ ~ BasedGetFails(f.table, based[c])
           /\ BasedGet(f.table, c) = AddressOfTarget(x)
<1> DEFINE p == based[c]
<1>1. CASE x = NullTarget
    <2>1. p.guid = NULL_GUID
        BY <1>1 DEF Encodes
    <2>2. NULL_GUID # ERROR_GUID /\ NULL_GUID \notin Guid
        BY DEF NULL_GUID, ERROR_GUID, Guid
    <2>3. ~ BasedGetFails(f.table, p)
        BY <2>1, <2>2 DEF BasedGetFails
    <2>4. BasedGet(f.table, c) = NullPtr
        BY <2>1 DEF BasedGet, NULL_GUID, UNINITIALIZED_GUID
    <2>5. AddressOfTarget(x) = NullPtr
        BY <1>1 DEF AddressOfTarget
    <2>6. QED
        BY <2>3, <2>4, <2>5
<1>2. CASE x # NullTarget
    <2>1. x.db \in Usable(f) /\ x.off \in Nat /\ x.db \in Nat /\ x.db # 0 /\ c[2] \in Nat
        BY <1>2, CellsAndTargets DEF Reach
    <2>2. Tracks(f.table, x.db) /\ AddressForGuid(f.table, x.db) = place[x.db] /\ place[x.db] \in Nat
        BY <2>1, UsableEntry
    <2>3. AddressOfTarget(x) = place[x.db] + x.off
        BY <1>2 DEF AddressOfTarget
    <2>4. CASE p.guid = x.db /\ p.offset = x.off
        BY <2>1, <2>2, <2>3, <2>4
           DEF BasedGetFails, BasedGet, LookupFails, NULL_GUID, ERROR_GUID, UNINITIALIZED_GUID
    <2>5. CASE p.guid = UNINITIALIZED_GUID /\ x.db = c[1] /\ p.offset = x.off - c[2]
        <3>1. ~ BasedGetFails(f.table, p)
            BY <2>5 DEF BasedGetFails, Guid, NULL_GUID, ERROR_GUID, UNINITIALIZED_GUID
        <3>2. BasedGet(f.table, c) = AddressOfCell(c) + p.offset
            BY <2>5 DEF BasedGet, NULL_GUID, UNINITIALIZED_GUID
        <3>3. AddressOfCell(c) + p.offset = (place[x.db] + c[2]) + (x.off - c[2])
            BY <2>5 DEF AddressOfCell
        <3>4. QED
            BY <2>1, <2>2, <2>3, <3>1, <3>2, <3>3
    <2>6. QED
        BY <1>2, <2>4, <2>5 DEF Encodes
<1>3. QED
    BY <1>1, <1>2

\* BasedPtr::set of another BasedPtr.
LEMMA CopyBasedPtrStep ==
    ASSUME MemoryInv, PtrOK, NEW w \in Workers, CopyBasedPtr(w)
    PROVE  PtrOK'
<1> DEFINE f == Current(w)
           tbl == f.table
           Pointer == [guid : Dbs \cup {NULL_GUID, ERROR_GUID, UNINITIALIZED_GUID}, offset : Int]
<1>1. PICK c \in BasedCells, e \in BasedCells :
        /\ {c[1], e[1]} \subseteq Usable(f)
        /\ c # e
        /\ \/ /\ based[c].guid # UNINITIALIZED_GUID
              /\ based' = [based EXCEPT ![e] = based[c]]
              /\ meant' = [meant EXCEPT ![e] = meant[c]]
              /\ asserted' = asserted
           \/ /\ based[c].guid = UNINITIALIZED_GUID
              /\ asserted' = TRUE
              /\ based' = based
              /\ meant' = meant
           \/ /\ based[c].guid = UNINITIALIZED_GUID
              /\ ~ EncodeFails(tbl, BasedGet(tbl, c))
              /\ meant[c].target \in Reach(f)
              /\ based' = [based EXCEPT ![e] =
                     GuidOffsetForAddress(tbl, BasedGet(tbl, c), AddressOfCell(e))]
              /\ meant' = [meant EXCEPT ![e] =
                     [target |-> meant[c].target,
                      stale |-> meant[c].stale \/ Meaning(f, meant[c].target, e).stale,
                      edge |-> meant[c].edge \/ Meaning(f, meant[c].target, e).edge]]
              /\ asserted' = asserted
    BY Zenon DEF CopyBasedPtr
<1>2. rel' = rel /\ relMeant' = relMeant /\ IInv /\ f \in Frames
    BY RunningFrame DEF CopyBasedPtr, MemoryInv
<1>3. /\ c \in Cells /\ e \in Cells
      /\ meant[c] \in Meanings /\ based[c] \in Pointer
    BY CellsAndTargets DEF PtrOK, PtrTypeOK
<1> DEFINE x == meant[c].target
           old == meant[c]
<1>4. x # Unset /\ ~ old.stale /\ ~ old.edge => Encodes(based[c], x, c)
    BY DEF PtrOK, BasedOK
<1> HIDE DEF f, Pointer
<1>5. CASE asserted' = TRUE /\ based' = based /\ meant' = meant
    BY <1>2, <1>5, AssertionKeeps
<1>6. CASE /\ based[c].guid = UNINITIALIZED_GUID
           /\ ~ EncodeFails(tbl, BasedGet(tbl, c))
           /\ x \in Reach(f)
           /\ based' = [based EXCEPT ![e] =
                  GuidOffsetForAddress(tbl, BasedGet(tbl, c), AddressOfCell(e))]
           /\ meant' = [meant EXCEPT ![e] =
                  [target |-> x,
                   stale |-> old.stale \/ Meaning(f, x, e).stale,
                   edge |-> old.edge \/ Meaning(f, x, e).edge]]
           /\ asserted' = asserted
    <2> DEFINE new == Meaning(f, x, e)
               m == [target |-> x, stale |-> old.stale \/ new.stale, edge |-> old.edge \/ new.edge]
               target == BasedGet(tbl, c)
               p == GuidOffsetForAddress(tbl, target, AddressOfCell(e))
    <2>1. x \in Targets /\ x # Unset
        BY <1>6, CellsAndTargets DEF Reach
    <2>2. /\ x \in Reach(f) /\ ~ EncodeFails(tbl, target)
          /\ based' = [based EXCEPT ![e] = p] /\ meant' = [meant EXCEPT ![e] = m]
          /\ asserted' = asserted
        BY <1>6
    <2>3. /\ new \in Meanings
          /\ new.stale <=> TracksGivenUp(f)
          /\ new.edge <=> AtNextBase(tbl, AddressOfTarget(x), AddressOfCell(e))
        BY <2>1, MeaningIsTyped
    <2>4. target \in Int
        <3>1. target = AddressOfCell(c) + based[c].offset
            BY <1>6 DEF BasedGet, NULL_GUID, UNINITIALIZED_GUID
        <3>2. QED
            BY <1>2, <1>3, <3>1, AddressesAreNumbers DEF Pointer
    <2>5. p \in Pointer
        <3>1. AddressOfCell(e) \in Int
            BY <1>2, <1>3, AddressesAreNumbers
        <3> HIDE DEF target
        <3>2. QED
            BY <1>2, <2>2, <2>4, <3>1, EncodingIsTyped DEF Pointer
    <2>6. ASSUME ~ m.stale, ~ m.edge
          PROVE  Encodes(p, x, e)
        <3>1. /\ ~ old.stale /\ ~ old.edge
              /\ ~ TracksGivenUp(f) /\ ~ AtNextBase(tbl, AddressOfTarget(x), AddressOfCell(e))
            BY <2>3, <2>6
        <3>2. target = AddressOfTarget(x)
            BY <1>1, <1>2, <1>4, <2>1, <2>2, <3>1, EncodedResolves
        <3>3. Encodes(GuidOffsetForAddress(tbl, AddressOfTarget(x), AddressOfCell(e)), x, e)
            BY <1>1, <1>2, <1>3, <2>2, <3>1, SettingEncodes
        <3>4. QED
            BY <3>2, <3>3
    <2>7. m \in Meanings /\ m.target = x
        BY <1>3, <2>1, <2>3, Zenon DEF Meanings
    <2> HIDE DEF m, p
    <2>8. QED
        BY <1>2, <2>2, <2>5, <2>6, <2>7, BasedPtrWritten DEF Pointer
<1>7. CASE /\ based[c].guid # UNINITIALIZED_GUID
           /\ based' = [based EXCEPT ![e] = based[c]]
           /\ meant' = [meant EXCEPT ![e] = old]
           /\ asserted' = asserted
    <2>1. Encodes(based[c], x, c) => Encodes(based[c], x, e)
        BY <1>7 DEF Encodes
    <2>2. based[c] \in [guid : Dbs \cup {NULL_GUID, ERROR_GUID, UNINITIALIZED_GUID}, offset : Int]
        BY <1>3 DEF Pointer
    <2>3. old.target # Unset /\ ~ old.stale /\ ~ old.edge => Encodes(based[c], old.target, e)
        BY <1>4, <2>1
    <2> HIDE DEF old, x, tbl
    <2>4. old \in Meanings
        BY <1>3 DEF old
    <2>5. QED
        BY <1>2, <1>7, <2>2, <2>3, <2>4, BasedPtrWritten
<1>8. QED
    BY <1>1, <1>5, <1>6, <1>7

-----------------------------------------------------------------------------
(* The theorems                                                            *)

\* The tasks that set pointers do what the tasks of TaskState do.
LEMMA PointersAreTasks == PtrSpec => Spec
<1>1. PtrInit => Init
    BY DEF PtrInit
<1>2. [PtrNext]_allVars => [Next]_vars
    BY DEF PtrNext, allVars, vars, SetRelPtr, CopyRelPtr, SetBasedPtr, CopyBasedPtr
<1>3. QED
    BY <1>1, <1>2, PTL DEF PtrSpec, Spec

\* Blocks have their addresses, and lie apart.
LEMMA MemoryStaysOK == Spec => []MemoryInv
<1>1. Init => Disjoint(place)
    BY DEF Init, Disjoint
<1>2. Disjoint(place) /\ [Next]_vars => Disjoint(place)'
    BY PlacesStayApart
<1>3. IInv /\ Disjoint(place) => MemoryInv
    BY DEF MemoryInv
<1>4. QED
    BY <1>1, <1>2, <1>3, Invariance, PTL DEF Spec

\* No pointer has been set at the start.
LEMMA PtrInitOK == PtrInit => PtrOK
<1> SUFFICES ASSUME PtrInit PROVE PtrOK
    OBVIOUS
<1>1. PtrTypeOK
    <2>1. /\ BasedUnset \in [guid : Dbs \cup {NULL_GUID, ERROR_GUID, UNINITIALIZED_GUID}, offset : Int]
          /\ RelUnset \in Int
        BY DEF BasedUnset, RelUnset
    <2>2. /\ [target |-> Unset, stale |-> FALSE, edge |-> FALSE] \in Meanings
          /\ [target |-> Unset, clash |-> FALSE] \in RelMeanings
        BY DEF Meanings, RelMeanings
    <2>3. QED
        BY <2>1, <2>2 DEF PtrInit, PtrTypeOK
<1>2. /\ \A c \in BasedCells : meant[c].target = Unset
      /\ \A c \in RelCells : relMeant[c].target = Unset
    BY DEF PtrInit
<1>3. QED
    BY <1>1, <1>2 DEF PtrOK, BasedOK, RelOK

\* Every step keeps what the pointers hold.
LEMMA PtrStepOK == MemoryInv /\ PtrOK /\ [PtrNext]_allVars => PtrOK'
<1> SUFFICES ASSUME MemoryInv, PtrOK, [PtrNext]_allVars PROVE PtrOK'
    OBVIOUS
<1>1. CASE UNCHANGED ptrVars
    BY <1>1 DEF ptrVars, PtrOK, PtrTypeOK, BasedOK, RelOK
<1>2. ASSUME NEW w \in Workers, SetRelPtr(w) PROVE PtrOK'
    BY <1>2, SetRelPtrStep
<1>3. ASSUME NEW w \in Workers, SetBasedPtr(w) PROVE PtrOK'
    BY <1>3, SetBasedPtrStep
<1>4. ASSUME NEW w \in Workers, CopyBasedPtr(w) PROVE PtrOK'
    BY <1>4, CopyBasedPtrStep
<1>5. ASSUME NEW w \in Workers, CopyRelPtr(w) PROVE PtrOK'
    BY <1>5, CopyRelPtrStep
<1>6. QED
    BY <1>1, <1>2, <1>3, <1>4, <1>5 DEF PtrNext, allVars, ptrVars

\* The invariant holds in every state of the program.
THEOREM PtrInvariance == PtrSpec => [](MemoryInv /\ PtrOK)
BY PointersAreTasks, MemoryStaysOK, PtrInitOK, PtrStepOK, PTL DEF PtrSpec

\* Type correctness.
THEOREM PtrTypeCorrect == PtrSpec => []PtrTypeOK
<1>1. PtrOK => PtrTypeOK
    BY DEF PtrOK
<1>2. QED
    BY <1>1, PtrInvariance, PTL

\* The assertions of GuidOffsetForAddress never refuse an address in a block that
\* the task holds, whatever else its table has kept.
THEOREM HeldTargetsNeverRefused == PtrSpec => []HeldTargetsAccepted
<1>1. MemoryInv => HeldTargetsAccepted
    BY ReachIsAccepted DEF MemoryInv, HeldTargetsAccepted
<1>2. QED
    BY <1>1, PtrInvariance, PTL

\* A BasedPtr leads every task that holds its block and the target's to the target,
\* wherever the runtime has moved them since it was set and however often it was
\* copied; unless it was set while the table tracked a block that had been given up,
\* or lies at the base of the block after the target's.
THEOREM BasedPtrsSurviveMoves == PtrSpec => []BasedPtrsResolve
<1>1. MemoryInv /\ PtrOK => BasedPtrsResolve
    <2> SUFFICES ASSUME MemoryInv, PtrOK, NEW f \in Frames, NEW c \in BasedCells,
                        Readable(f, c, meant[c].target), ~ meant[c].stale, ~ meant[c].edge
                 PROVE  BasedPtrResolves(f, c)
        BY DEF BasedPtrsResolve
    <2>1. c[1] \in Usable(f) /\ meant[c].target \in Reach(f)
        BY DEF Readable
    <2>2. meant[c].target # Unset
        BY <2>1, CellsAndTargets DEF Reach
    <2>3. Encodes(based[c], meant[c].target, c)
        BY <2>2 DEF PtrOK, BasedOK
    <2>4. QED
        BY <2>1, <2>3, EncodedResolves DEF MemoryInv, BasedPtrResolves
<1>2. QED
    BY <1>1, PtrInvariance, PTL

\* A RelPtr leads every task that holds its block to its target, wherever the block
\* lies by then and however often the pointer was copied, unless its distance was 0
\* or 1 in a cell on the way.
THEOREM RelPtrsSurviveMoves == PtrSpec => []RelPtrsResolve
<1>1. MemoryInv /\ PtrOK => RelPtrsResolve
    <2> SUFFICES ASSUME MemoryInv, PtrOK, NEW f \in Frames, NEW c \in RelCells,
                        Readable(f, c, relMeant[c].target), ~ relMeant[c].clash
                 PROVE  RelPtrResolves(c)
        BY DEF RelPtrsResolve
    <2>1. c[1] \in Usable(f) /\ relMeant[c].target \in Targets
        BY DEF Readable, Reach
    <2>2. RelEncodes(rel[c], relMeant[c].target, c)
        BY <2>1, CellsAndTargets DEF PtrOK, RelOK
    <2>3. QED
        BY <2>1, <2>2, RelEncodedResolves DEF MemoryInv, RelPtrResolves
<1>2. QED
    BY <1>1, PtrInvariance, PTL

=============================================================================
