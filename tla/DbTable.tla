------------------------------- MODULE DbTable -------------------------------
(***************************************************************************)
(* The table of acquired datablocks that ocxxr keeps for one running task: *)
(* struct AcquiredDbInfo of ocxxr-task-state.hpp and the functions that    *)
(* read and write it.  The table holds the same DbPairs in two arrays, one *)
(* sorted by guid and one sorted by base address; both are searched with   *)
(* the binary searches of <algorithm>.                                     *)
(*                                                                         *)
(* Both arrays have 256 slots, of which the first acquired_db_count are in *)
(* use; here an array is the sequence of its used slots, and               *)
(* acquired_db_count is the length of that sequence.  Guids and addresses  *)
(* are natural numbers (ocrGuidIsLt and < on ptrdiff_t are total orders),  *)
(* with 0 for NULL_GUID and nullptr.                                       *)
(*                                                                         *)
(* std::sort is not stable, so an operation that sorts is a SET of         *)
(* outcomes: the module leaves open in which order equal keys end up.      *)
(***************************************************************************)
EXTENDS Integers, Sequences, FiniteSets, Functions

CONSTANT MaxDbs     \* OCXXR_MAX_DB_ACQUIRE_COUNT

ASSUME MaxDbsAssumption == MaxDbs \in Nat

NULL_GUID == 0
ERROR_GUID == -1
UNINITIALIZED_GUID == -2
NullPtr == 0

Guid == Nat \ {NULL_GUID}
Address == Nat \ {NullPtr}

DbPair == [guid : Guid, base : Address]

Table == [byGuid : Seq(DbPair), byAddr : Seq(DbPair)]

EmptyTable == [byGuid |-> << >>, byAddr |-> << >>]

-----------------------------------------------------------------------------
(* <algorithm> on DbPair arrays                                            *)

SortedByGuid(s) == \A i, j \in DOMAIN s : i < j => s[i].guid <= s[j].guid

SortedByBase(s) == \A i, j \in DOMAIN s : i < j => s[i].base <= s[j].base

Rearrangements(s) ==
    { [i \in DOMAIN s |-> s[p[i]]] : p \in Bijection(DOMAIN s, DOMAIN s) }

\* std::sort(..., CompareGuids) and std::sort(..., CompareBases).
GuidSorts(s) == { t \in Rearrangements(s) : SortedByGuid(t) }

BaseSorts(s) == { t \in Rearrangements(s) : SortedByBase(t) }

\* std::lower_bound and std::upper_bound: the partition point of the array,
\* Len(s) + 1 standing for the end pointer.
LowerBoundGuid(s, g) ==
    CHOOSE k \in 1 .. Len(s) + 1 :
        \A i \in DOMAIN s : i < k <=> s[i].guid < g

LowerBoundBase(s, b) ==
    CHOOSE k \in 1 .. Len(s) + 1 :
        \A i \in DOMAIN s : i < k <=> s[i].base < b

UpperBoundBase(s, b) ==
    CHOOSE k \in 1 .. Len(s) + 1 :
        \A i \in DOMAIN s : i < k <=> s[i].base <= b

-----------------------------------------------------------------------------
(* Bookkeeping                                                             *)

\* The search both AddressForGuid and RemoveDatablock start with, and the test
\* of std::binary_search in AddDatablock.  A slot past the end is zero, so it
\* never compares equal to a guid.
Tracks(tbl, g) ==
    LET i == LowerBoundGuid(tbl.byGuid, g)
    IN  i \in DOMAIN tbl.byGuid /\ tbl.byGuid[i].guid = g

\* Mutants of AddFails: <= for < in the assertion; the assertion comes before the
\* search for the guid.
AddFailsLate(tbl, g, base) ==
    base # NullPtr /\ ~ Tracks(tbl, g) /\ Len(tbl.byGuid) > MaxDbs

AddFailsOnDuplicate(tbl, g, base) ==
    base # NullPtr /\ Len(tbl.byGuid) >= MaxDbs

\* "Acquired too many datablocks in one task"
AddFails(tbl, g, base) ==
    /\ base # NullPtr
    /\ ~ Tracks(tbl, g)
    /\ Len(tbl.byGuid) >= MaxDbs

\* Mutant of AddDatablock: the array by address is not sorted.
AddWithoutAddrSort(tbl, g, base) ==
    IF base = NullPtr \/ Tracks(tbl, g)
    THEN {tbl}
    ELSE LET new == [guid |-> g, base |-> base]
         IN  [byGuid : GuidSorts(Append(tbl.byGuid, new)),
              byAddr : {Append(tbl.byAddr, new)}]

\* The tables AddDatablock may leave behind when its assertion holds.
AddDatablock(tbl, g, base) ==
    IF base = NullPtr \/ Tracks(tbl, g)
    THEN {tbl}
    ELSE LET new == [guid |-> g, base |-> base]
         IN  [byGuid : GuidSorts(Append(tbl.byGuid, new)),
              byAddr : BaseSorts(Append(tbl.byAddr, new))]

\* "Released untracked non-null datablock"
RemoveFails(tbl, g) == g # NULL_GUID /\ ~ Tracks(tbl, g)

AddressForGuid(tbl, g) == tbl.byGuid[LowerBoundGuid(tbl.byGuid, g)].base

\* "Matching base address for datablock GUID not found"
RemoveFailsOnBase(tbl, g) ==
    LET b == AddressForGuid(tbl, g)
        j == LowerBoundBase(tbl.byAddr, b)
    IN  ~ (j \in DOMAIN tbl.byAddr /\ tbl.byAddr[j].base = b)

\* Mutant of RemoveDatablock: the count goes down without the entry having been
\* exchanged with the last one.
RemoveLast(tbl, g) ==
    LET n == Len(tbl.byGuid) - 1
    IN  {[byGuid |-> SubSeq(tbl.byGuid, 1, n), byAddr |-> SubSeq(tbl.byAddr, 1, n)]}

\* The tables RemoveDatablock may leave behind when its assertions hold.
\* std::swap(i, --g_end) exchanges the two iterators, not the elements they
\* point at: what is sorted afterwards is the part of the array before the
\* entry found, and no entry leaves the array.
RemoveDatablock(tbl, g) ==
    IF g = NULL_GUID
    THEN {tbl}
    ELSE LET i == LowerBoundGuid(tbl.byGuid, g)
             j == LowerBoundBase(tbl.byAddr, tbl.byGuid[i].base)
             Before(s, k) == SubSeq(s, 1, k - 1)
             From(s, k) == SubSeq(s, k, Len(s))
         IN  [byGuid : { t \o From(tbl.byGuid, i) :
                             t \in GuidSorts(Before(tbl.byGuid, i)) },
              byAddr : { t \o From(tbl.byAddr, j) :
                             t \in BaseSorts(Before(tbl.byAddr, j)) }]

-----------------------------------------------------------------------------
(* Queries of the pointer classes                                          *)

\* "Lookup of untracked non-null datablock", "Datablock lookup mismatch"
LookupFails(tbl, g) == ~ Tracks(tbl, g)

\* Mutant of EncodeFails: std::lower_bound for std::upper_bound.
EncodeFailsAtBase(tbl, target) ==
    target # NullPtr /\ LowerBoundBase(tbl.byAddr, target) = 1

\* ASSERT(j != a_start), "Based pointer must point into an acquired datablock"
EncodeFails(tbl, target) ==
    target # NullPtr /\ UpperBoundBase(tbl.byAddr, target) = 1

\* Mutants of GuidOffsetForAddress: the end of the block is not compared with the
\* source; the base is written where the guid belongs.
OffsetWithoutEnd(tbl, target, source) ==
    LET block == tbl.byAddr[UpperBoundBase(tbl.byAddr, target) - 1]
    IN  IF target = NullPtr
        THEN [guid |-> NULL_GUID, offset |-> 0]
        ELSE IF block.base <= source
        THEN [guid |-> UNINITIALIZED_GUID, offset |-> target - source]
        ELSE [guid |-> block.guid, offset |-> target - block.base]

BaseForGuid(tbl, target, source) ==
    LET block == tbl.byAddr[UpperBoundBase(tbl.byAddr, target) - 1]
    IN  IF target = NullPtr
        THEN [guid |-> NULL_GUID, offset |-> 0]
        ELSE [guid |-> block.base, offset |-> target - block.base]

\* What a pointer stored at address source and pointing at address target is
\* encoded as: a null pointer, an offset from the pointer itself, or a guid and
\* an offset from the base of that datablock.
GuidOffsetForAddress(tbl, target, source) ==
    LET j == UpperBoundBase(tbl.byAddr, target)
        block == tbl.byAddr[j - 1]
        SourceUpToEnd == j \in DOMAIN tbl.byAddr => source <= tbl.byAddr[j].base
    IN  IF target = NullPtr
        THEN [guid |-> NULL_GUID, offset |-> 0]
        ELSE IF block.base <= source /\ SourceUpToEnd
        THEN [guid |-> UNINITIALIZED_GUID, offset |-> target - source]
        ELSE [guid |-> block.guid, offset |-> target - block.base]

-----------------------------------------------------------------------------
\* The two arrays hold the same entries, one entry for each guid, and each is in
\* the order its binary searches rely on: the contract between AddDatablock,
\* RemoveDatablock and every lookup.
Coherent(tbl) ==
    /\ SortedByGuid(tbl.byGuid)
    /\ SortedByBase(tbl.byAddr)
    /\ \A i, j \in DOMAIN tbl.byGuid : tbl.byGuid[i].guid = tbl.byGuid[j].guid => i = j
    /\ IsInjective(tbl.byAddr)
    /\ Range(tbl.byGuid) = Range(tbl.byAddr)

=============================================================================
