---------------------------- MODULE DbTableProofs ----------------------------
(***************************************************************************)
(* Facts about the table of acquired datablocks: what sorting, searching,  *)
(* adding and removing do to a coherent table.                             *)
(***************************************************************************)
EXTENDS DbTable, WellFoundedInduction, SequenceTheorems, TLAPS

\* The fields of an entry.
LEMMA DbPairFields ==
    ASSUME NEW x \in DbPair
    PROVE  /\ x.guid \in Nat /\ x.base \in Nat
           /\ x.guid # NULL_GUID /\ x.base # NullPtr
BY DEF DbPair, Guid, Address

\* Every non-empty set of natural numbers has a least one.
LEMMA LeastNatural ==
    ASSUME NEW T \in SUBSET Nat, T # {}
    PROVE  \E k \in T : \A j \in T : k <= j
<1> DEFINE Less == OpToRel(<, Nat)
<1>1. \A j, k \in Nat : << j, k >> \in Less <=> j < k
    BY DEF OpToRel
<1>2. IsWellFoundedOn(Less, Nat)
    BY NatLessThanWellFounded, Zenon
<1> HIDE DEF Less
<1>3. \E k \in T : \A j \in T : ~ (<< j, k >> \in Less)
    BY <1>2, WFMin, Zenon
<1>4. \E k \in T : \A j \in T : ~ (j < k)
    BY <1>1, <1>3, Zenon
<1>5. QED
    BY <1>4

\* t has the entries of s, each as often as s has it.
SameEntries(s, t) ==
    /\ Len(t) = Len(s)
    /\ Range(t) = Range(s)
    /\ \A i, j \in DOMAIN t :
         i # j => \E k, l \in DOMAIN s : k # l /\ t[i] = s[k] /\ t[j] = s[l]

\* Sorting moves the entries of an array and neither adds nor loses one.
LEMMA Rearranging ==
    ASSUME NEW S, NEW s \in Seq(S), NEW t \in Rearrangements(s)
    PROVE  t \in Seq(S) /\ SameEntries(s, t)
<1>1. PICK p \in Bijection(DOMAIN s, DOMAIN s) : t = [i \in DOMAIN s |-> s[p[i]]]
    BY DEF Rearrangements
<1>2. /\ p \in [DOMAIN s -> DOMAIN s]
      /\ \A a, b \in DOMAIN s : p[a] = p[b] => a = b
      /\ \A b \in DOMAIN s : \E a \in DOMAIN s : p[a] = b
    BY <1>1 DEF Bijection, Injection, Surjection, IsInjective
<1>3. DOMAIN s = 1 .. Len(s) /\ Len(s) \in Nat
    OBVIOUS
<1>4. t \in Seq(S) /\ Len(t) = Len(s) /\ DOMAIN t = DOMAIN s
    <2>1. t \in [1 .. Len(s) -> S]
        BY <1>1, <1>2, <1>3
    <2>2. QED
        BY <2>1, <1>1, <1>3
<1>5. Range(t) = Range(s)
    BY <1>1, <1>2, <1>4 DEF Range
<1>6. \A i, j \in DOMAIN t :
          i # j => \E k, l \in DOMAIN s : k # l /\ t[i] = s[k] /\ t[j] = s[l]
    BY <1>1, <1>2, <1>4
<1>7. QED
    BY <1>4, <1>5, <1>6 DEF SameEntries

\* Every array sorted by guid has the partition point std::lower_bound looks for.
LEMMA LowerBoundGuidPartitions ==
    ASSUME NEW s \in Seq(DbPair), SortedByGuid(s), NEW g \in Nat
    PROVE  /\ LowerBoundGuid(s, g) \in 1 .. Len(s) + 1
           /\ \A i \in DOMAIN s : i < LowerBoundGuid(s, g) <=> s[i].guid < g
<1> DEFINE IsStart(k) == k \in 1 .. Len(s) + 1 /\ (k \in DOMAIN s => ~ (s[k].guid < g))
           Starts == { k \in Nat : IsStart(k) }
<1>1. Len(s) \in Nat /\ DOMAIN s = 1 .. Len(s) /\ \A i \in DOMAIN s : s[i].guid \in Nat
    BY DbPairFields
<1>2. Len(s) + 1 \in Starts
    BY <1>1
<1>3. PICK k \in Starts : \A j \in Starts : k <= j
    <2>1. Starts \in SUBSET Nat /\ Starts # {}
        BY <1>2
    <2> HIDE DEF Starts
    <2>2. QED
        BY <2>1, LeastNatural
<1>4. k \in 1 .. Len(s) + 1 /\ \A i \in DOMAIN s : i < k <=> s[i].guid < g
    <2> SUFFICES ASSUME NEW i \in DOMAIN s
                 PROVE  i < k <=> s[i].guid < g
        BY <1>3
    <2>1. CASE i < k
        BY <2>1, <1>1, <1>3
    <2>2. CASE ~ (i < k)
        <3>1. k \in DOMAIN s /\ s[k].guid >= g
            BY <2>2, <1>1, <1>3
        <3>2. s[k].guid <= s[i].guid
            BY <2>2, <3>1, <1>1 DEF SortedByGuid
        <3>3. QED
            BY <2>2, <3>1, <3>2, <1>1
    <2>3. QED
        BY <2>1, <2>2
<1>5. QED
    BY <1>4 DEF LowerBoundGuid

\* The same for std::lower_bound by base address.
LEMMA LowerBoundBasePartitions ==
    ASSUME NEW s \in Seq(DbPair), SortedByBase(s), NEW b \in Nat
    PROVE  /\ LowerBoundBase(s, b) \in 1 .. Len(s) + 1
           /\ \A i \in DOMAIN s : i < LowerBoundBase(s, b) <=> s[i].base < b
<1> DEFINE IsStart(k) == k \in 1 .. Len(s) + 1 /\ (k \in DOMAIN s => ~ (s[k].base < b))
           Starts == { k \in Nat : IsStart(k) }
<1>1. Len(s) \in Nat /\ DOMAIN s = 1 .. Len(s) /\ \A i \in DOMAIN s : s[i].base \in Nat
    BY DbPairFields
<1>2. Len(s) + 1 \in Starts
    BY <1>1
<1>3. PICK k \in Starts : \A j \in Starts : k <= j
    <2>1. Starts \in SUBSET Nat /\ Starts # {}
        BY <1>2
    <2> HIDE DEF Starts
    <2>2. QED
        BY <2>1, LeastNatural
<1>4. k \in 1 .. Len(s) + 1 /\ \A i \in DOMAIN s : i < k <=> s[i].base < b
    <2> SUFFICES ASSUME NEW i \in DOMAIN s
                 PROVE  i < k <=> s[i].base < b
        BY <1>3
    <2>1. CASE i < k
        BY <2>1, <1>1, <1>3
    <2>2. CASE ~ (i < k)
        <3>1. k \in DOMAIN s /\ s[k].base >= b
            BY <2>2, <1>1, <1>3
        <3>2. s[k].base <= s[i].base
            BY <2>2, <3>1, <1>1 DEF SortedByBase
        <3>3. QED
            BY <2>2, <3>1, <3>2, <1>1
    <2>3. QED
        BY <2>1, <2>2
<1>5. QED
    BY <1>4 DEF LowerBoundBase

-----------------------------------------------------------------------------

\* What the searches find in a coherent table.
LEMMA TracksMeans ==
    ASSUME NEW tbl \in Table, Coherent(tbl), NEW g \in Nat
    PROVE  /\ Tracks(tbl, g) <=> \E e \in Range(tbl.byGuid) : e.guid = g
           /\ \A e \in Range(tbl.byGuid) : e.guid = g => AddressForGuid(tbl, g) = e.base
<1> DEFINE s == tbl.byGuid
           k == LowerBoundGuid(s, g)
<1>1. s \in Seq(DbPair) /\ SortedByGuid(s) /\ Len(s) \in Nat /\ DOMAIN s = 1 .. Len(s)
    BY DEF Table, Coherent
<1>2. k \in 1 .. Len(s) + 1 /\ \A i \in DOMAIN s : i < k <=> s[i].guid < g
    BY <1>1, LowerBoundGuidPartitions
<1>3. ASSUME NEW i \in DOMAIN s, s[i].guid = g
      PROVE  i = k
    <2>1. k <= i /\ k \in DOMAIN s
        BY <1>1, <1>2, <1>3, DbPairFields
    <2>2. s[k].guid >= g /\ s[k].guid <= s[i].guid
        BY <2>1, <1>1, <1>2, DbPairFields DEF SortedByGuid
    <2>3. s[k].guid = s[i].guid
        BY <2>1, <2>2, <1>1, <1>3, DbPairFields
    <2>4. QED
        BY <2>1, <2>3 DEF Coherent
<1>4. Tracks(tbl, g) <=> \E i \in DOMAIN s : s[i].guid = g
    BY <1>3 DEF Tracks
<1>5. \A i \in DOMAIN s : s[i].guid = g => AddressForGuid(tbl, g) = s[i].base
    BY <1>3 DEF AddressForGuid
<1>6. QED
    BY <1>4, <1>5 DEF Range

\* Keys that differ in s differ in every array with the same entries.
LEMMA SameEntriesKeepsDistinct ==
    ASSUME NEW s, NEW t, SameEntries(s, t)
    PROVE  /\ (\A i, j \in DOMAIN s : s[i].guid = s[j].guid => i = j)
              => (\A i, j \in DOMAIN t : t[i].guid = t[j].guid => i = j)
           /\ IsInjective(s) => IsInjective(t)
<1>1. ASSUME \A i, j \in DOMAIN s : s[i].guid = s[j].guid => i = j,
             NEW i \in DOMAIN t, NEW j \in DOMAIN t, t[i].guid = t[j].guid, i # j
      PROVE  FALSE
    BY <1>1 DEF SameEntries
<1>2. ASSUME IsInjective(s), NEW i \in DOMAIN t, NEW j \in DOMAIN t, t[i] = t[j], i # j
      PROVE  FALSE
    BY <1>2 DEF SameEntries, IsInjective
<1>3. QED
    BY <1>1, <1>2 DEF IsInjective

-----------------------------------------------------------------------------

\* An entry at the end of an array, then std::sort: the entries are the old ones
\* and the new one.
LEMMA AppendedEntries ==
    ASSUME NEW s \in Seq(DbPair), NEW x \in DbPair, NEW t, SameEntries(Append(s, x), t)
    PROVE  /\ Len(t) = Len(s) + 1
           /\ Range(t) = Range(s) \cup {x}
<1>1. /\ Append(s, x) \in Seq(DbPair)
      /\ Len(Append(s, x)) = Len(s) + 1
      /\ DOMAIN Append(s, x) = 1 .. Len(s) + 1
      /\ \A i \in 1 .. Len(s) : Append(s, x)[i] = s[i]
      /\ Append(s, x)[Len(s) + 1] = x
      /\ Len(s) \in Nat /\ DOMAIN s = 1 .. Len(s)
    OBVIOUS
<1>2. Range(Append(s, x)) = Range(s) \cup {x}
    BY <1>1 DEF Range
<1>3. QED
    BY <1>1, <1>2 DEF SameEntries

\* AddDatablock leaves a coherent table, whose entries are the old ones and, when
\* the block has an address and was not tracked, the new one.
LEMMA AddKeepsCoherent ==
    ASSUME NEW tbl \in Table, Coherent(tbl), Len(tbl.byGuid) <= MaxDbs,
           NEW g \in Nat, NEW base \in Nat, base # NullPtr => g \in Guid,
           ~ AddFails(tbl, g, base),
           NEW new \in AddDatablock(tbl, g, base)
    PROVE  /\ new \in Table
           /\ Coherent(new)
           /\ Len(new.byGuid) <= MaxDbs
           /\ Range(new.byGuid) =
                Range(tbl.byGuid) \cup
                  (IF base = NullPtr \/ Tracks(tbl, g)
                   THEN {} ELSE {[guid |-> g, base |-> base]})
<1>1. CASE base = NullPtr \/ Tracks(tbl, g)
    BY <1>1 DEF AddDatablock
<1>2. CASE ~ (base = NullPtr \/ Tracks(tbl, g))
    <2> DEFINE x == [guid |-> g, base |-> base]
               sg == Append(tbl.byGuid, x)
               sa == Append(tbl.byAddr, x)
    <2>1. /\ x \in DbPair /\ x.guid = g
          /\ tbl.byGuid \in Seq(DbPair) /\ tbl.byAddr \in Seq(DbPair)
          /\ sg \in Seq(DbPair) /\ sa \in Seq(DbPair)
        BY <1>2 DEF DbPair, Guid, Address, Table
    <2>2. /\ new = [byGuid |-> new.byGuid, byAddr |-> new.byAddr]
          /\ new.byGuid \in GuidSorts(sg) /\ new.byAddr \in BaseSorts(sa)
        BY <1>2 DEF AddDatablock
    <2>3. /\ new.byGuid \in Seq(DbPair) /\ SameEntries(sg, new.byGuid)
          /\ SortedByGuid(new.byGuid)
        BY <2>1, <2>2, Rearranging DEF GuidSorts
    <2>4. /\ new.byAddr \in Seq(DbPair) /\ SameEntries(sa, new.byAddr)
          /\ SortedByBase(new.byAddr)
        BY <2>1, <2>2, Rearranging DEF BaseSorts
    <2>5. new \in Table
        BY <2>2, <2>3, <2>4 DEF Table
    <2>6. /\ Len(new.byGuid) = Len(tbl.byGuid) + 1
          /\ Range(new.byGuid) = Range(tbl.byGuid) \cup {x}
          /\ Range(new.byAddr) = Range(tbl.byAddr) \cup {x}
        <3> HIDE DEF x
        <3>1. \A s \in Seq(DbPair) : \A t :
                  SameEntries(Append(s, x), t) =>
                      Len(t) = Len(s) + 1 /\ Range(t) = Range(s) \cup {x}
            BY <2>1, AppendedEntries
        <3>2. QED
            BY <2>1, <2>3, <2>4, <3>1
    <2>7. Len(new.byGuid) <= MaxDbs
        <3>1. Len(tbl.byGuid) < MaxDbs
            BY <1>2, <2>1, MaxDbsAssumption DEF AddFails
        <3>2. QED
            BY <3>1, <2>1, <2>6, MaxDbsAssumption
    <2>8. \A e \in Range(tbl.byGuid) : e.guid # g
        BY <1>2, TracksMeans
    <2>9. \A i, j \in DOMAIN sg : sg[i].guid = sg[j].guid => i = j
        <3>1. /\ DOMAIN sg = 1 .. Len(tbl.byGuid) + 1
              /\ \A i \in 1 .. Len(tbl.byGuid) : sg[i] = tbl.byGuid[i]
              /\ sg[Len(tbl.byGuid) + 1] = x
              /\ Len(tbl.byGuid) \in Nat /\ DOMAIN tbl.byGuid = 1 .. Len(tbl.byGuid)
            BY <2>1
        <3>2. \A i \in DOMAIN tbl.byGuid : tbl.byGuid[i].guid # g
            BY <2>8 DEF Range
        <3>3. \A i, j \in DOMAIN tbl.byGuid :
                  tbl.byGuid[i].guid = tbl.byGuid[j].guid => i = j
            BY DEF Coherent
        <3>4. x.guid = g
            OBVIOUS
        <3> HIDE DEF sg, x
        <3> SUFFICES ASSUME NEW i \in DOMAIN sg, NEW j \in DOMAIN sg, sg[i].guid = sg[j].guid
                     PROVE  i = j
            OBVIOUS
        <3>5. CASE i \in DOMAIN tbl.byGuid /\ j \in DOMAIN tbl.byGuid
            BY <3>1, <3>3, <3>5
        <3>6. \A k \in DOMAIN sg :
                  IF k \in DOMAIN tbl.byGuid
                  THEN sg[k].guid # g
                  ELSE k = Len(tbl.byGuid) + 1 /\ sg[k].guid = g
            BY SMTT(30), <3>1, <3>2, <3>4
        <3>7. CASE i \notin DOMAIN tbl.byGuid \/ j \notin DOMAIN tbl.byGuid
            BY <3>6, <3>7
        <3>8. QED
            BY <3>5, <3>7
    <2>10. IsInjective(sa)
        <3>1. /\ DOMAIN sa = 1 .. Len(tbl.byAddr) + 1
              /\ \A i \in 1 .. Len(tbl.byAddr) : sa[i] = tbl.byAddr[i]
              /\ sa[Len(tbl.byAddr) + 1] = x
              /\ Len(tbl.byAddr) \in Nat /\ DOMAIN tbl.byAddr = 1 .. Len(tbl.byAddr)
            BY <2>1
        <3>2. \A i \in DOMAIN tbl.byAddr : tbl.byAddr[i] # x
            BY <2>1, <2>8 DEF Range, Coherent
        <3>3. \A i, j \in DOMAIN tbl.byAddr : tbl.byAddr[i] = tbl.byAddr[j] => i = j
            BY DEF Coherent, IsInjective
        <3> HIDE DEF sa, x
        <3>4. QED
            BY SMTT(30), <3>1, <3>2, <3>3 DEF IsInjective
    <2>11. Coherent(new)
        <3>1. \A i, j \in DOMAIN new.byGuid : new.byGuid[i].guid = new.byGuid[j].guid => i = j
            BY <2>3, <2>9, SameEntriesKeepsDistinct
        <3>2. IsInjective(new.byAddr)
            BY <2>4, <2>10, SameEntriesKeepsDistinct
        <3>3. Range(tbl.byGuid) = Range(tbl.byAddr)
            BY DEF Coherent
        <3>4. QED
            BY <2>3, <2>4, <2>6, <3>1, <3>2, <3>3 DEF Coherent
    <2>12. QED
        BY <1>2, <2>5, <2>6, <2>7, <2>11
<1>3. QED
    BY <1>1, <1>2

-----------------------------------------------------------------------------

\* Sorting the part of an array before index k keeps its entries, keeps the rest
\* where it is, and leaves before k what was before k.
LEMMA PrefixRearranged ==
    ASSUME NEW s \in Seq(DbPair), NEW k \in 1 .. Len(s) + 1,
           NEW t \in Rearrangements(SubSeq(s, 1, k - 1))
    PROVE  LET u == t \o SubSeq(s, k, Len(s))
           IN  /\ u \in Seq(DbPair)
               /\ SameEntries(s, u)
               /\ \A i \in DOMAIN s : i >= k => u[i] = s[i]
               /\ \A i \in DOMAIN s : i < k =>
                    i \in DOMAIN t /\ u[i] = t[i] /\ \E a \in DOMAIN s : a < k /\ u[i] = s[a]
<1> DEFINE front == SubSeq(s, 1, k - 1)
           rest == SubSeq(s, k, Len(s))
           u == t \o rest
           n == Len(s)
<1>1. n \in Nat /\ DOMAIN s = 1 .. n /\ k \in 1 .. n + 1 /\ s \in [1 .. n -> DbPair]
    OBVIOUS
<1>2. /\ front \in Seq(DbPair) /\ Len(front) = k - 1 /\ DOMAIN front = 1 .. k - 1
      /\ \A i \in 1 .. k - 1 : front[i] = s[i]
    BY <1>1
<1>3. /\ rest \in Seq(DbPair) /\ Len(rest) = n - k + 1
      /\ \A i \in 1 .. n - k + 1 : rest[i] = s[k + i - 1]
    BY <1>1
<1>4. t \in Seq(DbPair) /\ SameEntries(front, t)
    <2> HIDE DEF front
    <2>1. \A r \in Rearrangements(front) : r \in Seq(DbPair) /\ SameEntries(front, r)
        BY <1>2, Rearranging
    <2>2. QED
        BY <2>1 DEF front
<1>5. Len(t) = k - 1 /\ DOMAIN t = 1 .. k - 1
    BY <1>2, <1>4 DEF SameEntries
<1>6. /\ u \in Seq(DbPair) /\ Len(u) = n /\ DOMAIN u = 1 .. n
      /\ \A i \in 1 .. n : u[i] = IF i < k THEN t[i] ELSE rest[i - k + 1]
    <2> HIDE DEF rest
    <2>1. /\ u \in Seq(DbPair) /\ Len(u) = Len(t) + Len(rest)
          /\ \A i \in 1 .. Len(t) + Len(rest) :
                u[i] = IF i <= Len(t) THEN t[i] ELSE rest[i - Len(t)]
        BY <1>3, <1>4, ConcatProperties
    <2>2. Len(t) + Len(rest) = n
        BY <1>1, <1>3, <1>5
    <2>3. u \in Seq(DbPair) /\ Len(u) = n /\ DOMAIN u = 1 .. n
        BY <2>1, <2>2
    <2>4. ASSUME NEW i \in 1 .. n
          PROVE  u[i] = IF i < k THEN t[i] ELSE rest[i - k + 1]
        <3>1. (i <= Len(t) <=> i < k) /\ i - Len(t) = i - k + 1
            BY <1>1, <1>5
        <3>2. u[i] = IF i <= Len(t) THEN t[i] ELSE rest[i - Len(t)]
            BY <2>1, <2>2
        <3> HIDE DEF u
        <3>3. QED
            BY <3>1, <3>2
    <2>5. QED
        BY <2>3, <2>4
<1>7. \A i \in 1 .. n : i >= k => u[i] = s[i]
    <2> SUFFICES ASSUME NEW i \in 1 .. n, i >= k
                 PROVE  u[i] = s[i]
        OBVIOUS
    <2>1. i - k + 1 \in 1 .. n - k + 1 /\ k + (i - k + 1) - 1 = i
        BY <1>1
    <2>2. rest[i - k + 1] = s[i]
        BY <2>1, <1>3
    <2> HIDE DEF u, rest
    <2>3. QED
        BY <2>2, <1>6, <1>1
<1>8. \A i \in 1 .. n : i < k =>
          i \in DOMAIN t /\ u[i] = t[i] /\ \E a \in 1 .. n : a < k /\ u[i] = s[a]
    <2> SUFFICES ASSUME NEW i \in 1 .. n, i < k
                 PROVE  i \in DOMAIN t /\ u[i] = t[i] /\ \E a \in 1 .. n : a < k /\ u[i] = s[a]
        OBVIOUS
    <2>1. i \in DOMAIN t /\ u[i] = t[i]
        BY <1>1, <1>5, <1>6
    <2>2. t[i] \in Range(front)
        BY <2>1, <1>4 DEF Range, SameEntries
    <2>3. \E a \in DOMAIN front : front[a] = t[i]
        BY <2>2 DEF Range
    <2>4. QED
        BY <2>1, <2>3, <1>1, <1>2
<1> HIDE DEF u, rest, front
<1>9. Range(u) = Range(s)
    <2>1. ASSUME NEW i \in 1 .. n
          PROVE  \E a \in 1 .. n : u[i] = s[a]
        BY <1>1, <1>7, <1>8
    <2>2. ASSUME NEW a \in 1 .. n
          PROVE  \E i \in 1 .. n : u[i] = s[a]
        <3>1. CASE a >= k
            BY <3>1, <1>7
        <3>2. CASE a < k
            <4>1. a \in DOMAIN front /\ front[a] = s[a]
                BY <3>2, <1>1, <1>2
            <4>2. \E i \in DOMAIN t : t[i] = s[a]
                BY ZenonT(30), <4>1, <1>4 DEF SameEntries, Range
            <4>3. PICK i \in 1 .. k - 1 : t[i] = s[a]
                BY <4>2, <1>5
            <4>4. i \in 1 .. n /\ i < k
                BY <1>1
            <4>5. QED
                BY <4>3, <4>4, <1>8
        <3>3. QED
            BY <3>1, <3>2, <1>1
    <2>3. /\ \A i \in DOMAIN u : \E a \in DOMAIN s : u[i] = s[a]
          /\ \A a \in DOMAIN s : \E i \in DOMAIN u : u[i] = s[a]
        BY <2>1, <2>2, <1>1, <1>6
    <2>4. QED
        BY <2>3 DEF Range
<1>10. \A i, j \in 1 .. n : i # j =>
           \E a, b \in 1 .. n : a # b /\ u[i] = s[a] /\ u[j] = s[b]
    <2> SUFFICES ASSUME NEW i \in 1 .. n, NEW j \in 1 .. n, i # j
                 PROVE  \E a, b \in 1 .. n : a # b /\ u[i] = s[a] /\ u[j] = s[b]
        OBVIOUS
    <2>1. CASE i < k /\ j < k
        <3>1. i \in DOMAIN t /\ j \in DOMAIN t /\ u[i] = t[i] /\ u[j] = t[j]
            BY <2>1, <1>8
        <3>2. PICK a \in DOMAIN front, b \in DOMAIN front :
                  a # b /\ t[i] = front[a] /\ t[j] = front[b]
            BY <3>1, <1>4 DEF SameEntries
        <3>3. a \in 1 .. n /\ b \in 1 .. n /\ front[a] = s[a] /\ front[b] = s[b]
            BY <1>1, <1>2
        <3>4. QED
            BY <3>1, <3>2, <3>3
    <2>2. CASE i >= k /\ j >= k
        BY <2>2, <1>7
    <2>3. CASE i < k /\ j >= k
        <3>1. PICK a \in 1 .. n : a < k /\ u[i] = s[a]
            BY <2>3, <1>8
        <3>2. a # j /\ u[j] = s[j]
            BY <2>3, <3>1, <1>1, <1>7
        <3>3. QED
            BY <3>1, <3>2
    <2>4. CASE i >= k /\ j < k
        <3>1. PICK b \in 1 .. n : b < k /\ u[j] = s[b]
            BY <2>4, <1>8
        <3>2. b # i /\ u[i] = s[i]
            BY <2>4, <3>1, <1>1, <1>7
        <3>3. QED
            BY <3>1, <3>2
    <2>5. QED
        BY <2>1, <2>2, <2>3, <2>4, <1>1
<1>11. SameEntries(s, u)
    <2>1. ASSUME NEW i \in DOMAIN u, NEW j \in DOMAIN u, i # j
          PROVE  \E a, b \in DOMAIN s : a # b /\ u[i] = s[a] /\ u[j] = s[b]
        <3>1. i \in 1 .. n /\ j \in 1 .. n
            BY <1>6
        <3>2. PICK a \in 1 .. n, b \in 1 .. n : a # b /\ u[i] = s[a] /\ u[j] = s[b]
            BY <3>1, <2>1, <1>10
        <3>3. a \in DOMAIN s /\ b \in DOMAIN s
            BY <1>1
        <3>4. QED
            BY <3>2, <3>3
    <2>2. Len(u) = Len(s)
        BY <1>6
    <2> HIDE DEF n
    <2>3. QED
        BY <1>9, <2>1, <2>2 DEF SameEntries
<1>12. QED
    BY <1>1, <1>6, <1>7, <1>8, <1>11 DEF u, rest

\* Sorting a part of an array that is sorted by guid leaves it sorted.
LEMMA PrefixSortedByGuid ==
    ASSUME NEW s \in Seq(DbPair), SortedByGuid(s), NEW k \in 1 .. Len(s) + 1,
           NEW t \in GuidSorts(SubSeq(s, 1, k - 1))
    PROVE  LET u == t \o SubSeq(s, k, Len(s))
           IN  u \in Seq(DbPair) /\ SameEntries(s, u) /\ SortedByGuid(u)
<1> DEFINE u == t \o SubSeq(s, k, Len(s))
<1>1. t \in Rearrangements(SubSeq(s, 1, k - 1)) /\ SortedByGuid(t)
    BY DEF GuidSorts
<1>2. /\ u \in Seq(DbPair)
      /\ SameEntries(s, u)
      /\ \A i \in DOMAIN s : i >= k => u[i] = s[i]
      /\ \A i \in DOMAIN s : i < k =>
           i \in DOMAIN t /\ u[i] = t[i] /\ \E a \in DOMAIN s : a < k /\ u[i] = s[a]
    BY <1>1, PrefixRearranged
<1> HIDE DEF u
<1>3. /\ Len(u) = Len(s) /\ Len(s) \in Nat
      /\ DOMAIN u = 1 .. Len(s) /\ DOMAIN s = 1 .. Len(s)
    BY <1>2 DEF SameEntries
<1>4. ASSUME NEW i \in 1 .. Len(s), NEW j \in 1 .. Len(s), i < j
      PROVE  u[i].guid <= u[j].guid
    <2>1. CASE j < k
        <3>1. i < k
            BY <1>4, <2>1, <1>3
        <3>2. i \in DOMAIN t /\ u[i] = t[i] /\ j \in DOMAIN t /\ u[j] = t[j]
            BY <2>1, <3>1, <1>2, <1>3
        <3>3. QED
            BY <1>1, <1>4, <3>2 DEF SortedByGuid
    <2>2. CASE i < k /\ j >= k
        <3>1. PICK a \in DOMAIN s : a < k /\ u[i] = s[a]
            BY <2>2, <1>2, <1>3
        <3>2. u[j] = s[j]
            BY <2>2, <1>2, <1>3
        <3>3. k \in Nat /\ a \in 1 .. Len(s)
            BY <1>3
        <3>4. a < j
            BY <2>2, <3>1, <3>3, <1>3
        <3>5. QED
            BY <3>1, <3>2, <3>4, <1>3 DEF SortedByGuid
    <2>3. CASE i >= k
        <3>1. u[i] = s[i] /\ u[j] = s[j]
            BY <2>3, <1>4, <1>2, <1>3
        <3>2. QED
            BY <3>1, <1>3, <1>4 DEF SortedByGuid
    <2>4. QED
        BY <2>1, <2>2, <2>3, <1>3
<1>5. SortedByGuid(u)
    BY <1>3, <1>4 DEF SortedByGuid
<1>6. QED
    BY <1>2, <1>5 DEF u

\* The same by base address.
LEMMA PrefixSortedByBase ==
    ASSUME NEW s \in Seq(DbPair), SortedByBase(s), NEW k \in 1 .. Len(s) + 1,
           NEW t \in BaseSorts(SubSeq(s, 1, k - 1))
    PROVE  LET u == t \o SubSeq(s, k, Len(s))
           IN  u \in Seq(DbPair) /\ SameEntries(s, u) /\ SortedByBase(u)
<1> DEFINE u == t \o SubSeq(s, k, Len(s))
<1>1. t \in Rearrangements(SubSeq(s, 1, k - 1)) /\ SortedByBase(t)
    BY DEF BaseSorts
<1>2. /\ u \in Seq(DbPair)
      /\ SameEntries(s, u)
      /\ \A i \in DOMAIN s : i >= k => u[i] = s[i]
      /\ \A i \in DOMAIN s : i < k =>
           i \in DOMAIN t /\ u[i] = t[i] /\ \E a \in DOMAIN s : a < k /\ u[i] = s[a]
    BY <1>1, PrefixRearranged
<1> HIDE DEF u
<1>3. /\ Len(u) = Len(s) /\ Len(s) \in Nat
      /\ DOMAIN u = 1 .. Len(s) /\ DOMAIN s = 1 .. Len(s)
    BY <1>2 DEF SameEntries
<1>4. ASSUME NEW i \in 1 .. Len(s), NEW j \in 1 .. Len(s), i < j
      PROVE  u[i].base <= u[j].base
    <2>1. CASE j < k
        <3>1. i < k
            BY <1>4, <2>1, <1>3
        <3>2. i \in DOMAIN t /\ u[i] = t[i] /\ j \in DOMAIN t /\ u[j] = t[j]
            BY <2>1, <3>1, <1>2, <1>3
        <3>3. QED
            BY <1>1, <1>4, <3>2 DEF SortedByBase
    <2>2. CASE i < k /\ j >= k
        <3>1. PICK a \in DOMAIN s : a < k /\ u[i] = s[a]
            BY <2>2, <1>2, <1>3
        <3>2. u[j] = s[j]
            BY <2>2, <1>2, <1>3
        <3>3. k \in Nat /\ a \in 1 .. Len(s)
            BY <1>3
        <3>4. a < j
            BY <2>2, <3>1, <3>3, <1>3
        <3>5. QED
            BY <3>1, <3>2, <3>4, <1>3 DEF SortedByBase
    <2>3. CASE i >= k
        <3>1. u[i] = s[i] /\ u[j] = s[j]
            BY <2>3, <1>4, <1>2, <1>3
        <3>2. QED
            BY <3>1, <1>3, <1>4 DEF SortedByBase
    <2>4. QED
        BY <2>1, <2>2, <2>3, <1>3
<1>5. SortedByBase(u)
    BY <1>3, <1>4 DEF SortedByBase
<1>6. QED
    BY <1>2, <1>5 DEF u

\* In a coherent table, RemoveDatablock finds the entry it removes in the second
\* array when it has found it in the first one.
LEMMA RemoveFindsBase ==
    ASSUME NEW tbl \in Table, Coherent(tbl), NEW g \in Nat, Tracks(tbl, g)
    PROVE  ~ RemoveFailsOnBase(tbl, g)
<1> DEFINE s == tbl.byAddr
           b == AddressForGuid(tbl, g)
           k == LowerBoundBase(s, b)
<1>1. PICK e \in Range(tbl.byGuid) : e.guid = g
    BY TracksMeans
<1>2. e.base = b
    BY <1>1, TracksMeans
<1>3. s \in Seq(DbPair) /\ SortedByBase(s) /\ Len(s) \in Nat /\ DOMAIN s = 1 .. Len(s)
    BY DEF Table, Coherent
<1>4. PICK i \in DOMAIN s : s[i] = e
    BY <1>1 DEF Coherent, Range
<1>5. s[i].base = b /\ b \in Nat
    BY <1>2, <1>3, <1>4, DbPairFields
<1>6. k \in 1 .. Len(s) + 1 /\ \A j \in DOMAIN s : j < k <=> s[j].base < b
    BY <1>3, <1>5, LowerBoundBasePartitions
<1>7. k <= i /\ k \in DOMAIN s
    BY <1>3, <1>4, <1>5, <1>6
<1>8. s[k].base >= b /\ s[k].base <= s[i].base
    BY SMTT(30), <1>3, <1>4, <1>5, <1>6, <1>7, DbPairFields DEF SortedByBase
<1>9. s[k].base = b
    BY <1>3, <1>5, <1>7, <1>8, DbPairFields
<1>10. QED
    BY <1>7, <1>9 DEF RemoveFailsOnBase

\* RemoveDatablock leaves a coherent table with the entries it had: the entry it
\* was called for included.
LEMMA RemoveKeepsCoherent ==
    ASSUME NEW tbl \in Table, Coherent(tbl), NEW g \in Guid, Tracks(tbl, g),
           NEW new \in RemoveDatablock(tbl, g)
    PROVE  /\ new \in Table
           /\ Coherent(new)
           /\ Len(new.byGuid) = Len(tbl.byGuid)
           /\ Range(new.byGuid) = Range(tbl.byGuid)
<1> DEFINE s == tbl.byGuid
           a == tbl.byAddr
           i == LowerBoundGuid(s, g)
           j == LowerBoundBase(a, s[i].base)
<1>1. /\ s \in Seq(DbPair) /\ a \in Seq(DbPair)
      /\ SortedByGuid(s) /\ SortedByBase(a)
      /\ g \in Nat /\ g # NULL_GUID
    BY DEF Table, Coherent, Guid
<1>2. i \in 1 .. Len(s) + 1 /\ i \in DOMAIN s
    BY <1>1, LowerBoundGuidPartitions DEF Tracks
<1>3. s[i].base \in Nat
    BY <1>1, <1>2, DbPairFields
<1>4. j \in 1 .. Len(a) + 1
    BY <1>1, <1>3, LowerBoundBasePartitions
<1>5. /\ new = [byGuid |-> new.byGuid, byAddr |-> new.byAddr]
      /\ \E t \in GuidSorts(SubSeq(s, 1, i - 1)) :
            new.byGuid = t \o SubSeq(s, i, Len(s))
      /\ \E t \in BaseSorts(SubSeq(a, 1, j - 1)) :
            new.byAddr = t \o SubSeq(a, j, Len(a))
    BY <1>1 DEF RemoveDatablock
<1> HIDE DEF i, j
<1>6. /\ new.byGuid \in Seq(DbPair) /\ SameEntries(s, new.byGuid)
      /\ SortedByGuid(new.byGuid)
    BY <1>1, <1>2, <1>5, PrefixSortedByGuid
<1>7. /\ new.byAddr \in Seq(DbPair) /\ SameEntries(a, new.byAddr)
      /\ SortedByBase(new.byAddr)
    BY <1>1, <1>4, <1>5, PrefixSortedByBase
<1>8. new \in Table
    BY <1>5, <1>6, <1>7 DEF Table
<1>9. /\ \A m, n \in DOMAIN new.byGuid : new.byGuid[m].guid = new.byGuid[n].guid => m = n
      /\ IsInjective(new.byAddr)
    BY <1>6, <1>7, SameEntriesKeepsDistinct DEF Coherent
<1>10. Range(new.byGuid) = Range(s) /\ Range(new.byAddr) = Range(s) /\ Len(new.byGuid) = Len(s)
    BY <1>6, <1>7 DEF SameEntries, Coherent
<1>11. Coherent(new)
    BY <1>6, <1>7, <1>9, <1>10 DEF Coherent
<1>12. QED
    BY <1>8, <1>10, <1>11

-----------------------------------------------------------------------------
(* Encoding an address                                                     *)

\* Every array sorted by base has the partition point std::upper_bound looks for.
LEMMA UpperBoundBasePartitions ==
    ASSUME NEW s \in Seq(DbPair), SortedByBase(s), NEW b \in Int
    PROVE  /\ UpperBoundBase(s, b) \in 1 .. Len(s) + 1
           /\ \A i \in DOMAIN s : i < UpperBoundBase(s, b) <=> s[i].base <= b
<1> DEFINE IsStart(k) == k \in 1 .. Len(s) + 1 /\ (k \in DOMAIN s => ~ (s[k].base <= b))
           Starts == { k \in Nat : IsStart(k) }
<1>1. Len(s) \in Nat /\ DOMAIN s = 1 .. Len(s) /\ \A i \in DOMAIN s : s[i].base \in Nat
    BY DbPairFields
<1>2. Len(s) + 1 \in Starts
    BY <1>1
<1>3. PICK k \in Starts : \A j \in Starts : k <= j
    <2>1. Starts \in SUBSET Nat /\ Starts # {}
        BY <1>2
    <2> HIDE DEF Starts
    <2>2. QED
        BY <2>1, LeastNatural
<1>4. k \in 1 .. Len(s) + 1 /\ \A i \in DOMAIN s : i < k <=> s[i].base <= b
    <2> SUFFICES ASSUME NEW i \in DOMAIN s
                 PROVE  i < k <=> s[i].base <= b
        BY <1>3
    <2>1. CASE i < k
        BY <2>1, <1>1, <1>3
    <2>2. CASE ~ (i < k)
        <3>1. k \in DOMAIN s /\ s[k].base > b
            BY <2>2, <1>1, <1>3
        <3>2. s[k].base <= s[i].base
            BY <2>2, <3>1, <1>1 DEF SortedByBase
        <3>3. QED
            BY <2>2, <3>1, <3>2, <1>1
    <2>3. QED
        BY <2>1, <2>2
<1>5. QED
    BY <1>4 DEF UpperBoundBase

\* The entry by which GuidOffsetForAddress encodes an address.
EncodingEntry(tbl, target) == tbl.byAddr[UpperBoundBase(tbl.byAddr, target) - 1]

\* It is in the table, at or below the address; every other entry lies no higher or
\* above the address.
LEMMA EncodingEntryIsLast ==
    ASSUME NEW tbl \in Table, Coherent(tbl), NEW target \in Int, target # NullPtr,
           ~ EncodeFails(tbl, target)
    PROVE  /\ EncodingEntry(tbl, target) \in Range(tbl.byGuid)
           /\ EncodingEntry(tbl, target).base <= target
           /\ \A e \in Range(tbl.byGuid) :
                e.base <= target => e.base <= EncodingEntry(tbl, target).base
<1> DEFINE s == tbl.byAddr
           j == UpperBoundBase(s, target)
<1>1. /\ s \in Seq(DbPair) /\ SortedByBase(s) /\ Len(s) \in Nat /\ DOMAIN s = 1 .. Len(s)
      /\ Range(s) = Range(tbl.byGuid)
    BY DEF Table, Coherent
<1>2. j \in 1 .. Len(s) + 1 /\ \A i \in DOMAIN s : i < j <=> s[i].base <= target
    BY <1>1, UpperBoundBasePartitions
<1>3. j # 1
    BY DEF EncodeFails
<1>4. j - 1 \in DOMAIN s /\ s[j - 1] \in Range(s)
    BY <1>1, <1>2, <1>3 DEF Range
<1>5. ASSUME NEW i \in DOMAIN s, s[i].base <= target
      PROVE  s[i].base <= s[j - 1].base
    <2>1. i < j
        BY <1>2, <1>5
    <2>2. i <= j - 1
        BY <1>1, <1>2, <2>1
    <2>3. i = j - 1 \/ i < j - 1
        BY <1>1, <1>2, <2>2
    <2>4. s[i].base \in Nat
        BY <1>1, DbPairFields
    <2>5. QED
        BY <1>1, <1>4, <2>3, <2>4 DEF SortedByBase
<1>6. \A e \in Range(s) : \E i \in DOMAIN s : e = s[i]
    BY DEF Range
<1>7. s[j - 1].base <= target
    BY <1>2, <1>4
<1>8. QED
    BY <1>1, <1>4, <1>5, <1>6, <1>7 DEF EncodingEntry

\* The entry that follows it is the lowest one above the address.
LEMMA NextEntryIsFirst ==
    ASSUME NEW tbl \in Table, Coherent(tbl), NEW target \in Int,
           NEW e \in Range(tbl.byGuid), e.base > target
    PROVE  LET j == UpperBoundBase(tbl.byAddr, target)
           IN  j \in DOMAIN tbl.byAddr /\ tbl.byAddr[j].base <= e.base
<1> DEFINE s == tbl.byAddr
           j == UpperBoundBase(s, target)
<1>1. /\ s \in Seq(DbPair) /\ SortedByBase(s) /\ Len(s) \in Nat /\ DOMAIN s = 1 .. Len(s)
      /\ Range(s) = Range(tbl.byGuid)
    BY DEF Table, Coherent
<1>2. j \in 1 .. Len(s) + 1 /\ \A i \in DOMAIN s : i < j <=> s[i].base <= target
    BY <1>1, UpperBoundBasePartitions
<1>3. PICK i \in DOMAIN s : e = s[i]
    BY <1>1 DEF Range
<1>4. s[i].base \in Nat
    BY <1>1, DbPairFields
<1>5. ~ (i < j)
    BY <1>2, <1>3, <1>4
<1>6. j \in DOMAIN s /\ (j = i \/ j < i)
    BY <1>1, <1>2, <1>5
<1>7. QED
    BY <1>1, <1>3, <1>4, <1>6 DEF SortedByBase

\* An address that has an entry at or below it is accepted.
LEMMA EncodingAccepts ==
    ASSUME NEW tbl \in Table, Coherent(tbl), NEW target \in Int,
           NEW e \in Range(tbl.byGuid), e.base <= target
    PROVE  ~ EncodeFails(tbl, target)
<1> DEFINE s == tbl.byAddr
<1>1. /\ s \in Seq(DbPair) /\ SortedByBase(s) /\ Len(s) \in Nat /\ DOMAIN s = 1 .. Len(s)
      /\ Range(s) = Range(tbl.byGuid)
    BY DEF Table, Coherent
<1>2. PICK i \in DOMAIN s : e = s[i]
    BY <1>1 DEF Range
<1>3. i < UpperBoundBase(s, target)
    BY <1>1, <1>2, UpperBoundBasePartitions
<1>4. QED
    BY <1>1, <1>3 DEF EncodeFails

=============================================================================
