----------------------------- MODULE Leaf_proofs -----------------------------
(***************************************************************************)
(* Proofs about modules Leaf and LeafScan, for any number of threads, keys *)
(* and slots.                                                              *)
(*                                                                         *)
(* LeafInv is inductive.  Most steps leave the ranks and the entries alone *)
(* (LEMMA QuietStep); four change them: reserving a slot, ranking it,      *)
(* taking it back, and removing an entry.  The loops of LeafScan, in the   *)
(* second half, are about one metadata word at a time; LeafInv says which  *)
(* words there can be.                                                     *)
(***************************************************************************)
EXTENDS LeafScan, Integers, FiniteSetTheorems, SequenceTheorems,
        WellFoundedInduction, TLAPS

Zero == [i \in Slots |-> uninit_rank]

-----------------------------------------------------------------------------
(* Numbers                                                                  *)

\* A set of numbers up to n that is not empty has a largest element.
LEMMA LargestElement ==
  ASSUME NEW n \in Nat, NEW S, S \subseteq 0 .. n, S # {}
  PROVE  \E x \in S : \A y \in S : y <= x
<1> DEFINE T == {n - y : y \in S}
<1>1. T \subseteq Nat /\ T # {}
  <2>1. \A y \in S : y \in 0 .. n
    OBVIOUS
  <2>2. \A y \in S : n - y \in Nat
    BY <2>1
  <2>3. PICK y \in S : TRUE
    OBVIOUS
  <2>4. n - y \in T
    BY <2>3
  <2> QED BY <2>2, <2>4
<1>2. PICK x \in T : \A y \in T : ~ (<<y, x>> \in OpToRel(<, Nat))
  <2> HIDE DEF T
  <2> QED BY <1>1, NatLessThanWellFounded, WFMin
<1>3. \A y \in T : ~ (y < x)
  <2> TAKE y \in T
  <2>1. x \in Nat /\ y \in Nat
    BY <1>1
  <2>2. y < x => <<y, x>> \in OpToRel(<, Nat)
    BY <2>1 DEF OpToRel
  <2> QED BY <1>2, <2>2
<1>4. PICK z \in S : x = n - z
  OBVIOUS
<1>5. \A y \in S : y <= z
  <2> TAKE y \in S
  <2>1. n - y \in T
    OBVIOUS
  <2>2. ~ (n - y < n - z)
    BY <2>1, <1>3, <1>4
  <2> QED BY <2>2
<1> QED BY <1>5

\* MaxMinRank is the highest rank among the smaller keys, or 0.
LEMMA MaxMinRankIsHighest ==
  ASSUME NEW r \in [Slots -> Ranks], NEW k
  PROVE  /\ MaxMinRank(r, k) \in 0 .. num_entries
         /\ MaxMinRank(r, k) = 0
              \/ \E i \in Below(r, k) : r[i] = MaxMinRank(r, k)
         /\ \A i \in Below(r, k) : r[i] <= MaxMinRank(r, k)
<1> DEFINE S == {0} \cup {r[i] : i \in Below(r, k)}
<1>1. num_entries \in Nat
  BY DimensionAssumption
<1>2. S \subseteq 0 .. num_entries /\ S # {}
  BY DimensionAssumption DEF Below, Ranked, Ranks, uninit_rank
<1>3. PICK x \in S : \A y \in S : y <= x
  <2> HIDE DEF S
  <2> QED BY <1>1, <1>2, LargestElement
<1>4. \E n \in 0 .. num_entries :
        /\ n = 0 \/ \E i \in Below(r, k) : r[i] = n
        /\ \A i \in Below(r, k) : r[i] <= n
  BY <1>2, <1>3
<1> QED BY <1>4 DEF MaxMinRank

-----------------------------------------------------------------------------
(* Slots                                                                    *)

\* The slots are finite, and so is every part of them.
LEMMA SlotsFinite ==
  /\ IsFiniteSet(Slots)
  /\ Cardinality(Slots) = num_entries
  /\ \A S \in SUBSET Slots :
       /\ IsFiniteSet(S)
       /\ Cardinality(S) \in Nat
       /\ Cardinality(S) <= num_entries
<1>1. IsFiniteSet(Slots) /\ Cardinality(Slots) = num_entries
  BY FS_Interval, DimensionAssumption DEF Slots
<1>2. ASSUME NEW S \in SUBSET Slots
      PROVE  IsFiniteSet(S) /\ Cardinality(S) \in Nat
             /\ Cardinality(S) <= num_entries
  BY <1>1, FS_Subset, FS_CardinalityType
<1> QED BY <1>1, <1>2

\* A ranked slot is in use.
LEMMA RankedIsUsed ==
  ASSUME TypeOK, PendingOwned
  PROVE  Ranked(rank) \subseteq Used
BY DEF TypeOK, PendingOwned, Ranked, Used, PendingSlots, Pending

\* A rank that is neither of the special ones lies between 1 and num_entries.
LEMMA RankRange ==
  ASSUME NEW r \in [Slots -> Ranks], NEW i \in Ranked(r)
  PROVE  i \in Slots /\ r[i] \in 1 .. num_entries
BY DEF Ranked, Ranks

\* No slot of the metadata of an idle thread is ranked.
LEMMA ZeroRanksNothing == Ranked(Zero) = {} /\ Zero \in [Slots -> Ranks]
BY DEF Ranked, Zero, Ranks

-----------------------------------------------------------------------------
(* Steps that change neither ranks nor entries                              *)

\* What such a step of thread a keeps.
Kept ==
  /\ PendingOwned
  /\ RankedHoldKeys
  /\ RanksInOrder
  /\ RanksBounded
  /\ SnapshotsValid
  /\ RetiredIsEmpty

\* Thread a takes its metadata from the leaf, or drops it, or keeps it; the
\* others do nothing.
Quiet(a) ==
  /\ rank' = rank /\ key_at' = key_at /\ retired' = retired
  /\ \A b \in Threads : b # a => /\ pc'[b] = pc[b] /\ slot'[b] = slot[b]
                                 /\ key'[b] = key[b] /\ seen'[b] = seen[b]
  /\ a \in Pending <=> pc'[a] \in {"post", "rollback"}
  /\ a \in Pending => slot'[a] = slot[a] /\ key'[a] = key[a]
  /\ seen'[a] \in {seen[a], rank, Zero}

\* A quiet step keeps the invariant and the contents.
LEMMA QuietStep ==
  ASSUME LeafInv, NEW a \in Threads, Quiet(a)
  PROVE  Kept' /\ Contents' = Contents
<1>1. Pending' = Pending /\ \A b \in Pending : slot'[b] = slot[b] /\ key'[b] = key[b]
  BY DEF Quiet, Pending
<1>2. PendingSlots' = PendingSlots
  BY <1>1 DEF PendingSlots
<1>3. Used' = Used
  BY <1>2 DEF Quiet, Used
<1>4. PendingOwned'
  BY <1>1 DEF Quiet, LeafInv, PendingOwned
<1>10. RankedHoldKeys'
  BY DEF Quiet, LeafInv, RankedHoldKeys, Ranked
<1>5. RanksInOrder'
  BY DEF Quiet, LeafInv, RanksInOrder, InOrder, Ranked
<1>6. RanksBounded'
  BY <1>3 DEF Quiet, LeafInv, RanksBounded, Ranked
<1>7. Contents' = Contents
  BY DEF Quiet, Contents, KeysOf, Ranked
<1>8. RetiredIsEmpty'
  BY <1>7 DEF Quiet, LeafInv, RetiredIsEmpty
<1>9. SnapshotsValid'
  <2> SUFFICES ASSUME NEW b \in Threads
               PROVE  /\ Ranked(seen'[b]) \subseteq Used
                      /\ \A i \in Ranked(seen'[b]) : key_at[i] \in Keys
                      /\ InOrder(seen'[b])
    BY <1>3 DEF Quiet, SnapshotsValid, InOrder, Ranked
  <2>1. Ranked(seen[b]) \subseteq Used
        /\ (\A i \in Ranked(seen[b]) : key_at[i] \in Keys)
        /\ InOrder(seen[b])
    BY DEF LeafInv, SnapshotsValid
  <2>2. Ranked(rank) \subseteq Used /\ InOrder(rank)
    BY RankedIsUsed DEF LeafInv, RanksInOrder
  <2>3. \A i \in Ranked(rank) : key_at[i] \in Keys
    BY DEF LeafInv, RankedHoldKeys
  <2>4. Ranked(Zero) = {} /\ InOrder(Zero)
    BY ZeroRanksNothing DEF InOrder
  <2>5. seen'[b] \in {seen[b], rank, Zero}
    BY DEF Quiet
  <2> QED BY <2>1, <2>2, <2>3, <2>4, <2>5
<1> QED BY <1>4, <1>10, <1>5, <1>6, <1>7, <1>8, <1>9 DEF Kept

-----------------------------------------------------------------------------
(* The four steps that change ranks or entries                              *)

\* Changing an entry outside of the used slots does not disturb the metadata
\* another thread works on.
LEMMA OtherSnapshots ==
  ASSUME LeafInv, NEW b \in Threads, seen'[b] = seen[b], Used' = Used,
         NEW s, s \notin Used,
         \A i \in Slots : i # s => key_at'[i] = key_at[i]
  PROVE  /\ Ranked(seen'[b]) \subseteq Used'
         /\ \A i \in Ranked(seen'[b]) : key_at'[i] \in Keys
         /\ InOrder(seen[b])'
         /\ KeysOf(seen[b])' = KeysOf(seen[b])
<1>1. Ranked(seen[b]) \subseteq Used /\ InOrder(seen[b])
      /\ \A i \in Ranked(seen[b]) : key_at[i] \in Keys
  BY DEF LeafInv, SnapshotsValid
<1>2. \A i \in Ranked(seen[b]) : key_at'[i] = key_at[i]
  BY <1>1 DEF Ranked
<1>3. InOrder(seen[b])'
  BY <1>1, <1>2 DEF InOrder, Ranked
<1>4. KeysOf(seen[b])' = KeysOf(seen[b])
  BY <1>2 DEF KeysOf, Ranked
<1> QED BY <1>1, <1>2, <1>3, <1>4

\* Reserving a slot.
LEMMA ReserveSlot ==
  ASSUME LeafInv, NEW a \in Threads, pc[a] = "reserve", Matches(a),
         rank' = [rank EXCEPT ![slot[a]] = removed_rank],
         seen' = [seen EXCEPT ![a] = rank'],
         key_at' = [key_at EXCEPT ![slot[a]] = key[a]],
         pc' = [pc EXCEPT ![a] = "post"],
         UNCHANGED <<frozen, retired, key, slot>>
  PROVE  /\ Kept' /\ Contents' = Contents
         /\ \A b \in Threads : KeysOf(seen[b])' = IF b = a THEN Contents ELSE KeysOf(seen[b])
<1> DEFINE s == slot[a]
<1>1. s \in Slots /\ rank[s] = uninit_rank /\ key[a] \in Keys
  BY DEF LeafInv, TypeOK, OperationsWellFormed, Matches
<1>2. uninit_rank # removed_rank
  BY DimensionAssumption DEF uninit_rank
<1>3. rank \in [Slots -> Ranks] /\ key_at \in [Slots -> Keys \cup {NoKey}]
      /\ pc \in [Threads -> PCs] /\ seen \in [Threads -> [Slots -> Ranks]]
  BY DEF LeafInv, TypeOK
<1>4. Pending' = Pending \cup {a} /\ a \notin Pending
  BY <1>3 DEF Pending
<1>5. s \notin PendingSlots
  BY <1>1, <1>2 DEF LeafInv, PendingOwned, PendingSlots
<1>6. PendingSlots' = PendingSlots \cup {s}
  BY <1>4 DEF PendingSlots
<1>7. s \notin Used /\ Used' = Used
  BY <1>1, <1>2, <1>3, <1>5, <1>6 DEF Used
<1>8. Ranked(rank') = Ranked(rank)
  BY <1>1, <1>2, <1>3 DEF Ranked
<1>9. Ranked(rank) \subseteq Used
  BY RankedIsUsed DEF LeafInv
<1>10. \A i \in Slots : i # s => key_at'[i] = key_at[i] /\ rank'[i] = rank[i]
  BY <1>1, <1>3
<1>11. \A r : Ranked(r) \subseteq Used =>
         \A i \in Ranked(r) : i # s /\ key_at'[i] = key_at[i]
  BY <1>7, <1>10 DEF Used
<1>12. PendingOwned'
  BY <1>1, <1>3, <1>4, <1>5, <1>10 DEF LeafInv, PendingOwned, PendingSlots
<1>13. RankedHoldKeys'
  BY <1>8, <1>9, <1>11 DEF LeafInv, RankedHoldKeys, Ranked
<1>14. RanksInOrder'
  <2>1. \A i \in Ranked(rank) : rank'[i] = rank[i] /\ key_at'[i] = key_at[i]
    BY <1>9, <1>10, <1>11 DEF Ranked
  <2> QED BY <1>8, <2>1 DEF LeafInv, RanksInOrder, InOrder, Ranked
<1>15. RanksBounded'
  BY <1>7, <1>8, <1>9, <1>10, <1>11 DEF LeafInv, RanksBounded, Ranked
<1>16. SnapshotsValid'
  <2> SUFFICES ASSUME NEW b \in Threads
               PROVE  /\ Ranked(seen'[b]) \subseteq Used
                      /\ \A i \in Ranked(seen'[b]) : key_at'[i] \in Keys
                      /\ (InOrder(seen[b]))'
    BY <1>7 DEF SnapshotsValid, Ranked
  <2>1. CASE b = a
    <3>1. seen'[b] = rank'
      BY <2>1, <1>3
    <3>2. Ranked(seen'[b]) = Ranked(rank)
      BY <3>1, <1>8
    <3>3. \A i \in Ranked(rank) : key_at'[i] \in Keys
      BY <1>9, <1>11 DEF LeafInv, RankedHoldKeys
    <3>4. (InOrder(seen[b]))'
      BY <3>1, <1>14 DEF RanksInOrder, InOrder, Ranked
    <3>5. Ranked(seen'[b]) \subseteq Used
      BY <3>2, <1>9
    <3>6. \A i \in Ranked(seen'[b]) : key_at'[i] \in Keys
      BY <3>2, <3>3
    <3> QED BY <3>4, <3>5, <3>6
  <2>2. CASE b # a
    <3>1. seen'[b] = seen[b]
      BY <2>2, <1>3
    <3> QED BY <3>1, <1>7, <1>10, OtherSnapshots
  <2> QED BY <2>1, <2>2
<1>17. Contents' = Contents
  BY <1>8, <1>9, <1>11 DEF Contents, KeysOf, Ranked
<1>18. RetiredIsEmpty'
  BY <1>17 DEF LeafInv, RetiredIsEmpty
<1>19. ASSUME NEW b \in Threads
       PROVE  KeysOf(seen[b])' = IF b = a THEN Contents ELSE KeysOf(seen[b])
  <2>1. CASE b = a
    BY <2>1, <1>3, <1>17 DEF Contents, KeysOf, Ranked
  <2>2. CASE b # a
    <3>1. seen'[b] = seen[b]
      BY <2>2, <1>3
    <3> QED BY <2>2, <3>1, <1>7, <1>10, OtherSnapshots
  <2> QED BY <2>1, <2>2
<1> QED BY <1>12, <1>13, <1>14, <1>15, <1>16, <1>17, <1>18, <1>19 DEF Kept

\* Taking a reserved slot back.
LEMMA RollbackSlot ==
  ASSUME LeafInv, NEW a \in Threads, pc[a] = "rollback",
         rank' = [rank EXCEPT ![slot[a]] = uninit_rank],
         key_at' = [key_at EXCEPT ![slot[a]] = NoKey],
         pc' = [pc EXCEPT ![a] = "idle"],
         key' = [key EXCEPT ![a] = NoKey],
         slot' = [slot EXCEPT ![a] = 1],
         seen' = [seen EXCEPT ![a] = Zero],
         UNCHANGED <<frozen, retired>>
  PROVE  /\ Kept' /\ Contents' = Contents
         /\ \A b \in Threads : b # a => KeysOf(seen[b])' = KeysOf(seen[b])
<1> DEFINE s == slot[a]
<1>1. rank \in [Slots -> Ranks] /\ key_at \in [Slots -> Keys \cup {NoKey}]
      /\ pc \in [Threads -> PCs] /\ seen \in [Threads -> [Slots -> Ranks]]
      /\ slot \in [Threads -> Slots] /\ key \in [Threads -> Keys \cup {NoKey}]
  BY DEF LeafInv, TypeOK
<1>2. a \in Pending /\ Pending' = Pending \ {a}
  BY <1>1 DEF Pending
<1>3. s \in Slots /\ rank[s] = removed_rank
      /\ \A b \in Pending : b # a => slot[b] # s
  BY <1>1, <1>2 DEF LeafInv, PendingOwned
<1>4. \A b \in Pending' : b # a /\ slot'[b] = slot[b] /\ key'[b] = key[b]
  BY <1>1, <1>2 DEF Pending
<1>5. PendingSlots' = PendingSlots \ {s}
  BY <1>2, <1>3, <1>4 DEF PendingSlots
<1>6. s \in PendingSlots
  BY <1>2 DEF PendingSlots
<1>7. s \notin Used /\ Used' = Used
  BY <1>1, <1>3, <1>5, <1>6 DEF Used
<1>8. Ranked(rank') = Ranked(rank)
  BY <1>1, <1>3 DEF Ranked
<1>9. Ranked(rank) \subseteq Used
  BY RankedIsUsed DEF LeafInv
<1>10. \A i \in Slots : i # s => key_at'[i] = key_at[i] /\ rank'[i] = rank[i]
  BY <1>1, <1>3
<1>11. \A i \in Ranked(rank) : /\ i \in Slots /\ i # s
                               /\ key_at'[i] = key_at[i] /\ rank'[i] = rank[i]
  BY <1>7, <1>9, <1>10 DEF Ranked
<1>12. PendingOwned'
  BY <1>2, <1>3, <1>4, <1>10, <1>1 DEF LeafInv, PendingOwned, Pending
<1>13. RankedHoldKeys'
  BY <1>8, <1>11 DEF LeafInv, RankedHoldKeys
<1>14. RanksInOrder'
  BY <1>8, <1>11 DEF LeafInv, RanksInOrder, InOrder, Ranked
<1>15. RanksBounded'
  BY <1>7, <1>8, <1>11 DEF LeafInv, RanksBounded, Ranked
<1>16. SnapshotsValid'
  <2> SUFFICES ASSUME NEW b \in Threads
               PROVE  /\ Ranked(seen'[b]) \subseteq Used'
                      /\ \A i \in Ranked(seen'[b]) : key_at'[i] \in Keys
                      /\ InOrder(seen[b])'
    BY DEF SnapshotsValid, Ranked
  <2>1. CASE b = a
    <3>1. seen'[b] = Zero
      BY <2>1, <1>1
    <3> QED BY <3>1, ZeroRanksNothing DEF InOrder, Ranked
  <2>2. CASE b # a
    <3>1. seen'[b] = seen[b]
      BY <2>2, <1>1
    <3> QED BY <3>1, <1>7, <1>10, OtherSnapshots
  <2> QED BY <2>1, <2>2
<1>17. Contents' = Contents
  BY <1>8, <1>11 DEF Contents, KeysOf, Ranked
<1>18. RetiredIsEmpty'
  BY <1>17 DEF LeafInv, RetiredIsEmpty
<1>19. ASSUME NEW b \in Threads, b # a
       PROVE  KeysOf(seen[b])' = KeysOf(seen[b])
  <2>1. seen'[b] = seen[b]
    BY <1>1, <1>19
  <2> QED BY <2>1, <1>7, <1>10, OtherSnapshots
<1> QED BY <1>12, <1>13, <1>14, <1>15, <1>16, <1>17, <1>18, <1>19 DEF Kept

\* Removing an entry.
LEMMA RemoveSlot ==
  ASSUME LeafInv, NEW a \in Threads, pc[a] = "remove", Matches(a),
         rank' = [rank EXCEPT ![slot[a]] = removed_rank],
         retired' = IF Empties(seen[a], slot[a]) THEN 1 ELSE retired,
         pc' = [pc EXCEPT ![a] = "idle"],
         key' = [key EXCEPT ![a] = NoKey],
         slot' = [slot EXCEPT ![a] = 1],
         seen' = [seen EXCEPT ![a] = Zero],
         UNCHANGED <<frozen, key_at>>
  PROVE  /\ Kept'
         /\ \E k \in Contents : Contents' = Contents \ {k}
         /\ retired' = IF Contents' = {} THEN 1 ELSE 0
<1> DEFINE s == slot[a]
<1>1. rank \in [Slots -> Ranks] /\ key_at \in [Slots -> Keys \cup {NoKey}]
      /\ pc \in [Threads -> PCs] /\ seen \in [Threads -> [Slots -> Ranks]]
      /\ slot \in [Threads -> Slots] /\ key \in [Threads -> Keys \cup {NoKey}]
  BY DEF LeafInv, TypeOK
<1>2. s \in Ranked(rank) /\ s \in Slots /\ rank = seen[a] /\ retired = 0
  BY DEF LeafInv, OperationsWellFormed, Matches, Ranked
<1>3. removed_rank # uninit_rank
  BY DimensionAssumption DEF uninit_rank
<1>4. Pending' = Pending /\ a \notin Pending
      /\ \A b \in Pending : slot'[b] = slot[b] /\ key'[b] = key[b]
  BY <1>1 DEF Pending
<1>5. PendingSlots' = PendingSlots
  BY <1>4 DEF PendingSlots
<1>6. \A i \in Slots : i # s => rank'[i] = rank[i]
  BY <1>1, <1>2
<1>7. rank'[s] = removed_rank
  BY <1>1, <1>2
<1>8. Used' = Used
  BY <1>2, <1>3, <1>5, <1>6, <1>7 DEF Used, Ranked
<1>9. Ranked(rank') = Ranked(rank) \ {s}
  BY <1>2, <1>6, <1>7 DEF Ranked
<1>10. PendingOwned'
  BY <1>4, <1>2, <1>6, <1>7 DEF LeafInv, PendingOwned
<1>11. RankedHoldKeys'
  BY <1>9 DEF LeafInv, RankedHoldKeys
<1>12. RanksInOrder'
  BY <1>9, <1>6 DEF LeafInv, RanksInOrder, InOrder, Ranked
<1>13. RanksBounded'
  BY <1>9, <1>8, <1>6 DEF LeafInv, RanksBounded, Ranked
<1>14. SnapshotsValid'
  <2> SUFFICES ASSUME NEW b \in Threads
               PROVE  /\ Ranked(seen'[b]) \subseteq Used
                      /\ \A i \in Ranked(seen'[b]) : key_at[i] \in Keys
                      /\ InOrder(seen'[b])
    BY <1>8 DEF SnapshotsValid, InOrder, Ranked
  <2>1. CASE b = a
    <3>1. seen'[b] = Zero
      BY <2>1, <1>1
    <3> QED BY <3>1, ZeroRanksNothing DEF InOrder
  <2>2. CASE b # a
    <3>1. seen'[b] = seen[b]
      BY <2>2, <1>1
    <3> QED BY <3>1 DEF LeafInv, SnapshotsValid
  <2> QED BY <2>1, <2>2
<1>15. key_at[s] \in Contents /\ Contents' = Contents \ {key_at[s]}
  <2>1. \A i \in Ranked(rank) : i # s => key_at[i] # key_at[s]
    BY <1>2 DEF LeafInv, RanksInOrder, InOrder
  <2> QED BY <2>1, <1>2, <1>9 DEF Contents, KeysOf, Ranked
<1>16. Contents' = {} <=> Ranked(rank) \subseteq {s}
  <2>1. Contents' = {key_at[i] : i \in Ranked(rank) \ {s}}
    BY <1>9 DEF Contents, KeysOf, Ranked
  <2> QED BY <2>1
<1>17. retired' = IF Contents' = {} THEN 1 ELSE 0
  BY <1>2, <1>16 DEF Empties
<1>18. RetiredIsEmpty'
  BY <1>17 DEF RetiredIsEmpty
<1> QED BY <1>10, <1>11, <1>12, <1>13, <1>14, <1>15, <1>17, <1>18 DEF Kept

\* The ranks after an insertion: the new entry stands between the smaller and
\* the greater keys.
LEMMA AugmentedInOrder ==
  ASSUME TypeOK, RankedHoldKeys, RanksInOrder,
         NEW s \in Slots, s \notin Ranked(rank), key_at[s] \in Keys,
         NEW n \in Nat, n < num_entries,
         \A i \in Ranked(rank) : rank[i] <= n,
         ~Duplicate(rank, key_at[s])
  PROVE  LET r == Augmented(rank, s, key_at[s])
         IN  /\ r \in [Slots -> Ranks]
             /\ Ranked(r) = Ranked(rank) \cup {s}
             /\ InOrder(r)
             /\ \A i \in Ranked(r) : r[i] <= n + 1
<1> DEFINE k == key_at[s]
           m == MaxMinRank(rank, k)
           r == Augmented(rank, s, k)
<1>1. /\ rank \in [Slots -> Ranks]
      /\ \A i \in Slots : key_at[i] \in Nat
      /\ num_entries \in Nat /\ removed_rank \in Nat
      /\ removed_rank > num_entries /\ uninit_rank = 0
  <2>1. rank \in [Slots -> Ranks] /\ key_at \in [Slots -> Keys \cup {NoKey}]
    BY DEF TypeOK
  <2>2. Keys \cup {NoKey} \subseteq Nat
    BY KeysAssumption DEF NoKey
  <2> QED BY <2>1, <2>2, DimensionAssumption DEF uninit_rank
<1>2. /\ m \in 0 .. num_entries
      /\ m = 0 \/ \E i \in Below(rank, k) : rank[i] = m
      /\ \A i \in Below(rank, k) : rank[i] <= m
  BY <1>1, MaxMinRankIsHighest
<1>3. \A i \in Ranked(rank) : i \in Slots /\ i # s /\ rank[i] \in 1 .. num_entries
  BY <1>1, RankRange
<1>4. Ranked(rank) = Below(rank, k) \cup Above(rank, k)
  BY <1>1, <1>3 DEF Below, Above, Duplicate
<1>5. \A i \in Above(rank, k) : rank[i] > m
  <2> SUFFICES ASSUME NEW i \in Above(rank, k)
               PROVE  rank[i] > m
    OBVIOUS
  <2>1. i \in Ranked(rank) /\ key_at[i] > k
    BY DEF Above
  <2>2. CASE m = 0
    BY <2>1, <2>2, <1>3
  <2>3. CASE m # 0
    <3>1. PICK j \in Below(rank, k) : rank[j] = m
      BY <2>3, <1>2
    <3>2. j \in Ranked(rank) /\ key_at[j] < k
      BY DEF Below
    <3>3. key_at[j] < key_at[i]
      BY <2>1, <3>2, <1>1, <1>3
    <3> QED BY <2>1, <3>1, <3>2, <3>3 DEF RanksInOrder, InOrder
  <2> QED BY <2>2, <2>3
<1>6. m <= n
  BY <1>2, <1>4
<1>7. /\ r[s] = m + 1
      /\ \A i \in Below(rank, k) : r[i] = rank[i] /\ r[i] <= m
      /\ \A i \in Above(rank, k) : r[i] = rank[i] + 1 /\ r[i] > m + 1
      /\ \A i \in Slots : i # s /\ i \notin Ranked(rank) => r[i] = rank[i]
  <2>1. \A i \in Below(rank, k) : i \in Slots /\ i # s /\ i \notin Above(rank, k)
    BY <1>1, <1>3 DEF Below, Above
  <2>2. \A i \in Above(rank, k) : i \in Slots /\ i # s
    BY <1>3 DEF Above
  <2>3. \A i \in Slots : i \notin Ranked(rank) => i \notin Above(rank, k)
    BY DEF Above
  <2>4. \A i \in Slots : r[i] = IF i = s THEN m + 1
                                ELSE IF i \in Above(rank, k) THEN rank[i] + 1
                                ELSE rank[i]
    BY DEF Augmented
  <2>5. \A i \in Above(rank, k) : r[i] = rank[i] + 1 /\ r[i] > m + 1
    BY <2>2, <2>4, <1>5, <1>2, <1>3, <1>4
  <2> QED BY <2>1, <2>3, <2>4, <2>5, <1>2
<1>8. \A i \in Ranked(rank) \cup {s} : r[i] \in 1 .. num_entries /\ r[i] <= n + 1
  <2>1. \A i \in Ranked(rank) : r[i] \in 1 .. num_entries /\ r[i] <= n + 1
    BY <1>3, <1>4, <1>7, <1>1
  <2>2. r[s] \in 1 .. num_entries /\ r[s] <= n + 1
    BY <1>1, <1>2, <1>6, <1>7
  <2> QED BY <2>1, <2>2
<1>9. Ranked(r) = Ranked(rank) \cup {s}
  <2>1. \A i \in Slots : r[i] # uninit_rank /\ r[i] # removed_rank
                           <=> i \in Ranked(rank) \cup {s}
    <3> SUFFICES ASSUME NEW i \in Slots
                 PROVE  r[i] # uninit_rank /\ r[i] # removed_rank
                           <=> i \in Ranked(rank) \cup {s}
      OBVIOUS
    <3>1. CASE i \in Ranked(rank) \cup {s}
      BY <3>1, <1>1, <1>8
    <3>2. CASE i \notin Ranked(rank) \cup {s}
      BY <3>2, <1>7 DEF Ranked
    <3> QED BY <3>1, <3>2
  <2> QED BY <2>1, <1>3 DEF Ranked
<1>10. r \in [Slots -> Ranks]
  <2>1. \A i \in Slots : r[i] \in Ranks
    <3> SUFFICES ASSUME NEW i \in Slots
                 PROVE  r[i] \in Ranks
      OBVIOUS
    <3>1. CASE i \in Ranked(rank) \cup {s}
      BY <3>1, <1>8 DEF Ranks
    <3>2. CASE i \notin Ranked(rank) \cup {s}
      BY <3>2, <1>1, <1>7
    <3> QED BY <3>1, <3>2
  <2> QED BY <2>1 DEF Augmented
<1>11. InOrder(r)
  <2> SUFFICES ASSUME NEW i \in Ranked(rank) \cup {s},
                      NEW j \in Ranked(rank) \cup {s}
               PROVE  /\ r[i] < r[j] <=> key_at[i] < key_at[j]
                      /\ i # j => key_at[i] # key_at[j]
    BY <1>9 DEF InOrder
  <2>1. /\ \A b \in Below(rank, k) : /\ b \in Ranked(rank) /\ key_at[b] < k
                                     /\ key_at[b] \in Nat
        /\ \A b \in Above(rank, k) : /\ b \in Ranked(rank) /\ key_at[b] > k
                                     /\ key_at[b] \in Nat
        /\ k \in Nat
    BY <1>1, <1>3 DEF Below, Above
  <2>2. /\ i = s \/ i \in Below(rank, k) \/ i \in Above(rank, k)
        /\ j = s \/ j \in Below(rank, k) \/ j \in Above(rank, k)
    BY <1>4
  <2>3. r[i] \in Nat /\ r[j] \in Nat /\ m \in Nat
    BY <1>8, <1>2
  <2>4. CASE i = s \/ j = s
    BY <2>1, <2>2, <2>3, <2>4, <1>7
  <2>5. CASE i # s /\ j # s
    <3>1. i \in Ranked(rank) /\ j \in Ranked(rank)
          /\ rank[i] \in Nat /\ rank[j] \in Nat
      BY <2>5, <1>3
    <3>2. /\ rank[i] < rank[j] <=> key_at[i] < key_at[j]
          /\ i # j => key_at[i] # key_at[j]
      BY <3>1 DEF RanksInOrder, InOrder
    <3> QED BY <2>1, <2>2, <2>3, <2>5, <3>1, <3>2, <1>7
  <2> QED BY <2>4, <2>5
<1> QED BY <1>8, <1>9, <1>10, <1>11

\* Ranking a reserved slot.
LEMMA RankSlot ==
  ASSUME LeafInv, NEW a \in Threads, pc[a] = "post", Matches(a),
         ~Duplicate(seen[a], key[a]),
         rank' = Augmented(seen[a], slot[a], key[a]),
         pc' = [pc EXCEPT ![a] = "idle"],
         key' = [key EXCEPT ![a] = NoKey],
         slot' = [slot EXCEPT ![a] = 1],
         seen' = [seen EXCEPT ![a] = Zero],
         UNCHANGED <<frozen, retired, key_at>>
  PROVE  /\ Kept'
         /\ rank' \in [Slots -> Ranks]
         /\ key[a] \in Keys \ Contents
         /\ Contents' = Contents \cup {key[a]}
<1> DEFINE s == slot[a]
           n == Cardinality(Used)
<1>1. rank \in [Slots -> Ranks] /\ key_at \in [Slots -> Keys \cup {NoKey}]
      /\ pc \in [Threads -> PCs] /\ seen \in [Threads -> [Slots -> Ranks]]
      /\ slot \in [Threads -> Slots] /\ key \in [Threads -> Keys \cup {NoKey}]
  BY DEF LeafInv, TypeOK
<1>2. a \in Pending /\ Pending' = Pending \ {a}
  BY <1>1 DEF Pending
<1>3. /\ s \in Slots /\ rank[s] = removed_rank
      /\ key_at[s] = key[a] /\ key[a] \in Keys
      /\ \A b \in Pending : b # a => slot[b] # s
  BY <1>1, <1>2 DEF LeafInv, PendingOwned
<1>4. rank = seen[a] /\ retired = 0
  BY DEF Matches
<1>5. s \notin Ranked(rank)
  BY <1>3 DEF Ranked
<1>6. s \notin Used
  BY <1>2 DEF Used, PendingSlots
<1>7. Used \subseteq Slots /\ IsFiniteSet(Used) /\ n \in Nat /\ n < num_entries
  <2>1. Used \cup {s} \subseteq Slots /\ Used \subseteq Slots
    BY <1>3 DEF Used
  <2>2. IsFiniteSet(Used) /\ n \in Nat /\ Cardinality(Used \cup {s}) <= num_entries
    BY <2>1, SlotsFinite
  <2>3. Cardinality(Used \cup {s}) = n + 1
    BY <2>2, <1>6, FS_AddElement
  <2> QED BY <2>1, <2>2, <2>3, DimensionAssumption
<1>8. \A i \in Ranked(rank) : rank[i] <= n
  BY DEF LeafInv, RanksBounded
<1>9. /\ rank' \in [Slots -> Ranks]
      /\ Ranked(rank') = Ranked(rank) \cup {s}
      /\ InOrder(rank')
      /\ \A i \in Ranked(rank') : rank'[i] <= n + 1
  <2>1. rank' = Augmented(rank, s, key_at[s]) /\ ~Duplicate(rank, key_at[s])
    BY <1>3, <1>4
  <2>2. TypeOK /\ RankedHoldKeys /\ RanksInOrder /\ key_at[s] \in Keys
    BY <1>3 DEF LeafInv
  <2> HIDE DEF n, s
  <2> QED BY <2>1, <2>2, <1>3, <1>5, <1>7, <1>8, AugmentedInOrder
<1>10. \A b \in Pending' : b # a /\ slot'[b] = slot[b] /\ key'[b] = key[b]
  BY <1>1, <1>2 DEF Pending
<1>11. PendingSlots' = PendingSlots \ {s}
  BY <1>2, <1>3, <1>10 DEF PendingSlots
<1>12. \A i \in Slots : i \notin Ranked(rank) \cup {s} => rank'[i] = rank[i]
  BY <1>4, <1>1 DEF Augmented, Above
<1>13. Used' = Used \cup {s}
  <2>1. \A i \in Slots : rank'[i] # uninit_rank <=> rank[i] # uninit_rank \/ i = s
    <3> SUFFICES ASSUME NEW i \in Slots
                 PROVE  rank'[i] # uninit_rank <=> rank[i] # uninit_rank \/ i = s
      OBVIOUS
    <3>1. CASE i \in Ranked(rank) \cup {s}
      BY <3>1, <1>9 DEF Ranked
    <3>2. CASE i \notin Ranked(rank) \cup {s}
      BY <3>2, <1>12
    <3> QED BY <3>1, <3>2
  <2>2. rank[s] # uninit_rank
    BY <1>3, DimensionAssumption DEF uninit_rank
  <2> QED BY <2>1, <2>2, <1>3, <1>11 DEF Used
<1>14. Cardinality(Used') = n + 1
  BY <1>13, <1>7, <1>6, FS_AddElement
<1>15. PendingOwned'
  <2>1. \A b \in Pending' : rank'[slot[b]] = rank[slot[b]]
    <3> SUFFICES ASSUME NEW b \in Pending' PROVE rank'[slot[b]] = rank[slot[b]]
      OBVIOUS
    <3>1. b \in Pending /\ b # a /\ slot[b] \in Slots /\ b \in Threads
      BY <1>1, <1>2 DEF Pending
    <3>2. rank[slot[b]] = removed_rank /\ slot[b] # s
      BY <3>1, <1>3 DEF LeafInv, PendingOwned
    <3>3. slot[b] \notin Ranked(rank)
      BY <3>2 DEF Ranked
    <3> QED BY <3>1, <3>2, <3>3, <1>12
  <2> QED BY <2>1, <1>2, <1>10 DEF LeafInv, PendingOwned
<1>16. RankedHoldKeys'
  BY <1>9, <1>3 DEF LeafInv, RankedHoldKeys
<1>17. RanksInOrder'
  BY <1>9 DEF RanksInOrder, InOrder, Ranked
<1>18. RanksBounded'
  BY <1>9, <1>14 DEF RanksBounded, Ranked
<1>19. SnapshotsValid'
  <2> SUFFICES ASSUME NEW b \in Threads
               PROVE  /\ Ranked(seen'[b]) \subseteq Used'
                      /\ \A i \in Ranked(seen'[b]) : key_at[i] \in Keys
                      /\ InOrder(seen'[b])
    BY DEF SnapshotsValid, InOrder, Ranked
  <2>1. CASE b = a
    <3>1. seen'[b] = Zero
      BY <2>1, <1>1
    <3> QED BY <3>1, ZeroRanksNothing DEF InOrder
  <2>2. CASE b # a
    <3>1. seen'[b] = seen[b]
      BY <2>2, <1>1
    <3> QED BY <3>1, <1>13 DEF LeafInv, SnapshotsValid
  <2> QED BY <2>1, <2>2
<1>20. Contents' = Contents \cup {key[a]}
  BY <1>9, <1>3 DEF Contents, KeysOf, Ranked
<1>21. key[a] \notin Contents
  BY <1>4 DEF Duplicate, Contents, KeysOf
<1>22. RetiredIsEmpty'
  BY <1>4 DEF RetiredIsEmpty
<1> QED BY <1>3, <1>9, <1>15, <1>16, <1>17, <1>18, <1>19, <1>20, <1>21, <1>22 DEF Kept

-----------------------------------------------------------------------------
(* The actions                                                              *)

\* The types of what belongs to a thread.
LocalTypes ==
  /\ pc \in [Threads -> PCs]
  /\ key \in [Threads -> Keys \cup {NoKey}]
  /\ slot \in [Threads -> Slots]
  /\ seen \in [Threads -> [Slots -> Ranks]]
  /\ result \in [Threads -> Results]

\* The other threads do nothing.
OthersWait(a) ==
  \A b \in Threads : b # a => /\ pc'[b] = pc[b] /\ slot'[b] = slot[b]
                              /\ key'[b] = key[b] /\ seen'[b] = seen[b]

\* Thread a is left where OperationsWellFormed and SplitLosesNothing want it;
\* the frozen bit changes only at the two ends of a split.
Orderly(a) ==
  /\ pc'[a] = "reserve" => seen'[a][slot'[a]] = uninit_rank /\ key'[a] \in Keys
  /\ pc'[a] = "remove" => slot'[a] \in Ranked(seen'[a])
  /\ pc'[a] = "split" => /\ seen'[a] = rank /\ frozen' = 1
                         /\ \A b \in Threads : pc[b] # "split"
  /\ frozen' = frozen \/ pc[a] = "split" \/ pc'[a] = "split"

\* A step that keeps to Orderly keeps what the operations rely on.
LEMMA OrderlyStep ==
  ASSUME LeafInv, NEW a \in Threads, OthersWait(a), Orderly(a)
  PROVE  OperationsWellFormed'
<1> SUFFICES ASSUME NEW b \in Threads
    PROVE /\ pc'[b] = "reserve" => /\ seen'[b][slot'[b]] = uninit_rank
                                   /\ key'[b] \in Keys
          /\ pc'[b] = "remove" => slot'[b] \in Ranked(seen'[b])
          /\ pc'[b] = "split" => /\ frozen' = 1
                                 /\ \A c \in Threads : pc'[c] = "split" => b = c
  BY DEF OperationsWellFormed, Ranked
<1>1. \A c \in Threads :
        /\ pc[c] = "reserve" => seen[c][slot[c]] = uninit_rank /\ key[c] \in Keys
        /\ pc[c] = "remove" => slot[c] \in Ranked(seen[c])
        /\ pc[c] = "split" => /\ frozen = 1
                              /\ \A d \in Threads : pc[d] = "split" => c = d
  BY DEF LeafInv, OperationsWellFormed
<1>2. CASE b = a
  BY <1>2, <1>1 DEF OthersWait, Orderly
<1>3. CASE b # a
  <2>1. pc'[b] = pc[b] /\ slot'[b] = slot[b] /\ key'[b] = key[b] /\ seen'[b] = seen[b]
    BY <1>3 DEF OthersWait
  <2>2. pc[b] = "split" => /\ pc[a] # "split" /\ pc'[a] # "split"
                           /\ frozen' = frozen
    BY <1>1, <1>3 DEF Orderly
  <2>3. pc[b] = "split" => \A c \in Threads : pc'[c] = "split" => b = c
    BY <1>1, <2>2 DEF OthersWait
  <2> QED BY <1>1, <2>1, <2>2, <2>3
<1> QED BY <1>2, <1>3

\* A quiet and orderly step keeps the whole invariant.
LEMMA QuietOrderly ==
  ASSUME LeafInv, NEW a \in Threads, Quiet(a), Orderly(a),
         LocalTypes', frozen' \in 0 .. 1, met' \subseteq Threads
  PROVE  LeafInv' /\ Contents' = Contents
<1>1. Kept' /\ Contents' = Contents
  BY QuietStep
<1>2. OthersWait(a)
  BY DEF Quiet, OthersWait
<1>3. OperationsWellFormed'
  BY <1>2, OrderlyStep
<1>4. TypeOK'
  BY DEF LeafInv, TypeOK, LocalTypes, Quiet
<1>5. SplitLosesNothing'
  <2> SUFFICES ASSUME NEW b \in Threads, pc'[b] = "split"
               PROVE  KeysOf(seen[b])' = Contents
    BY <1>1 DEF SplitLosesNothing
  <2>1. CASE b = a
    BY <2>1 DEF Orderly, Quiet, Contents, KeysOf, Ranked
  <2>2. CASE b # a
    <3>1. pc[b] = "split" /\ seen'[b] = seen[b]
      BY <2>2, <1>2 DEF OthersWait
    <3>2. KeysOf(seen[b]) = Contents
      BY <3>1 DEF LeafInv, SplitLosesNothing
    <3> QED BY <3>1, <3>2 DEF Quiet, KeysOf, Ranked
  <2> QED BY <2>1, <2>2
<1> QED BY <1>1, <1>3, <1>4, <1>5 DEF LeafInv, Kept

\* A thread that owns no slot returns.
LEMMA ReturnIsQuiet ==
  ASSUME LeafInv, NEW a \in Threads, a \notin Pending,
         NEW res \in Results, Return(a, res),
         UNCHANGED <<rank, key_at, retired>>,
         frozen' = frozen \/ pc[a] = "split"
  PROVE  Quiet(a) /\ Orderly(a) /\ LocalTypes'
<1>1. LocalTypes /\ 1 \in Slots
  BY DimensionAssumption DEF LeafInv, TypeOK, LocalTypes, Slots
<1>2. seen' = [seen EXCEPT ![a] = Zero]
  BY DEF Return, Zero
<1>3. pc'[a] = "idle" /\ seen'[a] = Zero
  BY <1>1, <1>2 DEF LocalTypes, Return, Goto
<1>4. OthersWait(a)
  BY <1>1, <1>2 DEF LocalTypes, Return, Goto, OthersWait
<1>5. LocalTypes'
  BY <1>1, <1>2, ZeroRanksNothing DEF LocalTypes, Return, Goto, PCs, NoKey
<1>6. Quiet(a)
  BY <1>3, <1>4 DEF OthersWait, Quiet
<1> QED BY <1>3, <1>5, <1>6 DEF Orderly

\* Reading the metadata for an insertion.
LEMMA InsertReadIsQuiet ==
  ASSUME LeafInv, NEW a \in Threads, pc[a] \in {"idle", "reserve"},
         NEW k \in Keys, InsertRead(a, k),
         UNCHANGED <<word, key_at>>
  PROVE  Quiet(a) /\ Orderly(a) /\ LocalTypes'
<1>1. a \notin Pending /\ UNCHANGED <<rank, key_at, retired, frozen>>
  BY DEF Pending, word
<1>2. CASE \E res \in Results : Return(a, res)
  BY <1>1, <1>2, ReturnIsQuiet
<1>3. CASE /\ \E i \in Slots : FreeSlot(rank, i) /\ slot' = [slot EXCEPT ![a] = i]
           /\ seen' = [seen EXCEPT ![a] = rank]
           /\ key' = [key EXCEPT ![a] = k]
           /\ result' = [result EXCEPT ![a] = "other"]
           /\ Goto(a, "reserve")
  <2>1. LocalTypes /\ rank \in [Slots -> Ranks]
    BY DEF LeafInv, TypeOK, LocalTypes
  <2>2. PICK i \in Slots : rank[i] = uninit_rank /\ slot' = [slot EXCEPT ![a] = i]
    BY <1>3 DEF FreeSlot
  <2>3. LocalTypes'
    BY <1>3, <2>1, <2>2 DEF LocalTypes, Goto, PCs, Results
  <2>4. pc'[a] = "reserve" /\ seen'[a] = rank /\ slot'[a] = i /\ key'[a] = k
    BY <1>3, <2>1, <2>2 DEF LocalTypes, Goto
  <2>5. OthersWait(a)
    BY <1>3, <2>1, <2>2 DEF LocalTypes, Goto, OthersWait
  <2>6. Quiet(a)
    BY <1>1, <2>4, <2>5 DEF OthersWait, Quiet
  <2>7. Orderly(a)
    BY <1>1, <2>2, <2>4 DEF Orderly
  <2> QED BY <2>3, <2>6, <2>7
<1> QED BY <1>2, <1>3 DEF InsertRead, Results

\* What one step must achieve: the invariant again, and a step of the set of
\* keys or none.
Correct == LeafInv' /\ [Abstract!Next]_(Abstract!vars)

\* A quiet and orderly step that leaves the frozen bit alone is invisible in
\* the set of keys.
LEMMA QuietIsCorrect ==
  ASSUME LeafInv, NEW a \in Threads, Quiet(a), Orderly(a),
         LocalTypes', frozen' = frozen, met' \subseteq Threads
  PROVE  Correct
<1>1. frozen' \in 0 .. 1
  BY DEF LeafInv, TypeOK
<1>2. LeafInv' /\ Contents' = Contents
  BY <1>1, QuietOrderly
<1> QED BY <1>2 DEF Correct, Quiet, Abstract!vars

\* Insert: a quiet read of the metadata.
LEMMA InsertIsCorrect ==
  ASSUME LeafInv, NEW a \in Threads, NEW k \in Keys, Insert(a, k)
  PROVE  Correct
<1>1. Quiet(a) /\ Orderly(a) /\ LocalTypes'
  BY InsertReadIsQuiet DEF Insert
<1>2. met' \subseteq Threads /\ frozen' = frozen
  BY DEF LeafInv, TypeOK, Insert, word
<1> QED BY <1>1, <1>2, QuietIsCorrect

\* A step that changes ranks or entries keeps the rest of the invariant: the
\* leaf is not frozen, so there is no split to disturb; or it is, and no
\* split can see the change.
LEMMA LoudIsOrderly ==
  ASSUME LeafInv, NEW a \in Threads, OthersWait(a), Kept', LocalTypes',
         pc'[a] \in {"idle", "post"}, pc[a] # "split",
         frozen' = frozen, met' \subseteq Threads,
         rank' \in [Slots -> Ranks], retired' \in 0 .. 1,
         key_at' \in [Slots -> Keys \cup {NoKey}],
         \/ frozen = 0
         \/ /\ Contents' = Contents
            /\ \A b \in Threads : b # a => KeysOf(seen[b])' = KeysOf(seen[b])
  PROVE  LeafInv'
<1>1. OperationsWellFormed'
  BY OrderlyStep DEF Orderly
<1>2. TypeOK'
  BY DEF LeafInv, TypeOK, LocalTypes
<1>3. SplitLosesNothing'
  <2> SUFFICES ASSUME NEW b \in Threads, pc'[b] = "split"
               PROVE  KeysOf(seen[b])' = Contents'
    BY DEF SplitLosesNothing
  <2>1. b # a /\ pc[b] = "split"
    BY DEF OthersWait
  <2>2. frozen = 1 /\ KeysOf(seen[b]) = Contents
    BY <2>1 DEF LeafInv, OperationsWellFormed, SplitLosesNothing
  <2> QED BY <2>1, <2>2
<1> QED BY <1>1, <1>2, <1>3 DEF LeafInv, Kept

\* Reserve: the slot is reserved, or the metadata is read again.
LEMMA ReserveIsCorrect ==
  ASSUME LeafInv, NEW a \in Threads, Reserve(a)
  PROVE  Correct
<1>1. pc[a] = "reserve" /\ UNCHANGED <<frozen, retired, met>>
  BY DEF Reserve
<1>2. TypeOK /\ LocalTypes /\ key[a] \in Keys
  BY <1>1 DEF LeafInv, TypeOK, LocalTypes, OperationsWellFormed
<1>3. CASE /\ Matches(a)
           /\ rank' = [rank EXCEPT ![slot[a]] = removed_rank]
           /\ seen' = [seen EXCEPT ![a] = rank']
           /\ key_at' = [key_at EXCEPT ![slot[a]] = key[a]]
           /\ Goto(a, "post")
           /\ UNCHANGED <<key, slot, result>>
  <2>1. pc' = [pc EXCEPT ![a] = "post"] /\ UNCHANGED <<frozen, retired, key, slot>>
    BY <1>1, <1>3 DEF Goto
  <2>2. Kept' /\ Contents' = Contents
    BY <1>1, <1>3, <2>1, ReserveSlot
  <2>3. rank' \in [Slots -> Ranks] /\ key_at' \in [Slots -> Keys \cup {NoKey}]
    BY <1>2, <1>3 DEF TypeOK, Ranks
  <2>4. LocalTypes' /\ OthersWait(a) /\ pc'[a] = "post"
    BY <1>2, <1>3, <2>1, <2>3 DEF LocalTypes, OthersWait, PCs
  <2>5. frozen = 0 /\ retired' \in 0 .. 1 /\ met' \subseteq Threads
    BY <1>1, <1>2, <1>3 DEF Matches, TypeOK
  <2>6. LeafInv'
    BY <1>1, <2>2, <2>3, <2>4, <2>5, LoudIsOrderly
  <2> QED BY <1>1, <2>2, <2>6 DEF Correct, Abstract!vars
<1>4. CASE InsertRead(a, key[a]) /\ UNCHANGED <<rank, key_at>>
  <2>1. UNCHANGED <<word, key_at>>
    BY <1>1, <1>4 DEF word
  <2>2. Quiet(a) /\ Orderly(a) /\ LocalTypes'
    BY <1>1, <1>2, <1>4, <2>1, InsertReadIsQuiet
  <2>3. met' \subseteq Threads
    BY <1>1, <1>2 DEF TypeOK
  <2> QED BY <1>1, <2>2, <2>3, QuietIsCorrect
<1> QED BY <1>3, <1>4 DEF Reserve

\* PostInsert: the slot is ranked, or has to be taken back, or the metadata is
\* read again.
LEMMA PostInsertIsCorrect ==
  ASSUME LeafInv, NEW a \in Threads, PostInsert(a)
  PROVE  Correct
<1>1. pc[a] = "post" /\ a \in Pending /\ UNCHANGED <<frozen, retired, key_at>>
  BY DEF PostInsert, Pending
<1>2. TypeOK /\ LocalTypes
  BY DEF LeafInv, TypeOK, LocalTypes
<1>3. CASE Goto(a, "rollback") /\ UNCHANGED <<rank, key, slot, seen, result, met>>
  <2>1. LocalTypes' /\ OthersWait(a) /\ pc'[a] = "rollback"
    BY <1>2, <1>3 DEF LocalTypes, OthersWait, Goto, PCs
  <2>2. Quiet(a) /\ Orderly(a)
    BY <1>1, <1>3, <2>1 DEF Quiet, Orderly, OthersWait
  <2>3. met' \subseteq Threads
    BY <1>2, <1>3 DEF TypeOK
  <2> QED BY <1>1, <2>1, <2>2, <2>3, QuietIsCorrect
<1>4. CASE /\ ~Duplicate(seen[a], key[a]) /\ Matches(a)
           /\ rank' = Augmented(seen[a], slot[a], key[a])
           /\ met' = met \cup {b \in Threads : b # a /\ key[b] = key[a]}
           /\ Return(a, "other")
  <2>1. /\ pc' = [pc EXCEPT ![a] = "idle"]
        /\ key' = [key EXCEPT ![a] = NoKey]
        /\ slot' = [slot EXCEPT ![a] = 1]
        /\ seen' = [seen EXCEPT ![a] = Zero]
        /\ result' = [result EXCEPT ![a] = "other"]
    BY <1>4 DEF Return, Goto, Zero
  <2>2. /\ Kept' /\ rank' \in [Slots -> Ranks]
        /\ key[a] \in Keys \ Contents
        /\ Contents' = Contents \cup {key[a]}
    BY <1>1, <1>4, <2>1, RankSlot
  <2>3. 1 \in Slots
    BY DimensionAssumption DEF Slots
  <2>4. LocalTypes' /\ OthersWait(a) /\ pc'[a] = "idle"
    BY <1>2, <2>1, <2>3, ZeroRanksNothing DEF LocalTypes, OthersWait, PCs, Results
  <2>5. frozen = 0 /\ retired = 0 /\ retired' \in 0 .. 1 /\ met' \subseteq Threads
    BY <1>1, <1>2, <1>4 DEF Matches, TypeOK
  <2>6. key_at' \in [Slots -> Keys \cup {NoKey}]
    BY <1>1, <1>2 DEF TypeOK
  <2>7. LeafInv'
    BY <1>1, <2>2, <2>4, <2>5, <2>6, LoudIsOrderly
  <2>8. Abstract!Add(key[a])
    BY <1>1, <2>2, <2>5 DEF Abstract!Add
  <2> QED BY <2>2, <2>7, <2>8 DEF Correct, Abstract!Next
<1>5. CASE /\ seen' = [seen EXCEPT ![a] = rank]
           /\ UNCHANGED <<rank, pc, key, slot, result, met>>
  <2>1. LocalTypes' /\ OthersWait(a) /\ seen'[a] = rank
    BY <1>2, <1>5 DEF LocalTypes, OthersWait, TypeOK
  <2>2. Quiet(a) /\ Orderly(a)
    BY <1>1, <1>5, <2>1 DEF Quiet, Orderly, OthersWait
  <2>3. met' \subseteq Threads
    BY <1>2, <1>5 DEF TypeOK
  <2> QED BY <1>1, <2>1, <2>2, <2>3, QuietIsCorrect
<1> QED BY <1>3, <1>4, <1>5 DEF PostInsert

\* Rollback, of a leaf that may be frozen.
LEMMA RollbackIsCorrect ==
  ASSUME LeafInv, NEW a \in Threads, Rollback(a)
  PROVE  Correct
<1>1. TypeOK /\ LocalTypes
  BY DEF LeafInv, TypeOK, LocalTypes
<1>2. /\ pc[a] = "rollback" /\ UNCHANGED <<frozen, retired>> /\ met' = met
      /\ rank' = [rank EXCEPT ![slot[a]] = uninit_rank]
      /\ key_at' = [key_at EXCEPT ![slot[a]] = NoKey]
      /\ pc' = [pc EXCEPT ![a] = "idle"]
      /\ key' = [key EXCEPT ![a] = NoKey]
      /\ slot' = [slot EXCEPT ![a] = 1]
      /\ seen' = [seen EXCEPT ![a] = Zero]
      /\ result' = [result EXCEPT ![a] = RollbackResult]
  BY DEF Rollback, Return, Goto, Zero
<1>3. /\ Kept' /\ Contents' = Contents
      /\ \A b \in Threads : b # a => KeysOf(seen[b])' = KeysOf(seen[b])
  BY <1>2, RollbackSlot
<1>4. rank' \in [Slots -> Ranks] /\ key_at' \in [Slots -> Keys \cup {NoKey}]
      /\ retired' \in 0 .. 1 /\ met' \subseteq Threads
  BY <1>1, <1>2 DEF TypeOK, Ranks
<1>5. 1 \in Slots /\ RollbackResult \in Results
  BY DimensionAssumption DEF Slots, RollbackResult, Results
<1>6. LocalTypes' /\ OthersWait(a) /\ pc'[a] = "idle"
  BY <1>1, <1>2, <1>5, ZeroRanksNothing DEF LocalTypes, OthersWait, PCs
<1>7. LeafInv'
  BY <1>2, <1>3, <1>4, <1>6, LoudIsOrderly
<1> QED BY <1>2, <1>3, <1>7 DEF Correct, Abstract!vars

\* RemoveIf: a quiet read of the metadata.
LEMMA RemoveIfIsCorrect ==
  ASSUME LeafInv, NEW a \in Threads, NEW k \in Keys, RemoveIf(a, k)
  PROVE  Correct
<1>1. TypeOK /\ LocalTypes
  BY DEF LeafInv, TypeOK, LocalTypes
<1>2. UNCHANGED <<rank, frozen, retired, key_at, met>> /\ pc[a] = "idle"
  BY DEF RemoveIf, word
<1>3. PICK i \in Ranked(rank) : slot' = [slot EXCEPT ![a] = i]
  BY DEF RemoveIf
<1>4. i \in Slots
  BY DEF Ranked
<1>5. LocalTypes'
  BY <1>1, <1>3, <1>4 DEF LocalTypes, TypeOK, RemoveIf, Goto, PCs, Results
<1>6. pc'[a] = "remove" /\ seen'[a] = rank /\ slot'[a] = i
  BY <1>1, <1>3 DEF LocalTypes, RemoveIf, Goto
<1>7. OthersWait(a)
  BY <1>1, <1>3 DEF LocalTypes, RemoveIf, Goto, OthersWait
<1>8. a \notin Pending
  BY <1>2 DEF Pending
<1>9. Quiet(a) /\ Orderly(a)
  BY <1>2, <1>6, <1>7, <1>8 DEF Quiet, Orderly, OthersWait
<1>10. met' \subseteq Threads
  BY <1>1, <1>2 DEF TypeOK
<1> QED BY <1>2, <1>5, <1>9, <1>10, QuietIsCorrect

\* RemoveExchange: the entry is removed, or is not, or the exchange is retried.
LEMMA RemoveExchangeIsCorrect ==
  ASSUME LeafInv, NEW a \in Threads, RemoveExchange(a)
  PROVE  Correct
<1>1. TypeOK /\ LocalTypes
  BY DEF LeafInv, TypeOK, LocalTypes
<1>2. /\ pc[a] = "remove" /\ a \notin Pending
      /\ UNCHANGED <<frozen, key_at, met>> /\ met' \subseteq Threads
  BY <1>1 DEF RemoveExchange, Pending, TypeOK
<1>3. CASE Return(a, "other") /\ UNCHANGED <<rank, retired>>
  <2>1. Quiet(a) /\ Orderly(a) /\ LocalTypes'
    BY <1>2, <1>3, ReturnIsQuiet DEF Results
  <2> QED BY <1>2, <2>1, QuietIsCorrect
<1>4. CASE /\ Matches(a)
           /\ rank' = [rank EXCEPT ![slot[a]] = removed_rank]
           /\ retired' = IF Empties(seen[a], slot[a]) THEN 1 ELSE retired
           /\ Return(a, "other")
  <2>1. /\ pc' = [pc EXCEPT ![a] = "idle"]
        /\ key' = [key EXCEPT ![a] = NoKey]
        /\ slot' = [slot EXCEPT ![a] = 1]
        /\ seen' = [seen EXCEPT ![a] = Zero]
        /\ result' = [result EXCEPT ![a] = "other"]
    BY <1>4 DEF Return, Goto, Zero
  <2>2. /\ Kept'
        /\ \E k \in Contents : Contents' = Contents \ {k}
        /\ retired' = IF Contents' = {} THEN 1 ELSE 0
    BY <1>2, <1>4, <2>1, RemoveSlot
  <2>3. 1 \in Slots
    BY DimensionAssumption DEF Slots
  <2>4. LocalTypes' /\ OthersWait(a) /\ pc'[a] = "idle"
    BY <1>1, <2>1, <2>3, ZeroRanksNothing DEF LocalTypes, OthersWait, PCs, Results
  <2>5. frozen = 0 /\ retired = 0 /\ retired' \in 0 .. 1
    BY <1>4, <2>2 DEF Matches
  <2>6. key_at' \in [Slots -> Keys \cup {NoKey}] /\ rank' \in [Slots -> Ranks]
    BY <1>1, <1>2, <1>4 DEF TypeOK, Ranks
  <2>7. LeafInv'
    BY <1>2, <2>2, <2>4, <2>5, <2>6, LoudIsOrderly
  <2>8. PICK k \in Contents : Contents' = Contents \ {k}
    BY <2>2
  <2>9. k \in Keys
    BY DEF LeafInv, RankedHoldKeys, Contents, KeysOf
  <2>10. Abstract!Delete(k)
    BY <1>2, <2>2, <2>5, <2>8 DEF Abstract!Delete
  <2> QED BY <2>7, <2>9, <2>10 DEF Correct, Abstract!Next
<1>5. CASE /\ seen' = [seen EXCEPT ![a] = rank]
           /\ rank[slot[a]] # removed_rank
           /\ UNCHANGED <<rank, retired, pc, key, slot, result>>
  <2>1. LocalTypes' /\ OthersWait(a) /\ seen'[a] = rank
    BY <1>1, <1>5 DEF LocalTypes, OthersWait, TypeOK
  <2>2. slot[a] \in Ranked(rank)
    \* The slot was ranked when the thread read it, so it has been in use
    \* since: it is not uninitialized.
    <3>1. slot[a] \in Ranked(seen[a])
      BY <1>2 DEF LeafInv, OperationsWellFormed
    <3>2. slot[a] \in Used
      BY <3>1 DEF LeafInv, SnapshotsValid
    <3> QED BY <3>2, <1>5 DEF Used, Ranked
  <2>3. Quiet(a) /\ Orderly(a)
    BY <1>2, <1>5, <2>1, <2>2 DEF Quiet, Orderly, OthersWait
  <2> QED BY <1>2, <2>1, <2>3, QuietIsCorrect
<1> QED BY <1>3, <1>4, <1>5 DEF RemoveExchange

\* Scan and EndScan only touch what belongs to the thread.
LEMMA ScanIsCorrect ==
  ASSUME LeafInv, NEW a \in Threads, Scan(a) \/ EndScan(a)
  PROVE  Correct
<1>1. TypeOK /\ LocalTypes
  BY DEF LeafInv, TypeOK, LocalTypes
<1>2. UNCHANGED <<rank, frozen, retired, key_at, met>> /\ a \notin Pending
      /\ met' \subseteq Threads
  BY <1>1 DEF Scan, EndScan, word, Pending, TypeOK
<1>3. CASE Scan(a)
  <2>1. LocalTypes' /\ OthersWait(a) /\ seen'[a] = rank /\ pc'[a] = "scan"
    BY <1>1, <1>3 DEF LocalTypes, OthersWait, TypeOK, Scan, Goto, PCs
  <2>2. Quiet(a) /\ Orderly(a)
    BY <1>2, <2>1 DEF Quiet, Orderly, OthersWait
  <2> QED BY <1>2, <2>1, <2>2, QuietIsCorrect
<1>4. CASE EndScan(a)
  <2>1. Quiet(a) /\ Orderly(a) /\ LocalTypes'
    BY <1>2, <1>4, ReturnIsQuiet DEF Results, EndScan
  <2> QED BY <1>2, <2>1, QuietIsCorrect
<1> QED BY <1>3, <1>4

\* Freeze, Commit and Thaw change the frozen bit only.
LEMMA SplitIsCorrect ==
  ASSUME LeafInv, NEW a \in Threads, Freeze(a) \/ Commit(a) \/ Thaw(a)
  PROVE  Correct
<1>1. TypeOK /\ LocalTypes
  BY DEF LeafInv, TypeOK, LocalTypes
<1>2. UNCHANGED <<rank, retired, key_at, met>> /\ a \notin Pending
      /\ met' \subseteq Threads
  BY <1>1 DEF Freeze, Commit, Thaw, word, Pending, TypeOK
<1>3. CASE Freeze(a)
  <2>1. LocalTypes' /\ OthersWait(a) /\ seen'[a] = rank /\ pc'[a] = "split"
    BY <1>1, <1>3 DEF LocalTypes, OthersWait, TypeOK, Freeze, Goto, PCs, Results
  <2>2. frozen = 0 /\ frozen' = 1 /\ \A b \in Threads : pc[b] # "split"
    BY <1>3 DEF Freeze
  <2>3. Quiet(a) /\ Orderly(a)
    BY <1>2, <2>1, <2>2 DEF Quiet, Orderly, OthersWait
  <2>4. LeafInv' /\ Contents' = Contents
    BY <1>2, <2>1, <2>2, <2>3, QuietOrderly
  <2> QED BY <1>2, <2>2, <2>4 DEF Correct, Abstract!Next, Abstract!Freeze
<1>4. CASE Commit(a)
  <2>1. frozen' = frozen
    BY <1>4 DEF Commit, word
  <2>2. Quiet(a) /\ Orderly(a) /\ LocalTypes'
    BY <1>2, <1>4, <2>1, ReturnIsQuiet DEF Results, Commit
  <2> QED BY <1>2, <2>1, <2>2, QuietIsCorrect
<1>5. CASE Thaw(a)
  <2>1. pc[a] = "split" /\ frozen = 1 /\ frozen' = 0
    BY <1>5 DEF Thaw, LeafInv, OperationsWellFormed
  <2>2. Quiet(a) /\ Orderly(a) /\ LocalTypes'
    BY <1>2, <1>5, <2>1, ReturnIsQuiet DEF Results, Thaw
  <2>3. LeafInv' /\ Contents' = Contents
    BY <1>2, <2>1, <2>2, QuietOrderly
  <2> QED BY <1>2, <2>1, <2>3 DEF Correct, Abstract!Next, Abstract!Thaw
<1> QED BY <1>3, <1>4, <1>5

-----------------------------------------------------------------------------
(* The theorems                                                             *)

\* A new leaf satisfies the invariant: a filled slot has its index as its
\* rank, and the slots before it are filled too.
LEMMA InitLeafInv == Init => LeafInv /\ Abstract!Init
<1> SUFFICES ASSUME Init PROVE LeafInv /\ Abstract!Init
  OBVIOUS
<1>1. /\ num_entries \in Nat \ {0} /\ removed_rank \in Nat
      /\ removed_rank > num_entries /\ uninit_rank = 0
  BY DimensionAssumption DEF uninit_rank
<1>2. key_at \in [Slots -> Keys \cup {NoKey}]
  BY DEF Init, Fillings
<1>3. \A i \in Slots : rank[i] = IF key_at[i] = NoKey THEN uninit_rank ELSE i
  BY DEF Init
<1>4. \A a \in Threads : pc[a] = "idle" /\ seen[a] = Zero
  BY DEF Init, Zero
<1>5. Pending = {} /\ PendingSlots = {}
  BY <1>4 DEF Pending, PendingSlots
<1>6. Ranked(rank) = {i \in Slots : key_at[i] # NoKey}
  BY <1>1, <1>3 DEF Ranked, Slots
<1>7. Used = Ranked(rank)
  BY <1>1, <1>3, <1>5, <1>6 DEF Used, Slots
<1>8. \A i \in Ranked(rank) : rank[i] = i /\ key_at[i] \in Keys /\ i \in Slots
  BY <1>2, <1>3, <1>6
<1>9. TypeOK
  <2>1. rank \in [Slots -> Ranks]
    BY <1>1 DEF Init, Ranks, Slots
  <2>2. 1 \in Slots
    BY <1>1 DEF Slots
  <2> QED BY <2>1, <2>2, <1>2, ZeroRanksNothing
          DEF TypeOK, Init, PCs, Results, NoKey, Zero
<1>10. RanksInOrder
  <2> SUFFICES ASSUME NEW i \in Ranked(rank), NEW j \in Ranked(rank)
               PROVE  /\ rank[i] < rank[j] <=> key_at[i] < key_at[j]
                      /\ i # j => key_at[i] # key_at[j]
    BY DEF RanksInOrder, InOrder
  <2>1. i \in Nat /\ j \in Nat /\ key_at[i] \in Nat /\ key_at[j] \in Nat
    <3>1. i \in Slots /\ j \in Slots /\ key_at[i] \in Keys /\ key_at[j] \in Keys
      BY <1>8
    <3>2. \A k \in Keys : k \in Nat
      BY KeysAssumption
    <3>3. \A l \in Slots : l \in Nat
      BY <1>1 DEF Slots
    <3> QED BY <3>1, <3>2, <3>3
  <2>2. key_at[i] # NoKey /\ key_at[j] # NoKey /\ i \in Slots /\ j \in Slots
    BY <1>6
  <2>3. /\ i < j => key_at[i] < key_at[j]
        /\ j < i => key_at[j] < key_at[i]
    BY <2>2 DEF Init, Fillings
  <2> QED BY <2>1, <2>3, <1>8
<1>11. RanksBounded
  <2> SUFFICES ASSUME NEW i \in Ranked(rank)
               PROVE  i <= Cardinality(Used)
    BY <1>8 DEF RanksBounded
  <2>1. i \in Slots /\ i \in Nat
    BY <1>1, <1>8 DEF Slots
  <2>2. 1 .. i \subseteq Used
    <3> SUFFICES ASSUME NEW j \in 1 .. i PROVE j \in Used
      OBVIOUS
    <3>1. j \in Slots
      BY <1>1, <2>1 DEF Slots
    <3>2. key_at[i] # NoKey
      BY <1>6
    <3>3. key_at[j] # NoKey
      BY SMTT(30), <2>1, <3>1, <3>2 DEF Init, Fillings
    <3> QED BY <1>6, <1>7, <3>1, <3>3
  <2>3. Used \in SUBSET Slots
    BY DEF Used
  <2>4. IsFiniteSet(Used) /\ Cardinality(Used) \in Nat
    BY <2>3, SlotsFinite
  <2>5. Cardinality(1 .. i) = i
    BY <2>1, FS_Interval
  <2>6. Cardinality(1 .. i) <= Cardinality(Used)
    BY <2>2, <2>4, FS_Subset
  <2> QED BY <2>5, <2>6
<1>12. SnapshotsValid
  BY <1>4, ZeroRanksNothing DEF SnapshotsValid, InOrder
<1>13. PendingOwned /\ OperationsWellFormed /\ RetiredIsEmpty /\ SplitLosesNothing
  BY <1>4, <1>5 DEF PendingOwned, OperationsWellFormed, RetiredIsEmpty,
                    SplitLosesNothing, Init
<1>14. RankedHoldKeys
  BY <1>8 DEF RankedHoldKeys
<1>15. Abstract!Init
  BY <1>8 DEF Init, Abstract!Init, Contents, KeysOf
<1> QED BY <1>9, <1>10, <1>11, <1>12, <1>13, <1>14, <1>15 DEF LeafInv

\* Every step keeps the invariant and is a step of the set of keys.
LEMMA NextLeafInv ==
  ASSUME LeafInv, [Next]_vars
  PROVE  LeafInv' /\ [Abstract!Next]_(Abstract!vars)
<1>1. CASE Next
  <2>1. PICK a \in Threads :
          \/ \E k \in Keys : Insert(a, k) \/ RemoveIf(a, k)
          \/ Reserve(a) \/ PostInsert(a) \/ Rollback(a)
          \/ RemoveExchange(a)
          \/ Scan(a) \/ EndScan(a)
          \/ Freeze(a) \/ Commit(a) \/ Thaw(a)
    BY <1>1 DEF Next
  <2>2. Correct
    BY <2>1, InsertIsCorrect, RemoveIfIsCorrect, ReserveIsCorrect,
       PostInsertIsCorrect, RollbackIsCorrect, RemoveExchangeIsCorrect,
       ScanIsCorrect, SplitIsCorrect
  <2> QED BY <2>2 DEF Correct
<1>2. CASE UNCHANGED vars
  <2>1. UNCHANGED <<rank, frozen, retired, key_at, pc, key, slot, seen, result, met>>
    BY <1>2 DEF vars
  <2>2. Contents' = Contents
    BY <2>1 DEF Contents, KeysOf, Ranked
  <2>3. Pending' = Pending /\ PendingSlots' = PendingSlots /\ Used' = Used
    BY <2>1 DEF Pending, PendingSlots, Used
  <2>4. TypeOK' /\ PendingOwned' /\ OperationsWellFormed' /\ RankedHoldKeys'
    BY <2>1, <2>3 DEF LeafInv, TypeOK, PendingOwned, OperationsWellFormed,
                      RankedHoldKeys, Ranked
  <2>5. RanksInOrder' /\ RanksBounded' /\ SnapshotsValid'
    BY <2>1, <2>3 DEF LeafInv, RanksInOrder, RanksBounded, SnapshotsValid,
                      InOrder, Ranked
  <2>6. RetiredIsEmpty' /\ SplitLosesNothing'
    BY <2>1, <2>2 DEF LeafInv, RetiredIsEmpty, SplitLosesNothing, KeysOf, Ranked
  <2> QED BY <2>1, <2>2, <2>4, <2>5, <2>6 DEF LeafInv, Abstract!vars
<1> QED BY <1>1, <1>2

\* LeafInv holds in every state of every run of leaf.rs's operations, for any
\* number of threads, keys and slots.
THEOREM LeafInvariant == Spec => []LeafInv
<1>1. Init => LeafInv
  BY InitLeafInv
<1>2. LeafInv /\ [Next]_vars => LeafInv'
  BY NextLeafInv
<1> QED BY <1>1, <1>2, PTL DEF Spec

\* Every field of the metadata stays in its range; in particular no rank
\* becomes the removed rank by being moved up (post_insert).
THEOREM LeafTypeCorrect == Spec => []TypeOK
<1>1. LeafInv => TypeOK
  BY DEF LeafInv
<1> QED BY <1>1, LeafInvariant, PTL

\* The ranks order the entries by their keys and no key is ranked twice,
\* whatever insertions and removals race for the metadata word.
THEOREM EntriesStayOrdered == Spec => []RanksInOrder
<1>1. LeafInv => RanksInOrder
  BY DEF LeafInv
<1> QED BY <1>1, LeafInvariant, PTL

\* No rank exceeds the number of entries ever put into the leaf, so a rank
\* always fits its field of the metadata.
THEOREM RanksStayBounded == Spec => []RanksBounded
<1>1. LeafInv => RanksBounded
  BY DEF LeafInv
<1> QED BY <1>1, LeafInvariant, PTL

\* However old the metadata a Scanner or an operation works on, the entries
\* it ranks are still in their slots and in order.
THEOREM SnapshotsStayValid == Spec => []SnapshotsValid
<1>1. LeafInv => SnapshotsValid
  BY DEF LeafInv
<1> QED BY <1>1, LeafInvariant, PTL

\* A retired leaf is empty: no insertion gets its entry into a leaf that is
\* about to be unlinked.
THEOREM RetiredLeavesAreEmpty == Spec => []RetiredIsEmpty
<1>1. LeafInv => RetiredIsEmpty
  BY DEF LeafInv
<1> QED BY <1>1, LeafInvariant, PTL

\* From freeze_and_distribute to the end of split_leaf the entries being
\* distributed are the entries of the leaf.
THEOREM SplitsLoseNothing == Spec => []SplitLosesNothing
<1>1. LeafInv => SplitLosesNothing
  BY DEF LeafInv
<1> QED BY <1>1, LeafInvariant, PTL

\* A leaf implements a set of keys that changes one key at a time, not while
\* it is frozen, and not after it has retired.
THEOREM LeafRefinesLeafSet == Spec => RefinesLeafSet
<1>1. Init => LeafInv /\ Abstract!Init
  BY InitLeafInv
<1>2. LeafInv /\ [Next]_vars => LeafInv' /\ [Abstract!Next]_(Abstract!vars)
  BY NextLeafInv
<1> QED BY <1>1, <1>2, PTL DEF Spec, RefinesLeafSet, Abstract!Spec

-----------------------------------------------------------------------------
(* The loops over the slots (module LeafScan)                               *)
(*                                                                         *)
(* A loop is a recursive function W of the number of slots it has visited. *)
(* Each loop has an operator that names this function, a lemma that says   *)
(* it exists and follows the loop's body, and a lemma with its invariant.  *)

\* Induction over the slots.
LEMMA SlotInduction ==
  ASSUME NEW G, 0 \in G, \A n \in Slots : n - 1 \in G => n \in G
  PROVE  \A n \in 0 .. num_entries : n \in G
<1> USE DimensionAssumption
<1> DEFINE B == {n \in 0 .. num_entries : n \notin G}
<1> SUFFICES ASSUME B # {} PROVE FALSE
  OBVIOUS
<1>1. B \subseteq Nat
  OBVIOUS
<1>2. PICK x \in B : \A y \in B : ~ (<<y, x>> \in OpToRel(<, Nat))
  <2> HIDE DEF B
  <2> QED BY <1>1, NatLessThanWellFounded, WFMin
<1>3. x \in Slots /\ x - 1 \in 0 .. num_entries
  BY DEF Slots
<1>4. <<x - 1, x>> \in OpToRel(<, Nat)
  BY <1>3 DEF OpToRel, Slots
<1>5. x - 1 \in G
  BY <1>2, <1>3, <1>4
<1> QED BY <1>3, <1>5

IsLoop(W, a, T) ==
  \A n \in 0 .. num_entries :
    W[n] = IF n = 0 THEN a ELSE T[<<W[n - 1], n>>]

\* A loop whose body T maps S to S has a value after each slot.
LEMMA LoopExists ==
  ASSUME NEW S, NEW a \in S, NEW T \in [S \X Slots -> S]
  PROVE  \E W \in [0 .. num_entries -> S] : IsLoop(W, a, T)
<1> USE DimensionAssumption
<1> DEFINE Upto(W, m) == /\ W[0] = a
                         /\ \A n \in 1 .. m : W[n] = T[<<W[n - 1], n>>]
           G == {m \in 0 .. num_entries :
                   \E W \in [0 .. num_entries -> S] : Upto(W, m)}
<1>1. 0 \in G
  <2> DEFINE V == [i \in 0 .. num_entries |-> a]
  <2>1. V \in [0 .. num_entries -> S] /\ Upto(V, 0)
    OBVIOUS
  <2> HIDE DEF V
  <2> QED BY <2>1
<1>2. ASSUME NEW m \in Slots, m - 1 \in G
      PROVE  m \in G
  <2>1. PICK W \in [0 .. num_entries -> S] : Upto(W, m - 1)
    BY <1>2
  <2>2. m - 1 \in 0 .. num_entries /\ m \in 0 .. num_entries
    BY DEF Slots
  <2> DEFINE v == T[<<W[m - 1], m>>]
             V == [W EXCEPT ![m] = v]
  <2>3. v \in S
    BY <2>2
  <2>4. V \in [0 .. num_entries -> S]
    BY <2>3
  <2>5. \A n \in 0 .. m - 1 : V[n] = W[n]
    BY <2>2
  <2>6. V[m] = v
    BY <2>2
  <2>7. ASSUME NEW n \in 1 .. m
        PROVE  V[n] = T[<<V[n - 1], n>>]
    <3>1. n - 1 \in 0 .. m - 1
      BY <2>2
    <3>2. V[n - 1] = W[n - 1]
      BY <3>1, <2>5
    <3>3. CASE n = m
      BY <3>3, <3>2, <2>6
    <3>4. CASE n # m
      <4>1. n \in 1 .. m - 1 /\ n \in 0 .. m - 1
        BY <3>4, <2>2
      <4>2. W[n] = T[<<W[n - 1], n>>]
        BY <4>1, <2>1
      <4> QED BY <4>1, <4>2, <3>2, <2>5
    <3> QED BY <3>3, <3>4
  <2>8. V[0] = a
    BY <2>1, <2>2, <2>5
  <2> HIDE DEF V
  <2> QED BY <2>2, <2>4, <2>7, <2>8
<1>3. num_entries \in G
  <2> HIDE DEF G
  <2> QED BY <1>1, <1>2, SlotInduction
<1>4. PICK W \in [0 .. num_entries -> S] : Upto(W, num_entries)
  BY <1>3
<1>5. \A n \in 0 .. num_entries : n = 0 \/ n \in 1 .. num_entries
  OBVIOUS
<1> QED BY <1>4, <1>5 DEF IsLoop

\* What the body keeps in S is in S after each slot.
LEMMA LoopTyped ==
  ASSUME NEW S, NEW V, V[0] \in S,
         \A n \in Slots : V[n - 1] \in S => V[n] \in S
  PROVE  \A n \in 0 .. num_entries : V[n] \in S
<1> DEFINE G == {n \in 0 .. num_entries : V[n] \in S}
<1>1. 0 \in G
  BY DimensionAssumption
<1>2. \A n \in Slots : n - 1 \in G => n \in G
  BY DimensionAssumption DEF Slots
<1> HIDE DEF G
<1>3. \A n \in 0 .. num_entries : n \in G
  BY <1>1, <1>2, SlotInduction
<1> QED BY <1>3 DEF G

-----------------------------------------------------------------------------
(* The searches                                                             *)

\* What is known of the metadata a search works on.
Legal(r) ==
  /\ r \in [Slots -> Ranks]
  /\ key_at \in [Slots -> Nat]
  /\ InOrder(r)

Windows ==
  [lo : 0 .. removed_rank, hi : 0 .. removed_rank, loSlot : 0 .. num_entries,
   hiSlot : 0 .. num_entries, eq : 0 .. num_entries]

\* Ranks compare like keys.
LEMMA LegalOrder ==
  ASSUME NEW r, Legal(r), NEW i \in Ranked(r), NEW j \in Ranked(r)
  PROVE  /\ r[i] \in 1 .. num_entries
         /\ i \in Slots /\ key_at[i] \in Nat
         /\ r[i] < r[j] <=> key_at[i] < key_at[j]
         /\ r[i] <= r[j] => key_at[i] <= key_at[j]
         /\ r[i] = r[j] => i = j
<1>1. /\ r[i] \in 1 .. num_entries /\ r[j] \in 1 .. num_entries
      /\ i \in Slots /\ j \in Slots
  BY RankRange DEF Legal
<1>2. key_at[i] \in Nat /\ key_at[j] \in Nat
  BY <1>1 DEF Legal
<1>3. /\ r[i] < r[j] <=> key_at[i] < key_at[j]
      /\ r[j] < r[i] <=> key_at[j] < key_at[i]
      /\ i # j => key_at[i] # key_at[j]
  BY DEF Legal, InOrder
<1> QED BY <1>1, <1>2, <1>3, DimensionAssumption

\* A slot inside a window is ranked.
LEMMA WithinIsRanked ==
  ASSUME NEW r, Legal(r), NEW i \in Slots,
         NEW lo \in 0 .. removed_rank, NEW hi \in 0 .. removed_rank,
         r[i] < hi, r[i] > lo
  PROVE  i \in Ranked(r)
<1>1. r[i] \in Ranks
  BY DEF Legal
<1>2. r[i] \in Nat
  BY <1>1, DimensionAssumption DEF Ranks, uninit_rank
<1> QED BY <1>2, DimensionAssumption DEF Ranked, uninit_rank

\* A ranked slot outside of a window is at its lower end or below, or at its
\* upper end or above.
LEMMA OutsideWindow ==
  ASSUME NEW r, Legal(r), NEW i \in Ranked(r),
         NEW lo \in 0 .. removed_rank, NEW hi \in 0 .. removed_rank,
         ~ (r[i] < hi /\ r[i] > lo)
  PROVE  r[i] <= lo \/ r[i] >= hi
<1>1. r[i] \in 1 .. num_entries
  BY LegalOrder
<1> QED BY <1>1, DimensionAssumption


SearchLoop(r, k) ==
  CHOOSE W : W = [n \in 0 .. num_entries |->
                    IF n = 0 THEN Window ELSE Narrow(r, k, W[n - 1], n)]

\* The loop of search_slot and min_greater_equal.
LEMMA SearchLoopExists ==
  ASSUME NEW r, Legal(r), NEW k
  PROVE  \A n \in Slots :
           /\ SearchLoop(r, k)[0] = Window
           /\ SearchLoop(r, k)[n] = Narrow(r, k, SearchLoop(r, k)[n - 1], n)
           /\ SearchLoop(r, k)[n] \in Windows
           /\ SearchLoop(r, k)[n - 1] \in Windows
<1> USE DimensionAssumption
<1>0. PICK T : T = [x \in Windows \X Slots |-> Narrow(r, k, x[1], x[2])]
  OBVIOUS
<1>1. Window \in Windows
  BY DEF Window, Windows, NoSlot
<1>2. ASSUME NEW w \in Windows, NEW i \in Slots
      PROVE  Narrow(r, k, w, i) \in Windows
  <2>1. r[i] \in 0 .. removed_rank /\ i \in 0 .. num_entries
    BY DEF Legal, Ranks, Slots, uninit_rank
  <2> QED BY <2>1 DEF Windows, Narrow
<1>3. T \in [Windows \X Slots -> Windows]
  BY <1>0, <1>2
<1>4. \A w \in Windows, i \in Slots : T[<<w, i>>] = Narrow(r, k, w, i)
  BY <1>0
<1>5. \A n \in Slots :
        n # 0 /\ n - 1 \in 0 .. num_entries /\ n \in 0 .. num_entries
  BY DEF Slots
<1>6. \A n \in 0 .. num_entries : n # 0 => n \in Slots
  BY DEF Slots
<1>7. \E W : W = [n \in 0 .. num_entries |->
                  IF n = 0 THEN Window ELSE Narrow(r, k, W[n - 1], n)]
  <2>1. PICK W \in [0 .. num_entries -> Windows] : IsLoop(W, Window, T)
    BY <1>1, <1>3, LoopExists
  <2>2. \A n \in Slots : T[<<W[n - 1], n>>] = Narrow(r, k, W[n - 1], n)
    BY <1>4, <1>5
  <2>3. \A n \in 0 .. num_entries :
          W[n] = IF n = 0 THEN Window ELSE Narrow(r, k, W[n - 1], n)
    BY <2>1, <2>2, <1>6 DEF IsLoop
  <2>4. W = [n \in 0 .. num_entries |-> W[n]]
    OBVIOUS
  <2> QED BY <2>3, <2>4
<1>8. PICK V : /\ V = SearchLoop(r, k)
               /\ V = [n \in 0 .. num_entries |->
                         IF n = 0 THEN Window ELSE Narrow(r, k, V[n - 1], n)]
  BY <1>7, Zenon DEF SearchLoop
<1>9. \A n \in 0 .. num_entries :
        V[n] = IF n = 0 THEN Window ELSE Narrow(r, k, V[n - 1], n)
  BY <1>8, Zenon
<1>10. 0 \in 0 .. num_entries
  OBVIOUS
<1>11. V[0] = Window /\ \A n \in Slots : V[n] = Narrow(r, k, V[n - 1], n)
  BY <1>5, <1>9, <1>10, Zenon
<1>12. \A n \in Slots : V[n - 1] \in Windows => V[n] \in Windows
  BY <1>2, <1>11
<1>13. \A n \in 0 .. num_entries : V[n] \in Windows
  BY <1>1, <1>11, <1>12, LoopTyped
<1>14. \A n \in Slots : V[n] \in Windows /\ V[n - 1] \in Windows
  BY <1>5, <1>13
<1> QED BY <1>8, <1>11, <1>14, Zenon

\* What a window w says of the first n slots: its ends are ranks of slots in L
\* and in H, and it holds no slot of theirs among the first n.
Narrowed(r, L, H, w, n) ==
  /\ \/ w.lo = 0 /\ w.loSlot = NoSlot
     \/ w.loSlot \in L /\ r[w.loSlot] = w.lo
  /\ \/ w.hi = removed_rank /\ w.hiSlot = NoSlot
     \/ w.hiSlot \in H /\ r[w.hiSlot] = w.hi
  /\ \A i \in 1 .. n : /\ i \in L => r[i] <= w.lo
                       /\ i \in H => r[i] >= w.hi

\* A ranked slot that a window excludes has a key of the side it is on.
LEMMA ExcludedSide ==
  ASSUME NEW r, Legal(r), NEW k \in Nat, NEW i \in Ranked(r),
         NEW lo \in 0 .. removed_rank, NEW hi \in 0 .. removed_rank,
         lo = 0 \/ \E l \in Ranked(r) : key_at[l] < k /\ r[l] = lo,
         hi = removed_rank \/ \E h \in Ranked(r) : key_at[h] >= k /\ r[h] = hi,
         ~ (r[i] < hi /\ r[i] > lo)
  PROVE  \/ key_at[i] < k /\ r[i] <= lo
         \/ key_at[i] >= k /\ r[i] >= hi /\ hi # removed_rank
<1> USE DimensionAssumption
<1>1. r[i] \in 1 .. num_entries /\ key_at[i] \in Nat
  BY LegalOrder
<1>2. CASE r[i] <= lo
  <2>1. PICK l \in Ranked(r) : key_at[l] < k /\ r[l] = lo
    BY <1>1, <1>2
  <2>2. key_at[i] <= key_at[l] /\ key_at[l] \in Nat
    BY <1>2, <2>1, LegalOrder
  <2> QED BY <1>1, <1>2, <2>1, <2>2
<1>3. CASE r[i] >= hi
  <2>1. PICK h \in Ranked(r) : key_at[h] >= k /\ r[h] = hi
    BY <1>1, <1>3
  <2>2. key_at[h] <= key_at[i] /\ key_at[h] \in Nat
    BY <1>1, <1>3, <2>1, LegalOrder
  <2>3. hi # removed_rank
    BY <1>1, <1>3
  <2> QED BY <1>1, <1>3, <2>1, <2>2, <2>3
<1> QED BY <1>1, <1>2, <1>3

\* The invariant of the loop of search_slot and min_greater_equal.
SearchInv(r, k, w, n) ==
  /\ w.eq # NoSlot => w.eq \in Ranked(r) /\ key_at[w.eq] = k
  /\ w.eq = NoSlot => /\ Narrowed(r, Below(r, k), Above(r, k), w, n)
                      /\ \A i \in 1 .. n : i \in Ranked(r) => key_at[i] # k

\* Each turn of the loop keeps its invariant.
LEMMA NarrowKeeps ==
  ASSUME NEW r, Legal(r), NEW k \in Nat, NEW w \in Windows, NEW n \in Slots,
         SearchInv(r, k, w, n - 1)
  PROVE  SearchInv(r, k, Narrow(r, k, w, n), n)
<1> USE DimensionAssumption
<1> DEFINE v == Narrow(r, k, w, n)
<1> SUFFICES SearchInv(r, k, v, n)
  OBVIOUS
<1>1. CASE w.eq # NoSlot
  BY <1>1 DEF Narrow, SearchInv
<1>2. CASE w.eq = NoSlot
  <2>1. /\ w.lo \in 0 .. removed_rank /\ w.hi \in 0 .. removed_rank
        /\ w.loSlot \in 0 .. num_entries /\ w.hiSlot \in 0 .. num_entries
    BY DEF Windows
  <2>2. \A i \in 1 .. n : i # n => i \in 1 .. n - 1
    BY DEF Slots
  <2>3. /\ \/ w.lo = 0 /\ w.loSlot = NoSlot
           \/ w.loSlot \in Below(r, k) /\ r[w.loSlot] = w.lo
        /\ \/ w.hi = removed_rank /\ w.hiSlot = NoSlot
           \/ w.hiSlot \in Above(r, k) /\ r[w.hiSlot] = w.hi
        /\ \A i \in 1 .. n - 1 : /\ i \in Below(r, k) => r[i] <= w.lo
                                 /\ i \in Above(r, k) => r[i] >= w.hi
                                 /\ i \in Ranked(r) => key_at[i] # k
    BY <1>2 DEF SearchInv, Narrowed
  <2>4. \A i \in Ranked(r) : r[i] \in Nat /\ key_at[i] \in Nat
    BY LegalOrder
  <2>5. Below(r, k) \subseteq Ranked(r) /\ Above(r, k) \subseteq Ranked(r)
    BY DEF Below, Above
  <2>6. CASE ~Within(w, r[n])
    <3>1. v = w
      BY <2>6 DEF Narrow
    <3>2. n \in Ranked(r) => /\ n \in Below(r, k) => r[n] <= w.lo
                             /\ n \in Above(r, k) => r[n] >= w.hi
                             /\ key_at[n] # k
      <4> SUFFICES ASSUME n \in Ranked(r)
                   PROVE  /\ n \in Below(r, k) => r[n] <= w.lo
                          /\ n \in Above(r, k) => r[n] >= w.hi
                          /\ key_at[n] # k
        OBVIOUS
      <4>1. \/ w.lo = 0
            \/ \E l \in Ranked(r) : key_at[l] < k /\ r[l] = w.lo
        BY <2>3 DEF Below
      <4>2. \/ w.hi = removed_rank
            \/ \E h \in Ranked(r) : key_at[h] >= k /\ r[h] = w.hi
        BY <2>3, <2>4 DEF Above
      <4>3. ~ (r[n] < w.hi /\ r[n] > w.lo)
        BY <2>6 DEF Within
      <4>4. \/ key_at[n] < k /\ r[n] <= w.lo
            \/ key_at[n] >= k /\ r[n] >= w.hi /\ w.hi # removed_rank
        BY <2>1, <4>1, <4>2, <4>3, ExcludedSide
      <4>5. CASE key_at[n] < k /\ r[n] <= w.lo
        BY <4>5, <2>4 DEF Above
      <4>6. CASE key_at[n] >= k /\ r[n] >= w.hi /\ w.hi # removed_rank
        <5>1. w.hiSlot \in Above(r, k) /\ r[w.hiSlot] <= r[n]
          BY <4>6, <2>1, <2>3, <2>4
        <5>2. key_at[w.hiSlot] > k /\ key_at[w.hiSlot] <= key_at[n]
          BY <5>1, <2>5, LegalOrder DEF Above
        <5> QED BY <4>6, <5>1, <5>2, <2>4, <2>5 DEF Below
      <4> QED BY <4>4, <4>5, <4>6
    <3> QED BY <1>2, <2>2, <2>3, <2>5, <3>1, <3>2 DEF SearchInv, Narrowed
  <2>7. CASE Within(w, r[n])
    <3>1. r[n] < w.hi /\ r[n] > w.lo
      BY <2>7 DEF Within
    <3>2. n \in Ranked(r)
      BY <3>1, <2>1, WithinIsRanked
    <3>3. n # NoSlot /\ n \in 0 .. num_entries
      BY DEF Slots, NoSlot
    <3>4. CASE key_at[n] < k
      <4>1. v = [w EXCEPT !.lo = r[n], !.loSlot = n]
        BY <1>2, <2>7, <3>4 DEF Narrow
      <4>2. /\ v.lo = r[n] /\ v.loSlot = n /\ v.hi = w.hi
            /\ v.hiSlot = w.hiSlot /\ v.eq = w.eq
        BY <4>1 DEF Windows
      <4>3. n \in Below(r, k) /\ n \notin Above(r, k)
        BY <3>2, <3>4, <2>4 DEF Below, Above
      <4>4. \A i \in 1 .. n - 1 : i \in Below(r, k) => r[i] <= r[n]
        BY <2>1, <2>3, <2>4, <2>5, <3>1, <3>2
      <4> HIDE DEF v
      <4> QED BY <1>2, <2>2, <2>3, <2>4, <3>2, <3>4, <4>2, <4>3, <4>4
              DEF SearchInv, Narrowed
    <3>5. CASE key_at[n] > k
      <4>1. v = [w EXCEPT !.hi = r[n], !.hiSlot = n]
        BY <1>2, <2>4, <2>7, <3>2, <3>5 DEF Narrow
      <4>2. /\ v.hi = r[n] /\ v.hiSlot = n /\ v.lo = w.lo
            /\ v.loSlot = w.loSlot /\ v.eq = w.eq
        BY <4>1 DEF Windows
      <4>3. n \in Above(r, k) /\ n \notin Below(r, k)
        BY <3>2, <3>5, <2>4 DEF Below, Above
      <4>4. \A i \in 1 .. n - 1 : i \in Above(r, k) => r[i] >= r[n]
        BY <2>1, <2>3, <2>4, <2>5, <3>1, <3>2
      <4> HIDE DEF v
      <4> QED BY <1>2, <2>2, <2>3, <2>4, <3>2, <3>5, <4>2, <4>3, <4>4
              DEF SearchInv, Narrowed
    <3>6. CASE key_at[n] = k
      <4>1. v = [w EXCEPT !.eq = n]
        BY <1>2, <2>7, <3>6 DEF Narrow
      <4>2. v.eq = n
        BY <4>1 DEF Windows
      <4> HIDE DEF v
      <4> QED BY <3>2, <3>3, <3>6, <4>2 DEF SearchInv
    <3> QED BY <3>2, <3>4, <3>5, <3>6, <2>4
  <2> QED BY <2>6, <2>7
<1> QED BY <1>1, <1>2

\* search_slot and min_greater_equal find what they look for.
LEMMA SearchFinds ==
  ASSUME NEW r, Legal(r), NEW k \in Nat
  PROVE  LET here == {i \in Ranked(r) : key_at[i] = k}
             geq  == here \cup Above(r, k)
         IN  /\ Finds(search_slot(r, k), here)
             /\ Finds(min_greater_equal(r, k),
                      {i \in geq : \A j \in geq : key_at[i] <= key_at[j]})
<1> USE DimensionAssumption
<1> DEFINE W == SearchLoop(r, k)
           w == W[num_entries]
           G == {n \in 0 .. num_entries : SearchInv(r, k, W[n], n)}
           here == {i \in Ranked(r) : key_at[i] = k}
           geq == here \cup Above(r, k)
           least == {i \in geq : \A j \in geq : key_at[i] <= key_at[j]}
<1>1. \A n \in Slots : /\ W[0] = Window
                       /\ W[n] = Narrow(r, k, W[n - 1], n)
                       /\ W[n] \in Windows /\ W[n - 1] \in Windows
  BY SearchLoopExists
<1>2. num_entries \in Slots
  BY DEF Slots
<1>3. 0 \in G
  <2>1. W[0] = Window
    BY <1>1, <1>2
  <2> HIDE DEF W
  <2> QED BY <2>1 DEF SearchInv, Narrowed, Window
<1>4. \A n \in Slots : n - 1 \in G => n \in G
  <2> HIDE DEF W
  <2> SUFFICES ASSUME NEW n \in Slots, SearchInv(r, k, W[n - 1], n - 1)
               PROVE  SearchInv(r, k, W[n], n)
    BY DEF Slots
  <2> QED BY <1>1, NarrowKeeps
<1>5. SearchInv(r, k, w, num_entries) /\ w \in Windows
  <2> HIDE DEF G, W
  <2>1. num_entries \in G
    BY <1>3, <1>4, SlotInduction
  <2> QED BY <2>1, <1>1, <1>2 DEF G
<1>6. /\ search_slot(r, k) = w.eq
      /\ min_greater_equal(r, k) = IF w.eq # NoSlot THEN w.eq ELSE w.hiSlot
  BY Zenon DEF search_slot, min_greater_equal, ForSlots, SearchLoop
<1> HIDE DEF w
<1>7. \A i \in Ranked(r) : i \in 1 .. num_entries /\ i # NoSlot
                           /\ key_at[i] \in Nat /\ r[i] \in 1 .. num_entries
  BY LegalOrder DEF Slots, NoSlot
<1>8. Finds(search_slot(r, k), here)
  BY <1>5, <1>6, <1>7 DEF Finds, SearchInv
<1>9. Finds(min_greater_equal(r, k), least)
  <2>1. CASE w.eq # NoSlot
    <3>1. w.eq \in here
      BY <2>1, <1>5 DEF SearchInv
    <3>2. \A j \in geq : k <= key_at[j]
      BY <1>7 DEF Above
    <3>3. w.eq \in least
      BY <3>1, <3>2
    <3> HIDE DEF least
    <3> QED BY <2>1, <3>3, <1>6 DEF Finds
  <2>2. CASE w.eq = NoSlot
    <3>1. here = {} /\ geq = Above(r, k)
      BY <2>2, <1>5, <1>7 DEF SearchInv
    <3>2. Narrowed(r, Below(r, k), Above(r, k), w, num_entries)
      BY <2>2, <1>5 DEF SearchInv
    <3>3. \A i \in Above(r, k) : i \in Ranked(r)
      BY DEF Above
    <3>4. \A i \in Above(r, k) : r[i] >= w.hi
      BY <3>2, <3>3, <1>7 DEF Narrowed
    <3>5. CASE Above(r, k) = {}
      <4>1. w.hiSlot = NoSlot
        BY <3>5, <3>2 DEF Narrowed
      <4> QED BY <2>2, <3>1, <3>5, <4>1, <1>6 DEF Finds
    <3>6. CASE Above(r, k) # {}
      <4>1. w.hi # removed_rank
        BY <3>3, <3>4, <3>6, <1>7
      <4>2. w.hiSlot \in Above(r, k) /\ r[w.hiSlot] = w.hi
        BY <3>2, <4>1 DEF Narrowed
      <4>3. \A j \in Above(r, k) : key_at[w.hiSlot] <= key_at[j]
        BY <3>3, <3>4, <4>2, LegalOrder
      <4>4. w.hiSlot \in least
        BY <3>1, <4>2, <4>3
      <4> HIDE DEF least
      <4> QED BY <2>2, <4>4, <1>6 DEF Finds
    <3> QED BY <3>5, <3>6
  <2> QED BY <2>1, <2>2
<1> QED BY <1>8, <1>9

LessLoop(r, k) ==
  CHOOSE W : W = [n \in 0 .. num_entries |->
                    IF n = 0 THEN Window ELSE NarrowBelow(r, k, W[n - 1], n)]

\* The loop of max_less.
LEMMA LessLoopExists ==
  ASSUME NEW r, Legal(r), NEW k
  PROVE  \A n \in Slots :
           /\ LessLoop(r, k)[0] = Window
           /\ LessLoop(r, k)[n] = NarrowBelow(r, k, LessLoop(r, k)[n - 1], n)
           /\ LessLoop(r, k)[n] \in Windows
           /\ LessLoop(r, k)[n - 1] \in Windows
<1> USE DimensionAssumption
<1>0. PICK T : T = [x \in Windows \X Slots |-> NarrowBelow(r, k, x[1], x[2])]
  OBVIOUS
<1>1. Window \in Windows
  BY DEF Window, Windows, NoSlot
<1>2. ASSUME NEW w \in Windows, NEW i \in Slots
      PROVE  NarrowBelow(r, k, w, i) \in Windows
  <2>1. r[i] \in 0 .. removed_rank /\ i \in 0 .. num_entries
    BY DEF Legal, Ranks, Slots, uninit_rank
  <2> QED BY <2>1 DEF Windows, NarrowBelow
<1>3. T \in [Windows \X Slots -> Windows]
  BY <1>0, <1>2
<1>4. \A w \in Windows, i \in Slots : T[<<w, i>>] = NarrowBelow(r, k, w, i)
  BY <1>0
<1>5. \A n \in Slots :
        n # 0 /\ n - 1 \in 0 .. num_entries /\ n \in 0 .. num_entries
  BY DEF Slots
<1>6. \A n \in 0 .. num_entries : n # 0 => n \in Slots
  BY DEF Slots
<1>7. \E W : W = [n \in 0 .. num_entries |->
                  IF n = 0 THEN Window ELSE NarrowBelow(r, k, W[n - 1], n)]
  <2>1. PICK W \in [0 .. num_entries -> Windows] : IsLoop(W, Window, T)
    BY <1>1, <1>3, LoopExists
  <2>2. \A n \in Slots : T[<<W[n - 1], n>>] = NarrowBelow(r, k, W[n - 1], n)
    BY <1>4, <1>5
  <2>3. \A n \in 0 .. num_entries :
          W[n] = IF n = 0 THEN Window ELSE NarrowBelow(r, k, W[n - 1], n)
    BY <2>1, <2>2, <1>6 DEF IsLoop
  <2>4. W = [n \in 0 .. num_entries |-> W[n]]
    OBVIOUS
  <2> QED BY <2>3, <2>4
<1>8. PICK V : /\ V = LessLoop(r, k)
               /\ V = [n \in 0 .. num_entries |->
                         IF n = 0 THEN Window ELSE NarrowBelow(r, k, V[n - 1], n)]
  BY <1>7, Zenon DEF LessLoop
<1>9. \A n \in 0 .. num_entries :
        V[n] = IF n = 0 THEN Window ELSE NarrowBelow(r, k, V[n - 1], n)
  BY <1>8, Zenon
<1>10. 0 \in 0 .. num_entries
  OBVIOUS
<1>11. V[0] = Window /\ \A n \in Slots : V[n] = NarrowBelow(r, k, V[n - 1], n)
  BY <1>5, <1>9, <1>10, Zenon
<1>12. \A n \in Slots : V[n - 1] \in Windows => V[n] \in Windows
  BY <1>2, <1>11
<1>13. \A n \in 0 .. num_entries : V[n] \in Windows
  BY <1>1, <1>11, <1>12, LoopTyped
<1>14. \A n \in Slots : V[n] \in Windows /\ V[n - 1] \in Windows
  BY <1>5, <1>13
<1> QED BY <1>8, <1>11, <1>14, Zenon

\* Each turn of the loop of max_less keeps its invariant.
LEMMA NarrowBelowKeeps ==
  ASSUME NEW r, Legal(r), NEW k \in Nat, NEW w \in Windows, NEW n \in Slots,
         Narrowed(r, Below(r, k), Ranked(r) \ Below(r, k), w, n - 1)
  PROVE  Narrowed(r, Below(r, k), Ranked(r) \ Below(r, k),
                  NarrowBelow(r, k, w, n), n)
<1> USE DimensionAssumption
<1> DEFINE v == NarrowBelow(r, k, w, n)
           L == Below(r, k)
           H == Ranked(r) \ Below(r, k)
<1> SUFFICES Narrowed(r, L, H, v, n)
  OBVIOUS
<1>1. /\ w.lo \in 0 .. removed_rank /\ w.hi \in 0 .. removed_rank
      /\ w.loSlot \in 0 .. num_entries /\ w.hiSlot \in 0 .. num_entries
  BY DEF Windows
<1>2. \A i \in 1 .. n : i # n => i \in 1 .. n - 1
  BY DEF Slots
<1>3. /\ \/ w.lo = 0 /\ w.loSlot = NoSlot
         \/ w.loSlot \in L /\ r[w.loSlot] = w.lo
      /\ \/ w.hi = removed_rank /\ w.hiSlot = NoSlot
         \/ w.hiSlot \in H /\ r[w.hiSlot] = w.hi
      /\ \A i \in 1 .. n - 1 : /\ i \in L => r[i] <= w.lo
                               /\ i \in H => r[i] >= w.hi
  BY DEF Narrowed
<1>4. \A i \in Ranked(r) : r[i] \in Nat /\ key_at[i] \in Nat
  BY LegalOrder
<1>5. /\ L \subseteq Ranked(r) /\ H \subseteq Ranked(r)
      /\ \A i \in Ranked(r) : /\ i \in L <=> key_at[i] < k
                              /\ i \in H <=> key_at[i] >= k
  BY <1>4 DEF Below
<1> HIDE DEF L, H
<1>6. CASE ~Within(w, r[n])
  <2>1. v = w
    BY <1>6 DEF NarrowBelow
  <2>2. ASSUME n \in Ranked(r)
        PROVE  (n \in L => r[n] <= w.lo) /\ (n \in H => r[n] >= w.hi)
    <3>1. \/ w.lo = 0
          \/ \E l \in Ranked(r) : key_at[l] < k /\ r[l] = w.lo
      BY <1>3, <1>5
    <3>2. \/ w.hi = removed_rank
          \/ \E h \in Ranked(r) : key_at[h] >= k /\ r[h] = w.hi
      BY <1>3, <1>5
    <3>3. ~ (r[n] < w.hi /\ r[n] > w.lo)
      BY <1>6 DEF Within
    <3>4. \/ key_at[n] < k /\ r[n] <= w.lo
          \/ key_at[n] >= k /\ r[n] >= w.hi /\ w.hi # removed_rank
      BY <2>2, <1>1, <3>1, <3>2, <3>3, ExcludedSide
    <3> QED BY <2>2, <3>4, <1>4, <1>5
  <2> QED BY <1>2, <1>3, <1>5, <2>1, <2>2 DEF Narrowed
<1>7. CASE Within(w, r[n])
  <2>1. r[n] < w.hi /\ r[n] > w.lo
    BY <1>7 DEF Within
  <2>2. n \in Ranked(r)
    BY <2>1, <1>1, WithinIsRanked
  <2>3. CASE key_at[n] < k
    <3>1. v = [w EXCEPT !.lo = r[n], !.loSlot = n]
      BY <1>7, <2>3 DEF NarrowBelow
    <3>2. /\ v.lo = r[n] /\ v.loSlot = n /\ v.hi = w.hi
          /\ v.hiSlot = w.hiSlot
      BY <3>1 DEF Windows
    <3>3. n \in L /\ n \notin H
      BY <2>2, <2>3, <1>4, <1>5
    <3>4. \A i \in 1 .. n - 1 : i \in L => r[i] <= r[n]
      BY <1>1, <1>3, <1>4, <1>5, <2>1, <2>2
    <3> HIDE DEF v
    <3> QED BY <1>2, <1>3, <1>4, <2>2, <3>2, <3>3, <3>4 DEF Narrowed
  <2>4. CASE key_at[n] >= k
    <3>1. v = [w EXCEPT !.hi = r[n], !.hiSlot = n]
      BY <1>4, <1>7, <2>2, <2>4 DEF NarrowBelow
    <3>2. /\ v.hi = r[n] /\ v.hiSlot = n /\ v.lo = w.lo
          /\ v.loSlot = w.loSlot
      BY <3>1 DEF Windows
    <3>3. n \in H /\ n \notin L
      BY <2>2, <2>4, <1>4, <1>5
    <3>4. \A i \in 1 .. n - 1 : i \in H => r[i] >= r[n]
      BY <1>1, <1>3, <1>4, <1>5, <2>1, <2>2
    <3> HIDE DEF v
    <3> QED BY <1>2, <1>3, <1>4, <2>2, <3>2, <3>3, <3>4 DEF Narrowed
  <2> QED BY <2>2, <2>3, <2>4, <1>4
<1> QED BY <1>6, <1>7

\* A slot of the highest rank in a set is the slot of the greatest key.
LEMMA HighestFinds ==
  ASSUME NEW r, Legal(r), NEW L, L \subseteq Ranked(r),
         NEW lo \in Nat, NEW l,
         (lo = 0 /\ l = NoSlot) \/ (l \in L /\ r[l] = lo),
         \A i \in L : r[i] <= lo
  PROVE  Finds(l, {i \in L : \A j \in L : key_at[i] >= key_at[j]})
<1>1. CASE L = {}
  BY <1>1 DEF Finds
<1>2. CASE L # {}
  <2>1. lo # 0
    BY <1>2, LegalOrder, DimensionAssumption
  <2>2. l \in L /\ r[l] = lo
    BY <2>1
  <2>3. \A j \in L : key_at[j] <= key_at[l]
    BY <2>2, LegalOrder
  <2>4. \A j \in L : key_at[j] \in Nat
    BY LegalOrder
  <2>5. \A j \in L : key_at[l] >= key_at[j]
    BY <2>2, <2>3, <2>4
  <2> QED BY <2>2, <2>5 DEF Finds
<1> QED BY <1>1, <1>2

\* max_less finds the slot of the greatest smaller key.
LEMMA LessFinds ==
  ASSUME NEW r, Legal(r), NEW k \in Nat
  PROVE  Finds(max_less(r, k),
               {i \in Below(r, k) :
                  \A j \in Below(r, k) : key_at[i] >= key_at[j]})
<1> USE DimensionAssumption
<1> DEFINE W == LessLoop(r, k)
           w == W[num_entries]
           H == Ranked(r) \ Below(r, k)
           G == {n \in 0 .. num_entries : Narrowed(r, Below(r, k), H, W[n], n)}
<1>1. \A n \in Slots : /\ W[0] = Window
                       /\ W[n] = NarrowBelow(r, k, W[n - 1], n)
                       /\ W[n] \in Windows /\ W[n - 1] \in Windows
  BY LessLoopExists
<1>2. num_entries \in Slots
  BY DEF Slots
<1>3. 0 \in G
  <2>1. W[0] = Window
    BY <1>1, <1>2
  <2> HIDE DEF W, H
  <2> QED BY <2>1 DEF Narrowed, Window
<1>4. \A n \in Slots : n - 1 \in G => n \in G
  <2> HIDE DEF W
  <2> SUFFICES ASSUME NEW n \in Slots, Narrowed(r, Below(r, k), H, W[n - 1], n - 1)
               PROVE  Narrowed(r, Below(r, k), H, W[n], n)
    BY DEF Slots
  <2> QED BY <1>1, NarrowBelowKeeps
<1>5. Narrowed(r, Below(r, k), H, w, num_entries) /\ w \in Windows
  <2> HIDE DEF G, W
  <2>1. num_entries \in G
    BY <1>3, <1>4, SlotInduction
  <2> QED BY <2>1, <1>1, <1>2 DEF G
<1>6. max_less(r, k) = w.loSlot
  BY Zenon DEF max_less, ForSlots, LessLoop
<1> HIDE DEF w, H
<1>7. Below(r, k) \subseteq Ranked(r)
  BY DEF Below
<1>8. \A i \in Below(r, k) : i \in 1 .. num_entries
  BY <1>7, LegalOrder DEF Slots
<1>9. /\ w.lo \in Nat
      /\ (w.lo = 0 /\ w.loSlot = NoSlot)
           \/ (w.loSlot \in Below(r, k) /\ r[w.loSlot] = w.lo)
      /\ \A i \in Below(r, k) : r[i] <= w.lo
  BY <1>5, <1>8 DEF Narrowed, Windows
<1>10. Finds(w.loSlot, {i \in Below(r, k) :
                          \A j \in Below(r, k) : key_at[i] >= key_at[j]})
  BY <1>7, <1>9, HighestFinds
<1> QED BY <1>6, <1>10

\* One turn of the loop of max_entry.
Highest(r, w, i) ==
  IF r[i] > w.lo /\ r[i] # removed_rank
  THEN [w EXCEPT !.lo = r[i], !.loSlot = i] ELSE w

MaxLoop(r) ==
  CHOOSE W : W = [n \in 0 .. num_entries |->
                    IF n = 0 THEN Window ELSE Highest(r, W[n - 1], n)]

\* The loop of max_entry.
LEMMA MaxLoopExists ==
  ASSUME NEW r, Legal(r)
  PROVE  \A n \in Slots :
           /\ MaxLoop(r)[0] = Window
           /\ MaxLoop(r)[n] = Highest(r, MaxLoop(r)[n - 1], n)
           /\ MaxLoop(r)[n] \in Windows
           /\ MaxLoop(r)[n - 1] \in Windows
<1> USE DimensionAssumption
<1>0. PICK T : T = [x \in Windows \X Slots |-> Highest(r, x[1], x[2])]
  OBVIOUS
<1>1. Window \in Windows
  BY DEF Window, Windows, NoSlot
<1>2. ASSUME NEW w \in Windows, NEW i \in Slots
      PROVE  Highest(r, w, i) \in Windows
  <2>1. r[i] \in 0 .. removed_rank /\ i \in 0 .. num_entries
    BY DEF Legal, Ranks, Slots, uninit_rank
  <2> QED BY <2>1 DEF Windows, Highest
<1>3. T \in [Windows \X Slots -> Windows]
  BY <1>0, <1>2
<1>4. \A w \in Windows, i \in Slots : T[<<w, i>>] = Highest(r, w, i)
  BY <1>0
<1>5. \A n \in Slots :
        n # 0 /\ n - 1 \in 0 .. num_entries /\ n \in 0 .. num_entries
  BY DEF Slots
<1>6. \A n \in 0 .. num_entries : n # 0 => n \in Slots
  BY DEF Slots
<1>7. \E W : W = [n \in 0 .. num_entries |->
                  IF n = 0 THEN Window ELSE Highest(r, W[n - 1], n)]
  <2>1. PICK W \in [0 .. num_entries -> Windows] : IsLoop(W, Window, T)
    BY <1>1, <1>3, LoopExists
  <2>2. \A n \in Slots : T[<<W[n - 1], n>>] = Highest(r, W[n - 1], n)
    BY <1>4, <1>5
  <2>3. \A n \in 0 .. num_entries :
          W[n] = IF n = 0 THEN Window ELSE Highest(r, W[n - 1], n)
    BY <2>1, <2>2, <1>6 DEF IsLoop
  <2>4. W = [n \in 0 .. num_entries |-> W[n]]
    OBVIOUS
  <2> QED BY <2>3, <2>4
<1>8. PICK V : /\ V = MaxLoop(r)
               /\ V = [n \in 0 .. num_entries |->
                         IF n = 0 THEN Window ELSE Highest(r, V[n - 1], n)]
  BY <1>7, Zenon DEF MaxLoop
<1>9. \A n \in 0 .. num_entries :
        V[n] = IF n = 0 THEN Window ELSE Highest(r, V[n - 1], n)
  BY <1>8, Zenon
<1>10. 0 \in 0 .. num_entries
  OBVIOUS
<1>11. V[0] = Window /\ \A n \in Slots : V[n] = Highest(r, V[n - 1], n)
  BY <1>5, <1>9, <1>10, Zenon
<1>12. \A n \in Slots : V[n - 1] \in Windows => V[n] \in Windows
  BY <1>2, <1>11
<1>13. \A n \in 0 .. num_entries : V[n] \in Windows
  BY <1>1, <1>11, <1>12, LoopTyped
<1>14. \A n \in Slots : V[n] \in Windows /\ V[n - 1] \in Windows
  BY <1>5, <1>13
<1> QED BY <1>8, <1>11, <1>14, Zenon

\* max_entry finds the slot of the greatest key.
LEMMA MaxFinds ==
  ASSUME NEW r, Legal(r)
  PROVE  Finds(max_entry(r),
               {i \in Ranked(r) : \A j \in Ranked(r) : key_at[i] >= key_at[j]})
<1> USE DimensionAssumption
<1> DEFINE W == MaxLoop(r)
           w == W[num_entries]
           Inv(v, n) ==
             /\ \/ v.lo = 0 /\ v.loSlot = NoSlot
                \/ v.loSlot \in Ranked(r) /\ r[v.loSlot] = v.lo
             /\ \A i \in 1 .. n : i \in Ranked(r) => r[i] <= v.lo
           G == {n \in 0 .. num_entries : Inv(W[n], n)}
<1>1. \A n \in Slots : /\ W[0] = Window
                       /\ W[n] = Highest(r, W[n - 1], n)
                       /\ W[n] \in Windows /\ W[n - 1] \in Windows
  BY MaxLoopExists
<1>2. num_entries \in Slots
  BY DEF Slots
<1>3. 0 \in G
  <2>1. W[0] = Window
    BY <1>1, <1>2
  <2> HIDE DEF W
  <2> QED BY <2>1 DEF Window
<1>4. ASSUME NEW n \in Slots, NEW v \in Windows, Inv(v, n - 1)
      PROVE  Inv(Highest(r, v, n), n)
  <2> DEFINE u == Highest(r, v, n)
  <2>1. \A i \in 1 .. n : i # n => i \in 1 .. n - 1
    BY DEF Slots
  <2>2. \A i \in Ranked(r) : r[i] \in 1 .. num_entries
    BY LegalOrder
  <2>3. v.lo \in 0 .. removed_rank
    BY DEF Windows
  <2>4. r[n] \in Nat /\ (n \in Ranked(r) <=> r[n] # 0 /\ r[n] # removed_rank)
    BY DEF Legal, Ranks, Ranked, uninit_rank
  <2>5. CASE r[n] > v.lo /\ r[n] # removed_rank
    <3>1. u = [v EXCEPT !.lo = r[n], !.loSlot = n]
      BY <2>5 DEF Highest
    <3>2. u.lo = r[n] /\ u.loSlot = n
      BY <3>1 DEF Windows
    <3>3. n \in Ranked(r)
      BY <2>3, <2>4, <2>5
    <3>4. \A i \in 1 .. n : i \in Ranked(r) => r[i] <= r[n]
      BY <1>4, <2>1, <2>2, <2>3, <2>4, <2>5
    <3> HIDE DEF u
    <3>5. Inv(u, n)
      BY <3>2, <3>3, <3>4
    <3> QED BY <3>5 DEF u
  <2>6. CASE ~ (r[n] > v.lo /\ r[n] # removed_rank)
    <3>1. u = v
      BY <2>6 DEF Highest
    <3>2. n \in Ranked(r) => r[n] <= v.lo
      BY <2>3, <2>4, <2>6
    <3>3. Inv(v, n)
      BY <1>4, <2>1, <3>2
    <3> QED BY <3>1, <3>3
  <2> QED BY <2>5, <2>6
<1>5. \A n \in Slots : n - 1 \in G => n \in G
  <2> SUFFICES ASSUME NEW n \in Slots, Inv(W[n - 1], n - 1)
               PROVE  Inv(W[n], n)
    BY DEF Slots
  <2> HIDE DEF W, Inv
  <2> QED BY <1>1, <1>4
<1>6. Inv(w, num_entries) /\ w \in Windows
  <2> HIDE DEF G, W, Inv
  <2>1. num_entries \in G
    BY <1>3, <1>5, SlotInduction
  <2> QED BY <2>1, <1>1, <1>2 DEF G
<1>7. max_entry(r) = w.loSlot
  BY Zenon DEF max_entry, ForSlots, MaxLoop, Highest
<1> HIDE DEF w
<1>8. \A i \in Ranked(r) : i \in 1 .. num_entries
  BY LegalOrder DEF Slots
<1>9. /\ w.lo \in Nat
      /\ (w.lo = 0 /\ w.loSlot = NoSlot)
           \/ (w.loSlot \in Ranked(r) /\ r[w.loSlot] = w.lo)
      /\ \A i \in Ranked(r) : r[i] <= w.lo
  BY <1>6, <1>8 DEF Windows
<1>10. Finds(w.loSlot, {i \in Ranked(r) :
                          \A j \in Ranked(r) : key_at[i] >= key_at[j]})
  BY <1>9, HighestFinds
<1> QED BY <1>7, <1>10

-----------------------------------------------------------------------------
(* The loop of post_insert                                                  *)

Placings ==
  [lo : 0 .. removed_rank, hi : 0 .. removed_rank, new : [Slots -> Nat],
   dup : BOOLEAN]

Unplaced(r) == [lo |-> 0, hi |-> removed_rank, new |-> r, dup |-> FALSE]

PlaceLoop(r, k) ==
  CHOOSE W : W = [n \in 0 .. num_entries |->
                    IF n = 0 THEN Unplaced(r) ELSE Place(r, k, W[n - 1], n)]

\* The loop of post_insert.
LEMMA PlaceLoopExists ==
  ASSUME NEW r, Legal(r), NEW k
  PROVE  \A n \in Slots :
           /\ PlaceLoop(r, k)[0] = Unplaced(r)
           /\ PlaceLoop(r, k)[n] = Place(r, k, PlaceLoop(r, k)[n - 1], n)
           /\ PlaceLoop(r, k)[n] \in Placings
           /\ PlaceLoop(r, k)[n - 1] \in Placings
<1> USE DimensionAssumption
<1>0. PICK T : T = [x \in Placings \X Slots |-> Place(r, k, x[1], x[2])]
  OBVIOUS
<1>1. Unplaced(r) \in Placings
  BY DEF Unplaced, Placings, Legal, Ranks, uninit_rank
<1>2. ASSUME NEW w \in Placings, NEW i \in Slots
      PROVE  Place(r, k, w, i) \in Placings
  <2>1. r[i] \in 0 .. removed_rank /\ i \in 0 .. num_entries
    BY DEF Legal, Ranks, Slots, uninit_rank
  <2>2. w.new \in [Slots -> Nat] /\ r[i] + 1 \in Nat
    BY <2>1 DEF Placings
  <2>3. /\ MoveUp(r, w, i) \in [Slots -> Nat]
        /\ [w.new EXCEPT ![i] = r[i] + 1] \in [Slots -> Nat]
    BY <2>2 DEF MoveUp
  <2> QED BY <2>1, <2>3 DEF Placings, Place
<1>3. T \in [Placings \X Slots -> Placings]
  BY <1>0, <1>2
<1>4. \A w \in Placings, i \in Slots : T[<<w, i>>] = Place(r, k, w, i)
  BY <1>0
<1>5. \A n \in Slots :
        n # 0 /\ n - 1 \in 0 .. num_entries /\ n \in 0 .. num_entries
  BY DEF Slots
<1>6. \A n \in 0 .. num_entries : n # 0 => n \in Slots
  BY DEF Slots
<1>7. \E W : W = [n \in 0 .. num_entries |->
                  IF n = 0 THEN Unplaced(r) ELSE Place(r, k, W[n - 1], n)]
  <2>1. PICK W \in [0 .. num_entries -> Placings] : IsLoop(W, Unplaced(r), T)
    BY <1>1, <1>3, LoopExists
  <2>2. \A n \in Slots : T[<<W[n - 1], n>>] = Place(r, k, W[n - 1], n)
    BY <1>4, <1>5
  <2>3. \A n \in 0 .. num_entries :
          W[n] = IF n = 0 THEN Unplaced(r) ELSE Place(r, k, W[n - 1], n)
    BY <2>1, <2>2, <1>6 DEF IsLoop
  <2>4. W = [n \in 0 .. num_entries |-> W[n]]
    OBVIOUS
  <2> QED BY <2>3, <2>4
<1>8. PICK V : /\ V = PlaceLoop(r, k)
               /\ V = [n \in 0 .. num_entries |->
                         IF n = 0 THEN Unplaced(r) ELSE Place(r, k, V[n - 1], n)]
  BY <1>7, Zenon DEF PlaceLoop
<1>9. \A n \in 0 .. num_entries :
        V[n] = IF n = 0 THEN Unplaced(r) ELSE Place(r, k, V[n - 1], n)
  BY <1>8, Zenon
<1>10. 0 \in 0 .. num_entries
  OBVIOUS
<1>11. V[0] = Unplaced(r) /\ \A n \in Slots : V[n] = Place(r, k, V[n - 1], n)
  BY <1>5, <1>9, <1>10, Zenon
<1>12. \A n \in Slots : V[n - 1] \in Placings => V[n] \in Placings
  BY <1>2, <1>11
<1>13. \A n \in 0 .. num_entries : V[n] \in Placings
  BY <1>1, <1>11, <1>12, LoopTyped
<1>14. \A n \in Slots : V[n] \in Placings /\ V[n - 1] \in Placings
  BY <1>5, <1>13
<1> QED BY <1>8, <1>11, <1>14, Zenon

\* The invariant of the loop: lo is the highest rank of a smaller key so far,
\* hi the rank of some greater key it has passed, and all greater keys it has
\* passed have been moved up.
PlaceInv(r, k, w, n) ==
  /\ w.dup => Duplicate(r, k)
  /\ ~w.dup =>
       /\ w.lo = 0 \/ \E l \in Below(r, k) : r[l] = w.lo
       /\ w.hi = removed_rank \/ \E h \in Above(r, k) : h <= n /\ r[h] = w.hi
       /\ \A i \in 1 .. n : /\ i \in Below(r, k) => r[i] <= w.lo
                            /\ i \in Ranked(r) => key_at[i] # k
       /\ \A i \in Slots :
            w.new[i] = IF i <= n /\ i \in Above(r, k) THEN r[i] + 1 ELSE r[i]

\* Each turn of the loop keeps its invariant.
LEMMA PlaceKeeps ==
  ASSUME NEW r, Legal(r), NEW k \in Nat, NEW w \in Placings, NEW n \in Slots,
         PlaceInv(r, k, w, n - 1)
  PROVE  PlaceInv(r, k, Place(r, k, w, n), n)
<1> USE DimensionAssumption
<1> DEFINE v == Place(r, k, w, n)
           L == Below(r, k)
           H == Above(r, k)
<1> SUFFICES PlaceInv(r, k, v, n)
  OBVIOUS
<1>1. CASE w.dup
  BY <1>1 DEF Place, PlaceInv
<1>2. CASE ~w.dup
  <2>1. /\ w.lo \in 0 .. removed_rank /\ w.hi \in 0 .. removed_rank
        /\ w.new \in [Slots -> Nat]
    BY DEF Placings
  <2>2. /\ \A i \in 1 .. n : i # n => i \in 1 .. n - 1
        /\ \A i \in Slots : i # n => (i <= n <=> i <= n - 1)
        /\ \A i \in Slots : i <= n - 1 => i <= n /\ i # n
        /\ n <= n /\ n \in 1 .. n
    BY DEF Slots
  <2>3. /\ w.lo = 0 \/ \E l \in L : r[l] = w.lo
        /\ w.hi = removed_rank \/ \E h \in H : h <= n - 1 /\ r[h] = w.hi
        /\ \A i \in 1 .. n - 1 : /\ i \in L => r[i] <= w.lo
                                 /\ i \in Ranked(r) => key_at[i] # k
    BY <1>2 DEF PlaceInv
  <2>4. \A i \in Slots :
          w.new[i] = IF i <= n - 1 /\ i \in H THEN r[i] + 1 ELSE r[i]
    BY <1>2 DEF PlaceInv
  <2>5. \A i \in Ranked(r) : /\ r[i] \in 1 .. num_entries /\ key_at[i] \in Nat
                             /\ i \in Slots
    BY LegalOrder
  <2>6. /\ L \subseteq Ranked(r) /\ H \subseteq Ranked(r)
        /\ \A i \in Ranked(r) : /\ i \in L <=> key_at[i] < k
                                /\ i \in H <=> key_at[i] > k
    BY DEF Below, Above
  <2>7. r[n] \in Nat /\ (n \in Ranked(r) <=> r[n] # 0 /\ r[n] # removed_rank)
    BY DEF Legal, Ranks, Ranked, uninit_rank
  <2>8. \/ w.hi = removed_rank
        \/ \E h \in H : h <= n /\ r[h] = w.hi
    BY <2>2, <2>3, <2>5, <2>6
  <2> SUFFICES
        ~v.dup =>
          /\ v.lo = 0 \/ \E l \in L : r[l] = v.lo
          /\ v.hi = removed_rank \/ \E h \in H : h <= n /\ r[h] = v.hi
          /\ \A i \in 1 .. n : /\ i \in L => r[i] <= v.lo
                               /\ i \in Ranked(r) => key_at[i] # k
          /\ \A i \in Slots :
               v.new[i] = IF i <= n /\ i \in H THEN r[i] + 1 ELSE r[i]
    <3>1. v.dup => Duplicate(r, k)
      <4> SUFFICES ASSUME v.dup PROVE Duplicate(r, k)
        OBVIOUS
      <4>1. Within(w, r[n]) /\ ~ (key_at[n] < k) /\ ~ (key_at[n] > k)
        BY <1>2 DEF Place, Placings
      <4>2. n \in Ranked(r)
        BY <4>1, <2>1, WithinIsRanked DEF Within
      <4> QED BY <4>1, <4>2, <2>5 DEF Duplicate
    <3> HIDE DEF v
    <3> QED BY <3>1 DEF PlaceInv
  <2> HIDE DEF L, H
  <2>9. CASE ~Within(w, r[n])
    <3>1. v = [w EXCEPT !.new = MoveUp(r, w, n)]
      BY <1>2, <2>9 DEF Place
    <3>2. /\ v.lo = w.lo /\ v.hi = w.hi /\ v.new = MoveUp(r, w, n)
          /\ v.dup = w.dup
      BY <3>1 DEF Placings
    <3>3. ASSUME n \in Ranked(r)
          PROVE  \/ key_at[n] < k /\ r[n] <= w.lo
                 \/ key_at[n] > k /\ r[n] > w.hi
      <4>1. w.lo = 0 \/ \E l \in Ranked(r) : key_at[l] < k /\ r[l] = w.lo
        BY <2>3, <2>6
      <4>2. \/ w.hi = removed_rank
            \/ \E h \in Ranked(r) : key_at[h] >= k /\ r[h] = w.hi
        BY <2>3, <2>5, <2>6
      <4>3. ~ (r[n] < w.hi /\ r[n] > w.lo)
        BY <2>9 DEF Within
      <4>4. \/ key_at[n] < k /\ r[n] <= w.lo
            \/ key_at[n] >= k /\ r[n] >= w.hi /\ w.hi # removed_rank
        BY <3>3, <2>1, <4>1, <4>2, <4>3, ExcludedSide
      <4>5. CASE key_at[n] >= k /\ r[n] >= w.hi /\ w.hi # removed_rank
        <5>1. PICK h \in H : h <= n - 1 /\ r[h] = w.hi
          BY <4>5, <2>3
        <5>2. h \in Ranked(r) /\ key_at[h] > k /\ h # n
          BY <5>1, <2>2, <2>5, <2>6
        <5>3. r[n] # r[h]
          BY <3>3, <5>2, LegalOrder
        <5>4. r[h] <= r[n]
          BY <4>5, <5>1, <5>2, <2>5, <2>7
        <5>5. key_at[h] <= key_at[n]
          BY <3>3, <5>2, <5>4, LegalOrder
        <5> QED BY <3>3, <4>5, <5>1, <5>2, <5>3, <5>4, <5>5, <2>1, <2>5
      <4> QED BY <4>4, <4>5
    <3>4. r[n] # removed_rank /\ r[n] > w.hi => n \in H
      <4> SUFFICES ASSUME r[n] # removed_rank, r[n] > w.hi
                   PROVE  n \in H
        OBVIOUS
      <4>1. n \in Ranked(r)
        BY <2>1, <2>7
      <4>2. PICK h \in H : r[h] = w.hi
        BY <4>1, <2>3, <2>5
      <4>3. h \in Ranked(r) /\ key_at[h] > k /\ r[h] < r[n]
        BY <4>2, <2>1, <2>5, <2>6, <2>7
      <4>4. key_at[h] < key_at[n]
        BY <4>1, <4>3, LegalOrder
      <4> QED BY <4>1, <4>3, <4>4, <2>5, <2>6
    <3>5. n \in H <=> r[n] # removed_rank /\ r[n] > w.hi
      <4>1. ASSUME n \in H PROVE r[n] # removed_rank /\ r[n] > w.hi
        <5>1. n \in Ranked(r) /\ key_at[n] > k
          BY <4>1, <2>6
        <5> QED BY <5>1, <3>3, <2>5, <2>7
      <4> QED BY <4>1, <3>4
    <3>6. ASSUME NEW i \in Slots
          PROVE  v.new[i] = IF i <= n /\ i \in H THEN r[i] + 1 ELSE r[i]
      <4>1. CASE i # n
        <5>1. MoveUp(r, w, n)[i] = w.new[i]
          BY <4>1, <2>1 DEF MoveUp
        <5> QED BY <4>1, <5>1, <3>2, <2>2, <2>4
      <4>2. CASE i = n
        <5>1. MoveUp(r, w, n)[n]
                = IF r[n] # removed_rank /\ r[n] > w.hi THEN r[n] + 1
                  ELSE w.new[n]
          BY <2>1 DEF MoveUp
        <5>2. w.new[n] = r[n]
          BY <2>2, <2>4
        <5> HIDE DEF v
        <5> QED BY <4>2, <5>1, <5>2, <3>2, <3>5, <2>2
      <4> QED BY <4>1, <4>2
    <3>7. n \in Ranked(r) => (n \in L => r[n] <= w.lo) /\ key_at[n] # k
      BY <3>3, <2>5, <2>6
    <3> HIDE DEF v
    <3>8. \A i \in 1 .. n : /\ i \in L => r[i] <= v.lo
                            /\ i \in Ranked(r) => key_at[i] # k
      BY <2>2, <2>3, <2>6, <3>2, <3>7
    <3> QED BY <2>3, <2>8, <3>2, <3>6, <3>8
  <2>10. CASE Within(w, r[n])
    <3>1. r[n] < w.hi /\ r[n] > w.lo
      BY <2>10 DEF Within
    <3>2. n \in Ranked(r)
      BY <3>1, <2>1, WithinIsRanked
    <3>3. CASE key_at[n] < k
      <4>1. v = [w EXCEPT !.lo = r[n]]
        BY <1>2, <2>10, <3>3 DEF Place
      <4>2. v.lo = r[n] /\ v.hi = w.hi /\ v.new = w.new
        BY <4>1 DEF Placings
      <4>3. n \in L /\ n \notin H
        BY <3>2, <3>3, <2>5, <2>6
      <4> HIDE DEF v
      <4>4. \A i \in 1 .. n : /\ i \in L => r[i] <= v.lo
                              /\ i \in Ranked(r) => key_at[i] # k
        BY <2>1, <2>2, <2>3, <2>5, <2>6, <3>1, <3>2, <3>3, <4>2
      <4>5. \A i \in Slots :
              v.new[i] = IF i <= n /\ i \in H THEN r[i] + 1 ELSE r[i]
        BY <2>2, <2>4, <4>2, <4>3
      <4> QED BY <2>8, <4>2, <4>3, <4>4, <4>5
    <3>4. CASE key_at[n] > k
      <4>1. v = [w EXCEPT !.hi = r[n], !.new = [w.new EXCEPT ![n] = r[n] + 1]]
        BY <1>2, <2>5, <2>10, <3>2, <3>4 DEF Place
      <4>2. /\ v.lo = w.lo /\ v.hi = r[n]
            /\ v.new = [w.new EXCEPT ![n] = r[n] + 1]
        BY <4>1 DEF Placings
      <4>3. n \in H /\ n \notin L
        BY <3>2, <3>4, <2>5, <2>6
      <4> HIDE DEF v
      <4>4. \A i \in 1 .. n : /\ i \in L => r[i] <= v.lo
                              /\ i \in Ranked(r) => key_at[i] # k
        BY <2>2, <2>3, <2>5, <3>2, <3>4, <4>2, <4>3
      <4>5. \A i \in Slots :
              v.new[i] = IF i <= n /\ i \in H THEN r[i] + 1 ELSE r[i]
        BY <2>1, <2>2, <2>4, <4>2, <4>3
      <4> QED BY <2>2, <2>3, <4>2, <4>3, <4>4, <4>5
    <3>5. CASE key_at[n] = k
      <4>1. v = [w EXCEPT !.dup = TRUE]
        BY <1>2, <2>10, <3>5 DEF Place
      <4>2. v.dup
        BY <4>1 DEF Placings
      <4> QED BY <4>2
    <3> QED BY <3>2, <3>3, <3>4, <3>5, <2>5
  <2> QED BY <2>9, <2>10
<1> QED BY <1>1, <1>2

\* post_insert detects a duplicate, and otherwise computes the metadata that
\* has the new entry in its place.
LEMMA PlaceFinds ==
  ASSUME NEW r, Legal(r), NEW k \in Nat, NEW s \in Slots
  PROVE  LET w == post_insert(r, k)
         IN  /\ w.dup <=> Duplicate(r, k)
             /\ ~w.dup => [w.new EXCEPT ![s] = w.lo + 1] = Augmented(r, s, k)
<1> USE DimensionAssumption
<1> DEFINE W == PlaceLoop(r, k)
           w == W[num_entries]
           G == {n \in 0 .. num_entries : PlaceInv(r, k, W[n], n)}
<1>1. \A n \in Slots : /\ W[0] = Unplaced(r)
                       /\ W[n] = Place(r, k, W[n - 1], n)
                       /\ W[n] \in Placings /\ W[n - 1] \in Placings
  BY PlaceLoopExists
<1>2. num_entries \in Slots
  BY DEF Slots
<1>3. 0 \in G
  <2>1. W[0] = Unplaced(r)
    BY <1>1, <1>2
  <2>2. \A i \in Slots : ~ (i <= 0)
    BY DEF Slots
  <2> HIDE DEF W
  <2>3. PlaceInv(r, k, W[0], 0)
    BY <2>1, <2>2 DEF PlaceInv, Unplaced
  <2> QED BY <2>3
<1>4. \A n \in Slots : n - 1 \in G => n \in G
  <2> HIDE DEF W
  <2> SUFFICES ASSUME NEW n \in Slots, PlaceInv(r, k, W[n - 1], n - 1)
               PROVE  PlaceInv(r, k, W[n], n)
    BY DEF Slots
  <2> QED BY <1>1, PlaceKeeps
<1>5. PlaceInv(r, k, w, num_entries) /\ w \in Placings
  <2> HIDE DEF G, W
  <2>1. num_entries \in G
    BY <1>3, <1>4, SlotInduction
  <2> QED BY <2>1, <1>1, <1>2 DEF G
<1>6. post_insert(r, k) = w
  BY Zenon DEF post_insert, ForSlots, PlaceLoop, Unplaced
<1> HIDE DEF w
<1>7. \A i \in Ranked(r) : i \in 1 .. num_entries /\ r[i] \in 1 .. num_entries
  BY LegalOrder DEF Slots
<1>8. w.dup \in BOOLEAN /\ w.new \in [Slots -> Nat] /\ w.lo \in 0 .. removed_rank
  BY <1>5 DEF Placings
<1>9. w.dup <=> Duplicate(r, k)
  BY <1>5, <1>7 DEF PlaceInv, Duplicate
<1>10. ASSUME ~w.dup
       PROVE  [w.new EXCEPT ![s] = w.lo + 1] = Augmented(r, s, k)
  <2>1. /\ w.lo = 0 \/ \E l \in Below(r, k) : r[l] = w.lo
        /\ \A i \in 1 .. num_entries : i \in Below(r, k) => r[i] <= w.lo
        /\ \A i \in Slots : w.new[i] = IF i <= num_entries /\ i \in Above(r, k)
                                       THEN r[i] + 1 ELSE r[i]
    BY <1>5, <1>10 DEF PlaceInv
  <2>2. Below(r, k) \subseteq Ranked(r)
    BY DEF Below
  <2>3. /\ MaxMinRank(r, k) \in 0 .. num_entries
        /\ \/ MaxMinRank(r, k) = 0
           \/ \E i \in Below(r, k) : r[i] = MaxMinRank(r, k)
        /\ \A i \in Below(r, k) : r[i] <= MaxMinRank(r, k)
    BY MaxMinRankIsHighest DEF Legal
  <2>4. \A i \in Below(r, k) : r[i] <= w.lo /\ r[i] \in Nat /\ r[i] >= 1
    BY <1>7, <2>1, <2>2
  <2>5. MaxMinRank(r, k) <= w.lo
    BY <1>8, <2>3, <2>4
  <2>6. w.lo <= MaxMinRank(r, k)
    BY <1>8, <2>1, <2>3
  <2>7. w.lo = MaxMinRank(r, k)
    BY <1>8, <2>3, <2>5, <2>6
  <2>8. \A i \in Slots : i <= num_entries
    BY DEF Slots
  <2>9. \A i \in Slots : w.new[i] = IF i \in Above(r, k) THEN r[i] + 1 ELSE r[i]
    BY <2>1, <2>8
  <2>10. [w.new EXCEPT ![s] = w.lo + 1]
           = [i \in Slots |-> IF i = s THEN w.lo + 1 ELSE w.new[i]]
    BY <1>8
  <2> QED BY <2>7, <2>9, <2>10 DEF Augmented
<1> QED BY <1>6, <1>9, <1>10

-----------------------------------------------------------------------------
(* Scanner                                                                  *)

\* One turn of the loop of next.
Nearest(r, at, w, i) ==
  IF Higher(r, i, at, w.hi) THEN [w EXCEPT !.hi = r[i], !.hiSlot = i] ELSE w

NextLoop(r, at) ==
  CHOOSE W : W = [n \in 0 .. num_entries |->
                    IF n = 0 THEN Window ELSE Nearest(r, at, W[n - 1], n)]

\* The loop of next.
LEMMA NextLoopExists ==
  ASSUME NEW r, Legal(r), NEW at
  PROVE  \A n \in Slots :
           /\ NextLoop(r, at)[0] = Window
           /\ NextLoop(r, at)[n] = Nearest(r, at, NextLoop(r, at)[n - 1], n)
           /\ NextLoop(r, at)[n] \in Windows
           /\ NextLoop(r, at)[n - 1] \in Windows
<1> USE DimensionAssumption
<1>0. PICK T : T = [x \in Windows \X Slots |-> Nearest(r, at, x[1], x[2])]
  OBVIOUS
<1>1. Window \in Windows
  BY DEF Window, Windows, NoSlot
<1>2. ASSUME NEW w \in Windows, NEW i \in Slots
      PROVE  Nearest(r, at, w, i) \in Windows
  <2>1. r[i] \in 0 .. removed_rank /\ i \in 0 .. num_entries
    BY DEF Legal, Ranks, Slots, uninit_rank
  <2> QED BY <2>1 DEF Windows, Nearest
<1>3. T \in [Windows \X Slots -> Windows]
  BY <1>0, <1>2
<1>4. \A w \in Windows, i \in Slots : T[<<w, i>>] = Nearest(r, at, w, i)
  BY <1>0
<1>5. \A n \in Slots :
        n # 0 /\ n - 1 \in 0 .. num_entries /\ n \in 0 .. num_entries
  BY DEF Slots
<1>6. \A n \in 0 .. num_entries : n # 0 => n \in Slots
  BY DEF Slots
<1>7. \E W : W = [n \in 0 .. num_entries |->
                  IF n = 0 THEN Window ELSE Nearest(r, at, W[n - 1], n)]
  <2>1. PICK W \in [0 .. num_entries -> Windows] : IsLoop(W, Window, T)
    BY <1>1, <1>3, LoopExists
  <2>2. \A n \in Slots : T[<<W[n - 1], n>>] = Nearest(r, at, W[n - 1], n)
    BY <1>4, <1>5
  <2>3. \A n \in 0 .. num_entries :
          W[n] = IF n = 0 THEN Window ELSE Nearest(r, at, W[n - 1], n)
    BY <2>1, <2>2, <1>6 DEF IsLoop
  <2>4. W = [n \in 0 .. num_entries |-> W[n]]
    OBVIOUS
  <2> QED BY <2>3, <2>4
<1>8. PICK V : /\ V = NextLoop(r, at)
               /\ V = [n \in 0 .. num_entries |->
                         IF n = 0 THEN Window ELSE Nearest(r, at, V[n - 1], n)]
  BY <1>7, Zenon DEF NextLoop
<1>9. \A n \in 0 .. num_entries :
        V[n] = IF n = 0 THEN Window ELSE Nearest(r, at, V[n - 1], n)
  BY <1>8, Zenon
<1>10. 0 \in 0 .. num_entries
  OBVIOUS
<1>11. V[0] = Window /\ \A n \in Slots : V[n] = Nearest(r, at, V[n - 1], n)
  BY <1>5, <1>9, <1>10, Zenon
<1>12. \A n \in Slots : V[n - 1] \in Windows => V[n] \in Windows
  BY <1>2, <1>11
<1>13. \A n \in 0 .. num_entries : V[n] \in Windows
  BY <1>1, <1>11, <1>12, LoopTyped
<1>14. \A n \in Slots : V[n] \in Windows /\ V[n - 1] \in Windows
  BY <1>5, <1>13
<1> QED BY <1>8, <1>11, <1>14, Zenon

\* next finds the slot of the lowest rank above that of at.
LEMMA NextFinds ==
  ASSUME NEW r, Legal(r), NEW at \in Slots \cup {NoSlot}, NEW base,
         base = IF at = NoSlot THEN 0 ELSE r[at]
  PROVE  \/ /\ next(at, r) = NoSlot
            /\ \A i \in Ranked(r) : r[i] <= base
         \/ /\ next(at, r) \in Ranked(r) /\ r[next(at, r)] > base
            /\ \A i \in Ranked(r) : r[i] > base => r[next(at, r)] <= r[i]
<1> USE DimensionAssumption
<1>1. base \in Nat
  BY DEF Legal, Ranks, uninit_rank
<1>2. \A i \in Ranked(r) : i \in Slots /\ r[i] \in 1 .. num_entries
  BY LegalOrder
<1>3. CASE at # NoSlot /\ r[at] >= num_entries
  <2>1. next(at, r) = NoSlot
    BY <1>3 DEF next
  <2>2. \A i \in Ranked(r) : r[i] <= base
    BY <1>1, <1>2, <1>3
  <2> QED BY <2>1, <2>2
<1>4. CASE ~ (at # NoSlot /\ r[at] >= num_entries)
  <2> DEFINE W == NextLoop(r, at)
             w == W[num_entries]
             Inv(v, n) ==
               /\ \/ v.hi = removed_rank /\ v.hiSlot = NoSlot
                  \/ /\ v.hiSlot \in Ranked(r) /\ r[v.hiSlot] = v.hi
                     /\ v.hi > base
               /\ \A i \in 1 .. n :
                    i \in Ranked(r) /\ r[i] > base => r[i] >= v.hi
             G == {n \in 0 .. num_entries : Inv(W[n], n)}
  <2>1. \A n \in Slots : /\ W[0] = Window
                         /\ W[n] = Nearest(r, at, W[n - 1], n)
                         /\ W[n] \in Windows /\ W[n - 1] \in Windows
    BY NextLoopExists
  <2>2. num_entries \in Slots
    BY DEF Slots
  <2>3. 0 \in G
    <3>1. W[0] = Window
      BY <2>1, <2>2
    <3> HIDE DEF W
    <3> QED BY <3>1 DEF Window
  <2>4. ASSUME NEW n \in Slots, NEW v \in Windows, Inv(v, n - 1)
        PROVE  Inv(Nearest(r, at, v, n), n)
    <3> DEFINE u == Nearest(r, at, v, n)
    <3>1. \A i \in 1 .. n : i # n => i \in 1 .. n - 1
      BY DEF Slots
    <3>2. v.hi \in 0 .. removed_rank
      BY DEF Windows
    <3>3. r[n] \in Nat /\ (n \in Ranked(r) <=> r[n] # 0 /\ r[n] # removed_rank)
      BY DEF Legal, Ranks, Ranked, uninit_rank
    <3>4. CASE Higher(r, n, at, v.hi)
      <4>1. u = [v EXCEPT !.hi = r[n], !.hiSlot = n]
        BY <3>4 DEF Nearest
      <4>2. u.hi = r[n] /\ u.hiSlot = n
        BY <4>1 DEF Windows
      <4>3. r[n] < v.hi /\ r[n] > base /\ n \in Ranked(r)
        BY <1>1, <3>2, <3>3, <3>4 DEF Higher, uninit_rank
      <4>4. \A i \in 1 .. n : i \in Ranked(r) /\ r[i] > base => r[i] >= r[n]
        BY <1>2, <2>4, <3>1, <3>2, <3>3, <4>3
      <4> HIDE DEF u
      <4>5. Inv(u, n)
        BY <4>2, <4>3, <4>4
      <4> QED BY <4>5 DEF u
    <3>5. CASE ~Higher(r, n, at, v.hi)
      <4>1. u = v
        BY <3>5 DEF Nearest
      <4>2. n \in Ranked(r) /\ r[n] > base => r[n] >= v.hi
        <5> SUFFICES ASSUME n \in Ranked(r), r[n] > base
                     PROVE  ~ (r[n] < v.hi)
          BY <3>2, <3>3
        <5>1. n # at
          BY <1>1, <3>3 DEF Slots, NoSlot
        <5> QED BY <5>1, <3>3, <3>5 DEF Higher, uninit_rank
      <4>3. Inv(v, n)
        BY <2>4, <3>1, <4>2
      <4> QED BY <4>1, <4>3
    <3> QED BY <3>4, <3>5
  <2>5. \A n \in Slots : n - 1 \in G => n \in G
    <3> SUFFICES ASSUME NEW n \in Slots, Inv(W[n - 1], n - 1)
                 PROVE  Inv(W[n], n)
      BY DEF Slots
    <3> HIDE DEF W, Inv
    <3> QED BY <2>1, <2>4
  <2>6. Inv(w, num_entries) /\ w \in Windows
    <3> HIDE DEF G, W, Inv
    <3>1. num_entries \in G
      BY <2>3, <2>5, SlotInduction
    <3> QED BY <3>1, <2>1, <2>2 DEF G
  <2>7. next(at, r) = w.hiSlot
    BY <1>4, Zenon DEF next, ForSlots, NextLoop, Nearest
  <2> HIDE DEF w
  <2>8. \A i \in Ranked(r) : i \in 1 .. num_entries
    BY <1>2 DEF Slots
  <2>9. \A i \in Ranked(r) : r[i] > base => r[i] >= w.hi
    BY <2>6, <2>8
  <2>10. CASE w.hi = removed_rank /\ w.hiSlot = NoSlot
    <3>1. \A i \in Ranked(r) : r[i] <= base
      BY <1>1, <1>2, <2>9, <2>10
    <3> QED BY <2>7, <2>10, <3>1
  <2>11. CASE w.hiSlot \in Ranked(r) /\ r[w.hiSlot] = w.hi /\ w.hi > base
    <3>1. \A i \in Ranked(r) : r[i] > base => w.hi <= r[i]
      BY <1>2, <2>9, <2>11
    <3> QED BY <2>7, <2>11, <3>1
  <2> QED BY <2>6, <2>10, <2>11
<1> QED BY <1>3, <1>4

\* next returns a slot or none.
LEMMA NextInSlots ==
  ASSUME NEW r, Legal(r), NEW s \in Seq(Slots)
  PROVE  Advance(r, s) \in Seq(Slots)
<1> DEFINE at == IF s = <<>> THEN NoSlot ELSE s[Len(s)]
<1>1. at \in Slots \cup {NoSlot}
  <2>1. s # <<>> => Len(s) \in 1 .. Len(s)
    BY EmptySeq, LenProperties
  <2> QED BY <2>1, ElementOfSeq
<1>2. next(at, r) = NoSlot \/ next(at, r) \in Ranked(r)
  <2> HIDE DEF at
  <2> QED BY <1>1, NextFinds
<1>3. Ranked(r) \subseteq Slots
  BY DEF Ranked
<1>4. Advance(r, s) = IF next(at, r) = NoSlot THEN s ELSE Append(s, next(at, r))
  BY DEF Advance
<1> HIDE DEF at
<1> QED BY <1>2, <1>3, <1>4

ScanLoop(r) ==
  CHOOSE W : W = [n \in 0 .. num_entries |->
                    IF n = 0 THEN <<>> ELSE Advance(r, W[n - 1])]

\* The steps of a Scanner.
LEMMA ScanLoopExists ==
  ASSUME NEW r, Legal(r)
  PROVE  \A n \in Slots :
           /\ ScanLoop(r)[0] = <<>>
           /\ ScanLoop(r)[n] = Advance(r, ScanLoop(r)[n - 1])
           /\ ScanLoop(r)[n] \in Seq(Slots)
           /\ ScanLoop(r)[n - 1] \in Seq(Slots)
<1> USE DimensionAssumption
<1>0. PICK T : T = [x \in Seq(Slots) \X Slots |-> Advance(r, x[1])]
  OBVIOUS
<1>1. <<>> \in Seq(Slots)
  OBVIOUS
<1>2. ASSUME NEW w \in Seq(Slots), NEW i \in Slots
      PROVE  Advance(r, w) \in Seq(Slots)
  BY NextInSlots
<1>3. T \in [Seq(Slots) \X Slots -> Seq(Slots)]
  BY <1>0, <1>2
<1>4. \A w \in Seq(Slots), i \in Slots : T[<<w, i>>] = Advance(r, w)
  BY <1>0
<1>5. \A n \in Slots :
        n # 0 /\ n - 1 \in 0 .. num_entries /\ n \in 0 .. num_entries
  BY DEF Slots
<1>6. \A n \in 0 .. num_entries : n # 0 => n \in Slots
  BY DEF Slots
<1>7. \E W : W = [n \in 0 .. num_entries |->
                  IF n = 0 THEN <<>> ELSE Advance(r, W[n - 1])]
  <2>1. PICK W \in [0 .. num_entries -> Seq(Slots)] : IsLoop(W, <<>>, T)
    BY <1>1, <1>3, LoopExists
  <2>2. \A n \in Slots : T[<<W[n - 1], n>>] = Advance(r, W[n - 1])
    BY <1>4, <1>5
  <2>3. \A n \in 0 .. num_entries :
          W[n] = IF n = 0 THEN <<>> ELSE Advance(r, W[n - 1])
    BY <2>1, <2>2, <1>6 DEF IsLoop
  <2>4. W = [n \in 0 .. num_entries |-> W[n]]
    OBVIOUS
  <2> QED BY <2>3, <2>4
<1>8. PICK V : /\ V = ScanLoop(r)
               /\ V = [n \in 0 .. num_entries |->
                         IF n = 0 THEN <<>> ELSE Advance(r, V[n - 1])]
  BY <1>7, Zenon DEF ScanLoop
<1>9. \A n \in 0 .. num_entries :
        V[n] = IF n = 0 THEN <<>> ELSE Advance(r, V[n - 1])
  BY <1>8, Zenon
<1>10. 0 \in 0 .. num_entries
  OBVIOUS
<1>11. V[0] = <<>> /\ \A n \in Slots : V[n] = Advance(r, V[n - 1])
  BY <1>5, <1>9, <1>10, Zenon
<1>12. \A n \in Slots : V[n - 1] \in Seq(Slots) => V[n] \in Seq(Slots)
  BY <1>2, <1>11
<1>13. \A n \in 0 .. num_entries : V[n] \in Seq(Slots)
  BY <1>1, <1>11, <1>12, LoopTyped
<1>14. \A n \in Slots : V[n] \in Seq(Slots) /\ V[n - 1] \in Seq(Slots)
  BY <1>5, <1>13
<1> QED BY <1>8, <1>11, <1>14, Zenon

\* The rank from which a Scanner that has been through s goes on.
LastRank(r, s) == IF s = <<>> THEN 0 ELSE r[s[Len(s)]]

Passed(s, j) == \E i \in 1 .. Len(s) : s[i] = j

\* After n steps a Scanner has been through the entries up to a rank, in order;
\* it has made n of them or passed all entries.
ScanInv(r, s, n) ==
  /\ \A i \in 1 .. Len(s) : s[i] \in Ranked(r) /\ r[s[i]] >= i
  /\ \A i \in 1 .. Len(s) - 1 : r[s[i]] < r[s[i + 1]]
  /\ \A j \in Ranked(r) : Passed(s, j) \/ r[j] > LastRank(r, s)
  /\ Len(s) <= n
  /\ Len(s) = n \/ \A j \in Ranked(r) : Passed(s, j)

\* Each step keeps this.
LEMMA AdvanceKeeps ==
  ASSUME NEW r, Legal(r), NEW s \in Seq(Slots), NEW n \in Slots,
         ScanInv(r, s, n - 1)
  PROVE  ScanInv(r, Advance(r, s), n)
<1> USE DimensionAssumption
<1> DEFINE at == IF s = <<>> THEN NoSlot ELSE s[Len(s)]
           to == next(at, r)
           base == LastRank(r, s)
           v == Advance(r, s)
<1>0. n \in Nat /\ n >= 1
  BY DEF Slots
<1>1. PICK l \in Nat : l = Len(s)
  OBVIOUS
<1>2. /\ s # <<>> => l >= 1 /\ l \in 1 .. l
      /\ s = <<>> => l = 0
  BY <1>1
<1>3. /\ \A i \in 1 .. l : s[i] \in Ranked(r) /\ r[s[i]] >= i
      /\ \A i \in 1 .. l - 1 : r[s[i]] < r[s[i + 1]]
      /\ \A j \in Ranked(r) : Passed(s, j) \/ r[j] > base
      /\ l <= n - 1
      /\ l = n - 1 \/ \A j \in Ranked(r) : Passed(s, j)
  BY <1>1 DEF ScanInv
<1>4. \A i \in Ranked(r) : r[i] \in 1 .. num_entries /\ i \in Slots
  BY LegalOrder
<1>5. at \in Slots \cup {NoSlot} /\ base = IF at = NoSlot THEN 0 ELSE r[at]
  <2>1. CASE s = <<>>
    BY <2>1 DEF LastRank
  <2>2. CASE s # <<>>
    <3>1. s[l] \in Slots /\ s[l] # NoSlot
      BY <2>2, <1>2, <1>3, <1>4 DEF Slots, NoSlot
    <3> QED BY <2>2, <3>1, <1>1 DEF LastRank
  <2> QED BY <2>1, <2>2
<1>6. base \in Nat /\ base >= l
  <2>1. CASE s = <<>>
    BY <2>1, <1>2 DEF LastRank
  <2>2. CASE s # <<>>
    <3>1. base = r[s[l]]
      BY <2>2, <1>1 DEF LastRank
    <3>2. s[l] \in Ranked(r) /\ r[s[l]] >= l
      BY <2>2, <1>2, <1>3
    <3> HIDE DEF base
    <3> QED BY <3>1, <3>2, <1>4
  <2> QED BY <2>1, <2>2
<1>7. v = IF to = NoSlot THEN s ELSE Append(s, to)
  BY DEF Advance
<1>8. \/ to = NoSlot /\ \A i \in Ranked(r) : r[i] <= base
      \/ /\ to \in Ranked(r) /\ r[to] > base
         /\ \A i \in Ranked(r) : r[i] > base => r[to] <= r[i]
  <2> HIDE DEF at, base
  <2> QED BY <1>5, NextFinds
<1> SUFFICES ScanInv(r, v, n)
  OBVIOUS
<1>9. CASE to = NoSlot /\ \A i \in Ranked(r) : r[i] <= base
  <2>1. v = s
    BY <1>7, <1>9
  <2>2. \A j \in Ranked(r) : Passed(s, j)
    <3> HIDE DEF base
    <3> QED BY <1>3, <1>4, <1>6, <1>9
  <2>3. l <= n
    BY <1>0, <1>3
  <2> HIDE DEF v
  <2> QED BY <1>1, <1>3, <2>1, <2>2, <2>3 DEF ScanInv
<1>10. CASE /\ to \in Ranked(r) /\ r[to] > base
            /\ \A i \in Ranked(r) : r[i] > base => r[to] <= r[i]
  <2>1. to # NoSlot /\ to \in Slots
    BY <1>4, <1>10 DEF Slots, NoSlot
  <2>2. v = Append(s, to)
    BY <1>7, <2>1
  <2> HIDE DEF to, v, base, at
  <2>3. /\ v \in Seq(Slots) /\ Len(v) = l + 1 /\ v # <<>>
        /\ \A i \in 1 .. l : v[i] = s[i]
        /\ v[l + 1] = to
    BY <1>1, <2>1, <2>2
  <2>4. LastRank(r, v) = r[to]
    BY <2>3 DEF LastRank
  <2>5. r[to] \in Nat /\ r[to] >= l + 1
    BY <1>4, <1>6, <1>10
  <2>6. \A i \in 1 .. l + 1 : i \in 1 .. l \/ i = l + 1
    OBVIOUS
  <2>7. \A i \in 1 .. Len(v) : v[i] \in Ranked(r) /\ r[v[i]] >= i
    BY <1>3, <1>10, <2>3, <2>5, <2>6
  <2>8. ASSUME NEW i \in 1 .. l
        PROVE  r[v[i]] < r[v[i + 1]]
    <3>1. CASE i = l
      <4>1. s # <<>> /\ base = r[s[l]]
        BY <1>1, <1>2, <3>1 DEF base, LastRank
      <4> QED BY <4>1, <3>1, <1>10, <1>6, <2>3, <2>5
    <3>2. CASE i # l
      <4>1. i \in 1 .. l - 1 /\ i + 1 \in 1 .. l
        BY <3>2
      <4> QED BY <4>1, <1>3, <2>3
    <3> QED BY <3>1, <3>2
  <2>9. \A j : Passed(s, j) => Passed(v, j)
    BY <1>1, <2>3 DEF Passed
  <2>10. Passed(v, to)
    <3>1. l + 1 \in 1 .. Len(v)
      BY <2>3
    <3> QED BY <3>1, <2>3 DEF Passed
  <2>11. ASSUME NEW j \in Ranked(r)
         PROVE  Passed(v, j) \/ r[j] > LastRank(r, v)
    <3>1. CASE Passed(s, j)
      BY <3>1, <2>9
    <3>2. CASE ~Passed(s, j)
      <4>1. r[j] > base
        BY <3>2, <1>3
      <4>2. r[to] <= r[j]
        BY <4>1, <1>10
      <4>3. r[to] = r[j] => to = j
        BY <1>10, LegalOrder
      <4> QED BY <4>2, <4>3, <1>4, <2>4, <2>5, <2>10
    <3> QED BY <3>1, <3>2
  <2>12. Len(v) <= n /\ (Len(v) = n \/ \A j \in Ranked(r) : Passed(v, j))
    BY <1>0, <1>3, <2>3, <2>9
  <2>13. \A i \in 1 .. Len(v) - 1 : r[v[i]] < r[v[i + 1]]
    <3>1. \A i \in 1 .. Len(v) - 1 : i \in 1 .. l
      BY <2>3
    <3> QED BY <3>1, <2>8
  <2> QED BY <2>7, <2>11, <2>12, <2>13 DEF ScanInv
<1> QED BY <1>8, <1>9, <1>10

\* A Scanner goes through all entries, in ascending order of their keys.
LEMMA ScanFinds ==
  ASSUME NEW r, Legal(r)
  PROVE  LET s == Scanned(r)
         IN  /\ s \in Seq(Slots) /\ Len(s) <= num_entries
             /\ Range(s) = Ranked(r)
             /\ \A i \in 1 .. Len(s) - 1 : key_at[s[i]] < key_at[s[i + 1]]
<1> USE DimensionAssumption
<1> DEFINE W == ScanLoop(r)
           s == W[num_entries]
           G == {n \in 0 .. num_entries : ScanInv(r, W[n], n)}
<1>1. \A n \in Slots : /\ W[0] = <<>>
                       /\ W[n] = Advance(r, W[n - 1])
                       /\ W[n] \in Seq(Slots) /\ W[n - 1] \in Seq(Slots)
  BY ScanLoopExists
<1>2. num_entries \in Slots
  BY DEF Slots
<1>3. \A i \in Ranked(r) : r[i] \in 1 .. num_entries /\ i \in Slots
  BY LegalOrder
<1>4. 0 \in G
  <2>1. W[0] = <<>>
    BY <1>1, <1>2
  <2>2. ScanInv(r, <<>>, 0)
    BY <1>3 DEF ScanInv, LastRank
  <2> HIDE DEF W
  <2> QED BY <2>1, <2>2
<1>5. \A n \in Slots : n - 1 \in G => n \in G
  <2> HIDE DEF W
  <2> SUFFICES ASSUME NEW n \in Slots, ScanInv(r, W[n - 1], n - 1)
               PROVE  ScanInv(r, W[n], n)
    BY DEF Slots
  <2> QED BY <1>1, AdvanceKeeps
<1>6. ScanInv(r, s, num_entries) /\ s \in Seq(Slots)
  <2> HIDE DEF G, W
  <2>1. num_entries \in G
    BY <1>4, <1>5, SlotInduction
  <2> QED BY <2>1, <1>1, <1>2 DEF G
<1>7. Scanned(r) = s
  BY Zenon DEF Scanned, ForSlots, ScanLoop
<1> HIDE DEF s
<1>8. \A j \in Ranked(r) : Passed(s, j)
  <2>1. CASE Len(s) = num_entries
    <3>1. /\ s # <<>> /\ num_entries \in 1 .. Len(s)
          /\ s[num_entries] \in Ranked(r)
      BY <2>1, <1>6 DEF ScanInv
    <3>2. LastRank(r, s) = r[s[num_entries]] /\ r[s[num_entries]] >= num_entries
      BY <2>1, <3>1, <1>6 DEF ScanInv, LastRank
    <3>3. \A j \in Ranked(r) : ~ (r[j] > LastRank(r, s))
      BY <1>3, <3>1, <3>2
    <3> QED BY <3>3, <1>6 DEF ScanInv
  <2>2. CASE Len(s) # num_entries
    BY <2>2, <1>6 DEF ScanInv
  <2> QED BY <2>1, <2>2
<1>9. Range(s) = Ranked(r)
  <2>1. DOMAIN s = 1 .. Len(s)
    BY <1>6
  <2>2. \A i \in 1 .. Len(s) : s[i] \in Ranked(r)
    BY <1>6 DEF ScanInv
  <2> QED BY <2>1, <2>2, <1>8 DEF Range, Passed
<1>10. \A i \in 1 .. Len(s) - 1 : key_at[s[i]] < key_at[s[i + 1]]
  <2> TAKE i \in 1 .. Len(s) - 1
  <2>1. PICK l \in Nat : l = Len(s)
    BY <1>6
  <2>2. i \in 1 .. Len(s) /\ i + 1 \in 1 .. Len(s)
    BY <2>1
  <2>3. s[i] \in Ranked(r) /\ s[i + 1] \in Ranked(r)
    BY <2>2, <1>6 DEF ScanInv
  <2>4. r[s[i]] < r[s[i + 1]]
    BY <1>6 DEF ScanInv
  <2> QED BY <2>3, <2>4, LegalOrder
<1>11. Len(s) <= num_entries
  BY <1>6 DEF ScanInv
<1> QED BY <1>6, <1>7, <1>9, <1>10, <1>11

-----------------------------------------------------------------------------
(* Splits                                                                   *)

Scores == [n : Int, prev : Nat]

Unscored == [n |-> num_entries, prev |-> 1]

\* One turn of the loop of optimal_boundary.
Score(r, w, i) ==
  IF i \notin Ranked(r) THEN w
  ELSE [n |-> IF w.prev < r[i] THEN w.n + 1 ELSE w.n - 1, prev |-> r[i]]

ScoreLoop(r) ==
  CHOOSE W : W = [n \in 0 .. num_entries |->
                    IF n = 0 THEN Unscored ELSE Score(r, W[n - 1], n)]

\* The loop of optimal_boundary.
LEMMA ScoreLoopExists ==
  ASSUME NEW r, Legal(r)
  PROVE  \A n \in Slots :
           /\ ScoreLoop(r)[0] = Unscored
           /\ ScoreLoop(r)[n] = Score(r, ScoreLoop(r)[n - 1], n)
           /\ ScoreLoop(r)[n] \in Scores
           /\ ScoreLoop(r)[n - 1] \in Scores
<1> USE DimensionAssumption
<1>0. PICK T : T = [x \in Scores \X Slots |-> Score(r, x[1], x[2])]
  OBVIOUS
<1>1. Unscored \in Scores
  BY DEF Unscored, Scores
<1>2. ASSUME NEW w \in Scores, NEW i \in Slots
      PROVE  Score(r, w, i) \in Scores
  <2>1. r[i] \in 0 .. removed_rank /\ i \in 0 .. num_entries
    BY DEF Legal, Ranks, Slots, uninit_rank
  <2> QED BY <2>1 DEF Scores, Score
<1>3. T \in [Scores \X Slots -> Scores]
  BY <1>0, <1>2
<1>4. \A w \in Scores, i \in Slots : T[<<w, i>>] = Score(r, w, i)
  BY <1>0
<1>5. \A n \in Slots :
        n # 0 /\ n - 1 \in 0 .. num_entries /\ n \in 0 .. num_entries
  BY DEF Slots
<1>6. \A n \in 0 .. num_entries : n # 0 => n \in Slots
  BY DEF Slots
<1>7. \E W : W = [n \in 0 .. num_entries |->
                  IF n = 0 THEN Unscored ELSE Score(r, W[n - 1], n)]
  <2>1. PICK W \in [0 .. num_entries -> Scores] : IsLoop(W, Unscored, T)
    BY <1>1, <1>3, LoopExists
  <2>2. \A n \in Slots : T[<<W[n - 1], n>>] = Score(r, W[n - 1], n)
    BY <1>4, <1>5
  <2>3. \A n \in 0 .. num_entries :
          W[n] = IF n = 0 THEN Unscored ELSE Score(r, W[n - 1], n)
    BY <2>1, <2>2, <1>6 DEF IsLoop
  <2>4. W = [n \in 0 .. num_entries |-> W[n]]
    OBVIOUS
  <2> QED BY <2>3, <2>4
<1>8. PICK V : /\ V = ScoreLoop(r)
               /\ V = [n \in 0 .. num_entries |->
                         IF n = 0 THEN Unscored ELSE Score(r, V[n - 1], n)]
  BY <1>7, Zenon DEF ScoreLoop
<1>9. \A n \in 0 .. num_entries :
        V[n] = IF n = 0 THEN Unscored ELSE Score(r, V[n - 1], n)
  BY <1>8, Zenon
<1>10. 0 \in 0 .. num_entries
  OBVIOUS
<1>11. V[0] = Unscored /\ \A n \in Slots : V[n] = Score(r, V[n - 1], n)
  BY <1>5, <1>9, <1>10, Zenon
<1>12. \A n \in Slots : V[n - 1] \in Scores => V[n] \in Scores
  BY <1>2, <1>11
<1>13. \A n \in 0 .. num_entries : V[n] \in Scores
  BY <1>1, <1>11, <1>12, LoopTyped
<1>14. \A n \in Slots : V[n] \in Scores /\ V[n - 1] \in Scores
  BY <1>5, <1>13
<1> QED BY <1>8, <1>11, <1>14, Zenon

\* The low-key leaf gets at least one entry, and fewer than there are slots.
LEMMA BoundaryLeavesRoom ==
  ASSUME NEW r, Legal(r), num_entries > 1
  PROVE  optimal_boundary(r) \in 1 .. num_entries - 1
<1> USE DimensionAssumption
<1> DEFINE w == ScoreLoop(r)[num_entries]
<1>1. num_entries \in Slots
  BY DEF Slots
<1>2. w \in Scores
  BY <1>1, ScoreLoopExists
<1>3. optimal_boundary(r) = Clamp(w.n) - num_entries \div 2
  BY Zenon DEF optimal_boundary, ForSlots, ScoreLoop, Score, Unscored
<1> HIDE DEF w
<1>4. w.n \in Int
  BY <1>2 DEF Scores
<1>5. PICK h \in Nat : h = num_entries \div 2
  OBVIOUS
<1>6. Clamp(w.n) \in h + 1 .. num_entries + h - 1
  BY <1>4, <1>5 DEF Clamp
<1> QED BY <1>3, <1>5, <1>6

\* A set has at most as many elements as there are indices for them.
LEMMA ImageIsSmall ==
  ASSUME NEW I, IsFiniteSet(I), NEW f, NEW F,
         \A x \in F : \E j \in I : x = f[j]
  PROVE  /\ Cardinality(F) \in Nat /\ Cardinality(I) \in Nat
         /\ Cardinality(F) <= Cardinality(I)
<1> DEFINE J == {j \in I : f[j] \in F}
           g == [j \in J |-> f[j]]
<1>1. /\ IsFiniteSet(J) /\ Cardinality(J) <= Cardinality(I)
      /\ Cardinality(J) \in Nat /\ Cardinality(I) \in Nat
  <2>1. J \subseteq I
    OBVIOUS
  <2> HIDE DEF J
  <2> QED BY <2>1, FS_Subset, FS_CardinalityType
<1>2. g \in Surjection(J, F)
  BY DEF Surjection
<1>3. IsFiniteSet(F) /\ Cardinality(F) <= Cardinality(J)
  <2> HIDE DEF J, g
  <2> QED BY <1>1, <1>2, FS_Surjection
<1>4. Cardinality(F) \in Nat
  BY <1>3, FS_CardinalityType
<1> HIDE DEF J
<1> QED BY <1>1, <1>3, <1>4

\* A split distributes all keys, and leaves room in both leaves.
LEMMA SplitDistributes ==
  ASSUME Legal(rank), num_entries > 1
  PROVE  SplitMakesRoom
<1> USE DimensionAssumption
<1> DEFINE s == Scanned(rank)
           b == optimal_boundary(rank)
           low == LowKeys(rank)
           high == HighKeys(rank)
<1>1. s \in Seq(Slots) /\ Len(s) <= num_entries /\ Range(s) = Ranked(rank)
  BY ScanFinds
<1>2. b \in 1 .. num_entries - 1
  BY BoundaryLeavesRoom
<1>3. low = {key_at[s[i]] : i \in {j \in DOMAIN s : j <= b}}
  BY DEF LowKeys
<1>4. high = {key_at[s[i]] : i \in {j \in DOMAIN s : j > b}}
  BY DEF HighKeys
<1> HIDE DEF s, b, low, high
<1>5. DOMAIN s = 1 .. Len(s) /\ Len(s) \in Nat
  BY <1>1
<1>6. KeysOf(rank) = {key_at[s[i]] : i \in DOMAIN s}
  <2>1. \A i \in DOMAIN s : s[i] \in Ranked(rank)
    BY <1>1 DEF Range
  <2>2. \A j \in Ranked(rank) : \E i \in DOMAIN s : s[i] = j
    BY <1>1 DEF Range
  <2> QED BY <2>1, <2>2 DEF KeysOf
<1>7. low \cup high = KeysOf(rank)
  <2>1. \A i \in DOMAIN s : i <= b \/ i > b
    BY <1>2, <1>5
  <2> QED BY <1>3, <1>4, <1>6, <2>1
<1>8. KeysOf(rank) # {} => low # {}
  <2> SUFFICES ASSUME KeysOf(rank) # {} PROVE low # {}
    OBVIOUS
  <2>1. DOMAIN s # {}
    BY <1>6
  <2>2. 1 \in DOMAIN s /\ 1 <= b
    BY <1>2, <1>5, <2>1
  <2>3. key_at[s[1]] \in low
    BY <1>3, <2>2
  <2> QED BY <2>3
<1>9. PICK f : f = [i \in DOMAIN s |-> key_at[s[i]]]
  OBVIOUS
<1>10. /\ low = {f[i] : i \in {j \in DOMAIN s : j <= b}}
       /\ high = {f[i] : i \in {j \in DOMAIN s : j > b}}
  BY <1>3, <1>4, <1>9
<1>11. Cardinality(low) < num_entries
  <2>1. PICK I, F : I = 1 .. b /\ F = low
    OBVIOUS
  <2>2. IsFiniteSet(I) /\ Cardinality(I) < num_entries
    BY <1>2, <2>1, FS_Interval
  <2>3. \A z \in F : \E j \in I : z = f[j]
    BY <1>1, <1>2, <1>5, <1>10, <2>1
  <2>4. Cardinality(F) \in Nat /\ Cardinality(I) \in Nat
        /\ Cardinality(F) <= Cardinality(I)
    BY <2>2, <2>3, ImageIsSmall
  <2> QED BY <2>1, <2>2, <2>4
<1>12. Cardinality(high) < num_entries
  <2>1. PICK I, F : I = 2 .. num_entries /\ F = high
    OBVIOUS
  <2>2. IsFiniteSet(I) /\ Cardinality(I) < num_entries
    BY <1>2, <2>1, FS_Interval
  <2>3. \A z \in F : \E j \in I : z = f[j]
    BY <1>1, <1>2, <1>5, <1>10, <2>1
  <2>4. Cardinality(F) \in Nat /\ Cardinality(I) \in Nat
        /\ Cardinality(F) <= Cardinality(I)
    BY <2>2, <2>3, ImageIsSmall
  <2> QED BY <2>1, <2>2, <2>4
<1> QED BY <1>7, <1>8, <1>11, <1>12 DEF SplitMakesRoom, low, high

-----------------------------------------------------------------------------

\* The metadata of the leaf, and the copies of it that threads have, are legal.
LEMMA MetadataIsLegal ==
  ASSUME LeafInv
  PROVE  /\ Legal(rank)
         /\ \A a \in Threads : Legal(seen[a])
<1>1. key_at \in [Slots -> Nat]
  <2>1. \A x \in Keys \cup {NoKey} : x \in Nat
    BY KeysAssumption DEF NoKey
  <2>2. key_at \in [Slots -> Keys \cup {NoKey}]
    BY DEF LeafInv, TypeOK
  <2> QED BY <2>1, <2>2
<1> QED BY <1>1 DEF LeafInv, TypeOK, RanksInOrder, SnapshotsValid, Legal

\* All loops compute what they stand for.
LEMMA LoopsCompute ==
  ASSUME LeafInv
  PROVE  LoopsAgree
<1>1. Legal(rank) /\ \A a \in Threads : Legal(seen[a])
  BY MetadataIsLegal
<1>2. \A k \in Keys : k \in Nat
  BY KeysAssumption
<1>3. ASSUME NEW a \in Threads, pc[a] = "post"
      PROVE  LET w == post_insert(seen[a], key[a])
             IN  /\ w.dup <=> Duplicate(seen[a], key[a])
                 /\ ~w.dup => [w.new EXCEPT ![slot[a]] = w.lo + 1]
                                = Augmented(seen[a], slot[a], key[a])
  <2>1. key[a] \in Keys /\ slot[a] \in Slots
    BY <1>3 DEF LeafInv, TypeOK, PendingOwned, Pending
  <2>2. PICK r, k, s : r = seen[a] /\ k = key[a] /\ s = slot[a]
    OBVIOUS
  <2>3. Legal(r) /\ k \in Nat /\ s \in Slots
    BY <1>1, <1>2, <2>1, <2>2
  <2> QED BY <2>2, <2>3, PlaceFinds
<1>4. /\ Range(Scanned(rank)) = Ranked(rank)
      /\ \A i \in 1 .. Len(Scanned(rank)) - 1 :
           key_at[Scanned(rank)[i]] < key_at[Scanned(rank)[i + 1]]
  BY <1>1, ScanFinds
<1>5. ASSUME NEW k \in Keys
      PROVE  LET here == {i \in Ranked(rank) : key_at[i] = k}
                 geq  == here \cup Above(rank, k)
             IN  /\ Finds(search_slot(rank, k), here)
                 /\ Finds(min_greater_equal(rank, k),
                          {i \in geq : \A j \in geq : key_at[i] <= key_at[j]})
                 /\ Finds(max_less(rank, k),
                          {i \in Below(rank, k) :
                             \A j \in Below(rank, k) : key_at[i] >= key_at[j]})
  <2>1. k \in Nat
    BY <1>2
  <2>2. PICK r : r = rank
    OBVIOUS
  <2>3. Legal(r)
    BY <1>1, <2>2
  <2> QED BY <2>1, <2>2, <2>3, SearchFinds, LessFinds
<1>6. Finds(max_entry(rank), {i \in Ranked(rank) :
                                \A j \in Ranked(rank) : key_at[i] >= key_at[j]})
  BY <1>1, MaxFinds
<1> QED BY <1>3, <1>4, <1>5, <1>6, Zenon DEF LoopsAgree

\* The single-pass loops over the slots of a leaf (search_slot, max_less,
\* min_greater_equal, max_entry, post_insert, next) find, place and visit what
\* they should, on every metadata a leaf or an operation can have.
THEOREM LoopsAgreeHolds == Spec => []LoopsAgree
<1>1. LeafInv => LoopsAgree
  BY LoopsCompute
<1> QED BY <1>1, LeafInvariant, PTL

\* A split (optimal_boundary, freeze_and_distribute) loses no key and leaves
\* room in both new leaves; all leaves of the crate have at least two slots.
THEOREM SplitMakesRoomHolds ==
  ASSUME num_entries > 1
  PROVE  Spec => []SplitMakesRoom
<1>1. LeafInv => SplitMakesRoom
  BY MetadataIsLegal, SplitDistributes
<1> QED BY <1>1, LeafInvariant, PTL

==============================================================================
