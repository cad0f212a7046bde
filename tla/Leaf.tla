-------------------------------- MODULE Leaf --------------------------------
(***************************************************************************)
(* The lock-free ordered array at the bottom of a TreeIndex:               *)
(* src/tree_index/leaf.rs.                                                 *)
(*                                                                         *)
(* One metadata word holds the rank of every slot and two flags, and every *)
(* change is a compare-exchange of that word.  An insertion reserves an    *)
(* uninitialized slot by giving it the removed rank, writes its entry, and *)
(* then gives the slot a rank that fits the order of the keys, moving the  *)
(* higher ranks up by one; when that turns out to be impossible it takes   *)
(* the entry back.  A removed slot is not used again.  LeafNode freezes a  *)
(* leaf to split it and thaws it when the split is rolled back.            *)
(*                                                                         *)
(* Values go with their keys and are left out; a removal's condition is a  *)
(* free choice.  An entry is written and read while only its owner, or     *)
(* nobody, can change it, so those accesses belong to the steps that       *)
(* publish them.  Every access to the metadata is a step of its own.       *)
(*                                                                         *)
(* A definition X_Mistake before X is X with the mistake it names: each    *)
(* breaks one of the properties at the end of the module.                  *)
(***************************************************************************)
EXTENDS Naturals, FiniteSets

CONSTANTS
  Threads,
  Keys,
  num_entries,    \* Dimension::num_entries, the number of slots
  removed_rank    \* Dimension::removed_rank, above all ranks

ASSUME KeysAssumption == Keys \subseteq Nat \ {0}

ASSUME DimensionAssumption ==
  /\ num_entries \in Nat \ {0}
  /\ removed_rank \in Nat /\ removed_rank > num_entries

Slots == 1 .. num_entries
uninit_rank == 0
NoKey == 0

VARIABLES
  rank,      \* the rank of each slot in the metadata
  frozen,    \* the frozen bit of the metadata
  retired,   \* the retired bit of the metadata
  key_at,    \* the key in each slot
  pc,        \* where each thread is
  key,       \* the key of a thread's operation
  slot,      \* the slot a thread has reserved or found
  seen,      \* the ranks a thread read from the metadata
  result,    \* what a thread's last operation returned
  met        \* the threads whose key was in the leaf during the operation

word == <<rank, frozen, retired>>
locals == <<pc, key, slot, seen, result>>
vars == <<rank, frozen, retired, key_at, pc, key, slot, seen, result, met>>

PCs == {"idle", "reserve", "post", "rollback", "remove", "scan", "split"}

\* InsertResult::Duplicate; InsertResult::Full or Retired, which let the
\* caller split the leaf; all other results.
Results == {"duplicate", "split", "other"}

Ranked(r) == {i \in Slots : r[i] # uninit_rank /\ r[i] # removed_rank}
KeysOf(r) == {key_at[i] : i \in Ranked(r)}
Contents == KeysOf(rank)

\* A new leaf: empty, or filled from the first slot on by insert_unchecked.
Fillings ==
  {f \in [Slots -> Keys \cup {NoKey}] :
     \A i, j \in Slots :
       i < j => \/ f[j] = NoKey
                \/ f[i] # NoKey /\ f[i] < f[j]}

Init ==
  /\ key_at \in Fillings
  /\ rank = [i \in Slots |-> IF key_at[i] = NoKey THEN uninit_rank ELSE i]
  /\ frozen = 0 /\ retired = 0
  /\ pc = [a \in Threads |-> "idle"]
  /\ key = [a \in Threads |-> NoKey]
  /\ slot = [a \in Threads |-> 1]
  /\ seen = [a \in Threads |-> [i \in Slots |-> uninit_rank]]
  /\ result = [a \in Threads |-> "other"]
  /\ met = {}

Goto(a, l) == pc' = [pc EXCEPT ![a] = l]

\* The operation ends; its locals are reset.
Return(a, res) ==
  /\ Goto(a, "idle")
  /\ result' = [result EXCEPT ![a] = res]
  /\ key' = [key EXCEPT ![a] = NoKey]
  /\ slot' = [slot EXCEPT ![a] = 1]
  /\ seen' = [seen EXCEPT ![a] = [i \in Slots |-> uninit_rank]]

Matches_Frozen(a) == rank = seen[a] /\ retired = 0

\* The compare part of a compare-exchange.  The expected word has neither
\* flag: the operations return as soon as they read one (remove_if reads no
\* retired word with a ranked slot).
Matches(a) == rank = seen[a] /\ frozen = 0 /\ retired = 0

-----------------------------------------------------------------------------
(* Leaf::insert                                                             *)

FreeSlot_Removed(r, i) == r[i] \in {uninit_rank, removed_rank}

\* The first uninitialized slot.
FreeSlot(r, i) ==
  /\ r[i] = uninit_rank
  /\ \A j \in Slots : j < i => r[j] # uninit_rank

\* 'after_read_metadata with the metadata at hand: an early return, or the
\* slot to reserve.
InsertRead(a, k) ==
  \/ /\ retired = 1 /\ Return(a, "split")
  \/ /\ retired = 0 /\ frozen = 1 /\ Return(a, "other")
  \/ /\ retired = 0 /\ frozen = 0
     /\ \E i \in Slots :
          /\ FreeSlot(rank, i)
          /\ slot' = [slot EXCEPT ![a] = i]
     /\ seen' = [seen EXCEPT ![a] = rank]
     /\ key' = [key EXCEPT ![a] = k]
     /\ result' = [result EXCEPT ![a] = "other"]
     /\ Goto(a, "reserve")
  \/ /\ retired = 0 /\ frozen = 0
     /\ \A i \in Slots : rank[i] # uninit_rank
     /\ Return(a, IF k \in KeysOf(rank) THEN "duplicate" ELSE "split")

\* The operation begins.
Insert(a, k) ==
  /\ pc[a] = "idle"
  /\ InsertRead(a, k)
  /\ met' = IF k \in Contents THEN met \cup {a} ELSE met \ {a}
  /\ UNCHANGED <<word, key_at>>

\* The slot is reserved and its entry written, or the metadata has changed.
Reserve(a) ==
  /\ pc[a] = "reserve"
  /\ \/ /\ Matches(a)
        /\ rank' = [rank EXCEPT ![slot[a]] = removed_rank]
        /\ seen' = [seen EXCEPT ![a] = rank']
        /\ key_at' = [key_at EXCEPT ![slot[a]] = key[a]]
        /\ Goto(a, "post")
        /\ UNCHANGED <<key, slot, result>>
     \/ /\ ~Matches(a)
        /\ InsertRead(a, key[a])
        /\ UNCHANGED <<rank, key_at>>
  /\ UNCHANGED <<frozen, retired, met>>

Below(r, k) == {i \in Ranked(r) : key_at[i] < k}
Above(r, k) == {i \in Ranked(r) : key_at[i] > k}

\* max_min_rank: the highest rank among the smaller keys.
MaxMinRank(r, k) ==
  CHOOSE n \in 0 .. num_entries :
    /\ n = 0 \/ \E i \in Below(r, k) : r[i] = n
    /\ \A i \in Below(r, k) : r[i] <= n

Augmented_NoShift(r, s, k) == [r EXCEPT ![s] = MaxMinRank(r, k) + 1]


\* final_metadata: the new entry follows the smaller keys, and the ranks of
\* the greater keys move up.
Augmented(r, s, k) ==
  [i \in Slots |-> IF i = s THEN MaxMinRank(r, k) + 1
                   ELSE IF i \in Above(r, k) THEN r[i] + 1
                   ELSE r[i]]

Duplicate(r, k) == \E i \in Ranked(r) : key_at[i] = k

\* Leaf::post_insert.
PostInsert(a) ==
  /\ pc[a] = "post"
  /\ \/ /\ Duplicate(seen[a], key[a])
        /\ Goto(a, "rollback")
        /\ UNCHANGED <<rank, key, slot, seen, result, met>>
     \/ /\ ~Duplicate(seen[a], key[a]) /\ Matches(a)
        /\ rank' = Augmented(seen[a], slot[a], key[a])
        /\ met' = met \cup {b \in Threads : b # a /\ key[b] = key[a]}
        /\ Return(a, "other")
     \/ /\ ~Duplicate(seen[a], key[a]) /\ ~Matches(a)
        /\ frozen = 1 \/ retired = 1
        /\ Goto(a, "rollback")
        /\ UNCHANGED <<rank, key, slot, seen, result, met>>
     \/ /\ ~Duplicate(seen[a], key[a]) /\ ~Matches(a)
        /\ frozen = 0 /\ retired = 0
        /\ seen' = [seen EXCEPT ![a] = rank]
        /\ UNCHANGED <<rank, pc, key, slot, result, met>>
  /\ UNCHANGED <<frozen, retired, key_at>>

\* What Leaf::rollback makes of the metadata it leaves behind.
RollbackResult ==
  IF retired = 1 THEN "split" ELSE IF frozen = 1 THEN "other" ELSE "duplicate"

\* Leaf::rollback: the entry is taken out and the slot is uninitialized again.
Rollback(a) ==
  /\ pc[a] = "rollback"
  /\ rank' = [rank EXCEPT ![slot[a]] = uninit_rank]
  /\ key_at' = [key_at EXCEPT ![slot[a]] = NoKey]
  /\ Return(a, RollbackResult)
  /\ UNCHANGED <<frozen, retired, met>>

-----------------------------------------------------------------------------
(* Leaf::remove_if and readers                                              *)

RemoveIf(a, k) ==
  /\ pc[a] = "idle" /\ frozen = 0
  /\ \E i \in Ranked(rank) :
       /\ key_at[i] = k
       /\ slot' = [slot EXCEPT ![a] = i]
  /\ seen' = [seen EXCEPT ![a] = rank]
  /\ key' = [key EXCEPT ![a] = NoKey]
  /\ result' = [result EXCEPT ![a] = "other"]
  /\ Goto(a, "remove")
  /\ UNCHANGED <<word, key_at, met>>

Empties_Never(r, s) == FALSE

\* The leaf retires when no other slot is ranked.
Empties(r, s) == Ranked(r) \subseteq {s}

\* One turn of the loop: the condition fails; or the exchange succeeds; or
\* the entry is gone, the leaf frozen, or the exchange is tried again.
RemoveExchange(a) ==
  /\ pc[a] = "remove"
  /\ \/ Return(a, "other") /\ UNCHANGED <<rank, retired>>
     \/ /\ Matches(a)
        /\ rank' = [rank EXCEPT ![slot[a]] = removed_rank]
        /\ retired' = IF Empties(seen[a], slot[a]) THEN 1 ELSE retired
        /\ Return(a, "other")
     \/ /\ ~Matches(a)
        /\ rank[slot[a]] # removed_rank /\ frozen = 0
        /\ seen' = [seen EXCEPT ![a] = rank]
        /\ UNCHANGED <<rank, retired, pc, key, slot, result>>
  /\ UNCHANGED <<frozen, key_at, met>>

\* A Scanner, or one of the searches, works on the metadata it has read.
Scan(a) ==
  /\ pc[a] = "idle"
  /\ seen' = [seen EXCEPT ![a] = rank]
  /\ Goto(a, "scan")
  /\ UNCHANGED <<word, key_at, key, slot, result, met>>

EndScan(a) ==
  /\ pc[a] = "scan"
  /\ Return(a, "other")
  /\ UNCHANGED <<word, key_at, met>>

-----------------------------------------------------------------------------
(* LeafNode::split_leaf, as far as the leaf is concerned                    *)

\* The thread whose insertion failed locks the LeafNode and freezes the leaf
\* (freeze_and_distribute).  A frozen leaf that nobody splits has been
\* replaced; split_leaf finds out before it comes here.
Freeze(a) ==
  /\ pc[a] = "idle" /\ result[a] = "split"
  /\ frozen = 0 /\ \A b \in Threads : pc[b] # "split"
  /\ frozen' = 1
  /\ seen' = [seen EXCEPT ![a] = rank]
  /\ result' = [result EXCEPT ![a] = "other"]
  /\ Goto(a, "split")
  /\ UNCHANGED <<rank, retired, key_at, key, slot, met>>

\* The new leaves have replaced this one, which stays frozen.
Commit(a) ==
  /\ pc[a] = "split"
  /\ Return(a, "other")
  /\ UNCHANGED <<word, key_at, met>>

\* LeafNode::rollback: there was no room for the new leaves.
Thaw(a) ==
  /\ pc[a] = "split"
  /\ frozen' = 0
  /\ Return(a, "other")
  /\ UNCHANGED <<rank, retired, key_at, met>>

-----------------------------------------------------------------------------

Next ==
  \E a \in Threads :
    \/ \E k \in Keys : Insert(a, k) \/ RemoveIf(a, k)
    \/ Reserve(a) \/ PostInsert(a) \/ Rollback(a)
    \/ RemoveExchange(a)
    \/ Scan(a) \/ EndScan(a)
    \/ Freeze(a) \/ Commit(a) \/ Thaw(a)

Spec == Init /\ [][Next]_vars

-----------------------------------------------------------------------------
(* Correctness                                                              *)

Ranks == {uninit_rank, removed_rank} \cup 1 .. num_entries

TypeOK ==
  /\ rank \in [Slots -> Ranks]
  /\ frozen \in 0 .. 1 /\ retired \in 0 .. 1
  /\ key_at \in [Slots -> Keys \cup {NoKey}]
  /\ pc \in [Threads -> PCs]
  /\ key \in [Threads -> Keys \cup {NoKey}]
  /\ slot \in [Threads -> Slots]
  /\ seen \in [Threads -> [Slots -> Ranks]]
  /\ result \in [Threads -> Results]
  /\ met \subseteq Threads

\* The order of the ranks is the order of the keys.
InOrder(r) ==
  \A i, j \in Ranked(r) :
    /\ r[i] < r[j] <=> key_at[i] < key_at[j]
    /\ i # j => key_at[i] # key_at[j]

\* The entries are strictly ordered at every moment, so that searches that
\* skip by rank find what is there and no key is in the leaf twice.
RanksInOrder == InOrder(rank)

\* The threads that own a reserved slot.
Pending == {a \in Threads : pc[a] \in {"post", "rollback"}}
PendingSlots == {slot[a] : a \in Pending}

\* Slots that hold an entry for good.
Used == {i \in Slots : rank[i] # uninit_rank} \ PendingSlots

\* A reserved slot belongs to one thread and holds its key.
PendingOwned ==
  \A a \in Pending :
    /\ rank[slot[a]] = removed_rank
    /\ key_at[slot[a]] = key[a] /\ key[a] \in Keys
    /\ \A b \in Pending : a # b => slot[a] # slot[b]

\* A ranked slot holds a key.
RankedHoldKeys == \A i \in Ranked(rank) : key_at[i] \in Keys

\* What an operation has found or frozen is still as it found it.
OperationsWellFormed ==
  \A a \in Threads :
    /\ pc[a] = "reserve" => /\ seen[a][slot[a]] = uninit_rank
                            /\ key[a] \in Keys
    /\ pc[a] = "remove" => slot[a] \in Ranked(seen[a])
    /\ pc[a] = "split" => /\ frozen = 1
                          /\ \A b \in Threads : pc[b] = "split" => a = b

\* Ranks count insertions, removed entries included: none outgrows its field
\* of the metadata or reaches the removed rank.
RanksBounded == \A i \in Ranked(rank) : rank[i] <= Cardinality(Used)

\* The metadata a thread works on stays valid however old it is: the entries
\* it ranks are still there, in order ("A constructed key-value pair entry is
\* never dropped until the entire Leaf instance is dropped").
SnapshotsValid ==
  \A a \in Threads :
    /\ Ranked(seen[a]) \subseteq Used
    /\ \A i \in Ranked(seen[a]) : key_at[i] \in Keys
    /\ InOrder(seen[a])

\* An insertion that raced with the removal of the last entry does not put
\* its entry into a leaf that is about to be unlinked.
RetiredIsEmpty == retired = 1 => Contents = {}

\* The split works on exactly the entries of the leaf: between the freezing
\* and the end of the split none is added to it or removed from it.
SplitLosesNothing ==
  \A a \in Threads : pc[a] = "split" => KeysOf(seen[a]) = Contents

\* TreeIndex::insert: "Returns an error along with the supplied key-value
\* pair if the key exists."
DuplicateIsReal == \A a \in Threads : result[a] = "duplicate" => a \in met

\* The properties above with what keeps them: inductive.
LeafInv ==
  /\ TypeOK
  /\ PendingOwned
  /\ OperationsWellFormed
  /\ RankedHoldKeys
  /\ RanksInOrder
  /\ RanksBounded
  /\ SnapshotsValid
  /\ RetiredIsEmpty
  /\ SplitLosesNothing

Abstract ==
  INSTANCE LeafSet WITH contents <- Contents, closed <- frozen,
                        done <- retired

\* A leaf is a set of keys that changes atomically.
RefinesLeafSet == Abstract!Spec

=============================================================================
