------------------------------ MODULE HashScan -------------------------------
(***************************************************************************)
(* The operations on all entries of a hash table, over module HashTable:   *)
(* any, retain and prune, which lock one bucket after the other; the       *)
(* OccupiedEntry as a mutable iterator (first_entry and next), which keeps *)
(* the lock of the bucket it is in while its user has it; and the Iter of  *)
(* a HashIndex, which locks nothing and looks into the old array first.    *)
(* All but Iter move the entries out of an old array before they start     *)
(* (clear_old_array), and all start over when they find at the end that    *)
(* the array has been replaced.                                            *)
(*                                                                         *)
(* A definition X_Mistake before X is X with the mistake it names.         *)
(***************************************************************************)
EXTENDS HashTable

CONSTANT
  CallsAgain    \* whether a user calls an Iter again that has returned None

At(t) == <<arr[t], pos[t]>>

\* In the loop over the buckets, with buckets left.
Scanning(t) == pc[t] = "scan" /\ op[t] # "iter" /\ pos[t] < size[arr[t]]

\* The bucket is done with: the scan goes on, having met K, without what it
\* has taken out of the table.
GoOn(t, K, taken) ==
  /\ pos' = [pos EXCEPT ![t] = @ + 1]
  /\ due' = [u \in Threads |-> due[u] \ (IF u = t THEN K \cup taken ELSE taken)]

\* any_entry and any_async: a bucket at a time, under a shared lock, until the
\* predicate holds for an entry.
AnyBucket(t) ==
  /\ Scanning(t) /\ op[t] = "any" /\ ~LockedX(At(t))
  /\ \/ GoOn(t, entries[At(t)], {}) /\ UNCHANGED pc
     \/ entries[At(t)] # {} /\ Goto(t, "done") /\ UNCHANGED <<pos, due>>
  /\ UNCHANGED <<arrayVars, bucketVars, lockVars, callVars, arr, seenTag, oldArr,
                 range, copied, rarr>>

\* retain_entries and retain_async: under an exclusive lock, the entries the
\* predicate rejects are erased.  A killed bucket is passed over.
RetainBucket(t) ==
  /\ Scanning(t) /\ op[t] = "retain" /\ ~Locked(At(t))
  /\ \E K \in SUBSET entries[At(t)] :
       /\ entries' = [entries EXCEPT ![At(t)] = @ \ K]
       /\ GoOn(t, entries[At(t)], K)
  /\ UNCHANGED <<arrayVars, killed, lockVars, pc, callVars, arr, seenTag, oldArr,
                 range, copied, rarr>>

\* prune_entries and prune_async: the values are given to the predicate, and
\* what it does not give back is gone.
PruneBucket(t) ==
  /\ Scanning(t) /\ op[t] = "prune" /\ ~Locked(At(t))
  /\ \E kept \in SUBSET entries[At(t)] :
       /\ entries' = [entries EXCEPT ![At(t)] = kept]
       /\ GoOn(t, entries[At(t)], entries[At(t)] \ kept)
  /\ UNCHANGED <<arrayVars, killed, lockVars, pc, callVars, arr, seenTag, oldArr,
                 range, copied, rarr>>

\* lock_first_entry, first_entry_async, and the loops of next and next_async:
\* the lock of a bucket with an entry is kept.
WalkBucket(t) ==
  /\ Scanning(t) /\ op[t] = "walk"
  /\ \/ /\ Killed(At(t)) \/ (~Locked(At(t)) /\ entries[At(t)] = {})
        /\ GoOn(t, {}, {})
        /\ UNCHANGED <<held, pc>>
     \/ /\ ~Killed(At(t)) /\ ~Locked(At(t)) /\ entries[At(t)] # {}
        /\ held' = [held EXCEPT ![t] = {At(t)}]
        /\ due' = [due EXCEPT ![t] = @ \ entries[At(t)]]
        /\ Goto(t, "occupied")
        /\ UNCHANGED pos
  /\ UNCHANGED <<arrayVars, bucketVars, shared, callVars, arr, seenTag, oldArr,
                 range, copied, rarr>>

Restarts_Never == FALSE
Restarts == old[array] # Null

\* LockedEntry::next and next_async after the last entry of the bucket: from the
\* first bucket if the table is being resized, or else from the next bucket of
\* what is the current array now.
WalkNext(t) ==
  /\ pc[t] = "occupied"
  /\ held' = [held EXCEPT ![t] = {}]
  /\ \/ /\ array = Null
        /\ Goto(t, "scanned")
        /\ UNCHANGED <<arr, pos>>
     \/ /\ array # Null /\ Restarts
        /\ Goto(t, "load")
        /\ pos' = [pos EXCEPT ![t] = 0]
        /\ UNCHANGED arr
     \/ /\ array # Null /\ ~Restarts
        /\ arr' = [arr EXCEPT ![t] = array]
        /\ pos' = [pos EXCEPT ![t] = @ + 1]
        /\ Goto(t, "scan")
  /\ UNCHANGED <<arrayVars, bucketVars, shared, callVars, seenTag, oldArr, range,
                 copied, rarr, due>>

\* The last bucket is behind: is the array still the one that was scanned?
ScanEnd(t) ==
  /\ pc[t] = "scan" /\ op[t] # "iter" /\ pos[t] >= size[arr[t]]
  /\ pos' = [pos EXCEPT ![t] = 0]
  /\ Goto(t, "reload")
  /\ UNCHANGED <<arrayVars, bucketVars, lockVars, callVars, arr, seenTag,
                 oldArr, range, copied, rarr, due>>

\* A retain or a prune that has removed something tries to resize the table.
TryResize(t) ==
  /\ pc[t] = "scanned" /\ op[t] \in {"retain", "prune"}
  /\ Goto(t, "rload")
  /\ UNCHANGED <<arrayVars, bucketVars, lockVars, callVars, localVars, due>>

-----------------------------------------------------------------------------
(* Iter::next                                                               *)

\* The old array, if the array a has one, is looked through before a.
OldFirst(a) == IF old[a] # Null THEN old[a] ELSE a

IterStart(t) ==
  /\ pc[t] = "old" /\ op[t] = "iter"
  /\ arr' = [arr EXCEPT ![t] = OldFirst(arr[t])]
  /\ Goto(t, "scan")
  /\ UNCHANGED <<arrayVars, bucketVars, lockVars, callVars, seenTag, oldArr, range,
                 pos, copied, rarr, due>>

IterBucket(t) ==
  /\ pc[t] = "scan" /\ op[t] = "iter" /\ pos[t] < size[arr[t]]
  /\ GoOn(t, entries[At(t)], {})
  /\ UNCHANGED <<arrayVars, bucketVars, lockVars, pc, callVars, arr, seenTag,
                 oldArr, range, copied, rarr>>

\* All buckets have been visited: the end, or the current array is another one.
IterEnd(t) ==
  /\ pc[t] = "scan" /\ op[t] = "iter" /\ pos[t] = size[arr[t]]
  /\ \/ /\ array \in {Null, arr[t]}
        /\ Goto(t, "scanned")
        /\ UNCHANGED <<arr, oldArr>>
     \/ /\ array \notin {Null, arr[t]}
        /\ oldArr' = [oldArr EXCEPT ![t] = arr[t]]
        /\ arr' = [arr EXCEPT ![t] = array]
        /\ Goto(t, "switch")
  /\ UNCHANGED <<arrayVars, bucketVars, lockVars, callVars, seenTag, range, pos,
                 copied, rarr, due>>

IterFrom(scanned, a) == IF old[a] = scanned THEN a ELSE OldFirst(a)

\* The current array follows the old one that has been visited; otherwise all
\* begins anew.
IterSwitch(t) ==
  /\ pc[t] = "switch"
  /\ arr' = [arr EXCEPT ![t] = IterFrom(oldArr[t], arr[t])]
  /\ oldArr' = [oldArr EXCEPT ![t] = Null]
  /\ pos' = [pos EXCEPT ![t] = 0]
  /\ Goto(t, "scan")
  /\ UNCHANGED <<arrayVars, bucketVars, lockVars, callVars, seenTag, range, copied,
                 rarr, due>>

\* The user is done with a scan; Iter declares that it may be called again.
ScanReturn(t) ==
  /\ pc[t] = "scanned"
  /\ \/ /\ Return(t)
     \/ /\ CallsAgain /\ op[t] = "iter" /\ arr[t] # Null
        /\ pos' = [pos EXCEPT ![t] = @ + 1]
        /\ Goto(t, "scan")
        /\ UNCHANGED <<callVars, arr, seenTag, oldArr, range, copied, rarr, due>>
  /\ UNCHANGED <<arrayVars, bucketVars, lockVars>>

ScanStep(t) ==
  \/ AnyBucket(t) \/ RetainBucket(t) \/ PruneBucket(t) \/ WalkBucket(t)
  \/ WalkNext(t) \/ ScanEnd(t) \/ TryResize(t)
  \/ IterStart(t) \/ IterBucket(t) \/ IterEnd(t) \/ IterSwitch(t) \/ ScanReturn(t)

Next == \E t \in Threads : TableStep(t) \/ ScanStep(t)

Spec == Init /\ [][Next]_vars

-----------------------------------------------------------------------------
(* Correctness                                                              *)

\* The assertion of BucketArray::bucket, index < num_buckets: the index of a scan
\* stays within the array or at its end.
InBounds ==
  \A t \in Threads : pc[t] = "scan" => pos[t] <= size[arr[t]]
=============================================================================
