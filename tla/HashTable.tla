------------------------------ MODULE HashTable ------------------------------
(***************************************************************************)
(* The hash table behind HashMap, HashIndex, HashCache and HashSet:        *)
(* src/hash_table.rs and src/hash_table/bucket_array.rs.                   *)
(*                                                                         *)
(* A resize attaches the current bucket array to a new one as its old      *)
(* array.  Whoever uses the table then helps moving the entries: it claims *)
(* a range of old buckets, and the bucket of its own key in any case.  A   *)
(* bucket that has been moved is killed, and whoever finds a killed bucket *)
(* starts over with the current array.  An empty table is dropped.         *)
(* The operations on one entry are here, those on all of them in module    *)
(* HashScan.                                                               *)
(*                                                                         *)
(* Locking a bucket is atomic here (module BucketLock), a thread that is   *)
(* waiting has no step, and a task of AsyncThreads gives its attempt up    *)
(* and starts over.  Whether a resize is due is a matter of sampled entry  *)
(* counts; here it always may be.  An entry is its key.  A HashIndex       *)
(* (OPTIMISTIC) is read without locks and copies entries before it erases  *)
(* them; the other types move them.  Arrays are numbered, 0 is null, and   *)
(* an array is not used again.                                             *)
(*                                                                         *)
(* A definition X_Mistake before X is X with the mistake it names.         *)
(***************************************************************************)
EXTENDS Naturals, FiniteSets

CONSTANTS
  Threads,
  AsyncThreads,   \* the threads that use the asynchronous interface
  Keys,
  Hash,           \* [Keys -> 0 .. HashRange - 1]
  HashRange,
  Sizes,          \* the numbers of buckets an array can have
  MaxArrays,      \* bound: arrays allocated in a behaviour
  RangeLen,       \* buckets claimed at a time: BUCKET_LEN
  MaxRehashers,   \* threads rehashing at a time: BUCKET_LEN - 1
  Types,          \* the types of tables
  Ops             \* the operations each thread uses on a table of a type

\* The operations on a key, and those on the whole table.
KeyOps == {"insert", "entry", "remove", "get", "read"}
ScanOps == {"any", "retain", "prune", "walk", "iter"}
Operations == KeyOps \cup ScanOps \cup {"resize"}

\* All sizes are powers of two (calculate_log2_array_size), so one divides
\* another.
ASSUME TableAssumption ==
  /\ IsFiniteSet(Threads) /\ AsyncThreads \subseteq Threads
  /\ HashRange \in Nat \ {0} /\ Hash \in [Keys -> 0 .. HashRange - 1]
  /\ Sizes # {} /\ \A s \in Sizes : s \in 1 .. HashRange /\ HashRange % s = 0
  /\ \A r, s \in Sizes : r <= s => s % r = 0
  /\ MaxArrays \in Nat /\ RangeLen \in Nat \ {0}
  /\ MaxRehashers \in Nat \ {0}
  /\ Types \subseteq {"SEQUENTIAL", "OPTIMISTIC"}
  /\ Ops \in [Types -> [Threads -> SUBSET Operations]]

Arrays == 1 .. MaxArrays
Null == 0
Buckets == Arrays \X (0 .. HashRange - 1)

VARIABLES
  type,      \* TYPE of the table
  array,     \* bucket_array, the pointer
  tag,       \* Tag::First of bucket_array: a thread is resizing
  size,      \* num_buckets of each array, 0 before its allocation
  old,       \* old_array of each array
  next,      \* rehashing_metadata, high bits: how many ranges are claimed
  refs,      \* rehashing_metadata, low bits: the threads rehashing
  entries,   \* the keys in each bucket
  killed,    \* the killed buckets
  held,      \* the buckets a thread has locked exclusively
  shared,    \* the buckets a thread has locked shared
  pc,        \* where a thread is
  op,        \* its operation
  key,       \* the key of its operation
  arr,       \* the array it works on
  seenTag,   \* the tag it has loaded with it
  oldArr,    \* the old array it has loaded from arr
  range,     \* the range it has claimed, from 1 on
  pos,       \* the index of the bucket it is at
  copied,    \* the keys it has copied and has yet to erase
  rarr,      \* the array it tries to resize
  due        \* history: the keys it looks for that have been in the table since
             \* its invocation and that it has not found yet

arrayVars == <<type, array, tag, size, old, next, refs>>
bucketVars == <<entries, killed>>
lockVars == <<held, shared>>
callVars == <<op, key>>
moveVars == <<range, pos, copied>>
localVars == <<arr, seenTag, oldArr, range, pos, copied, rarr>>
vars == <<type, array, tag, size, old, next, refs, entries, killed, held,
          shared, pc, op, key, arr, seenTag, oldArr, range, pos, copied, rarr,
          due>>

Optimistic == type = "OPTIMISTIC"

Goto(t, l) == pc' = [pc EXCEPT ![t] = l]

\* The arrays that can be reached from the table.
Reachable ==
  IF array = Null THEN {} ELSE {array, old[array]} \ {Null}

BucketsOf(a) == {a} \X (0 .. size[a] - 1)

Contents == UNION {entries[b] : b \in UNION {BucketsOf(a) : a \in Reachable}}

\* The array the next allocation gets.
Fresh == {a \in Arrays : size[a] = 0 /\ \A b \in Arrays : b < a => size[b] # 0}

\* calculate_bucket_index: the upper bits of the hash.
Index(a, k) == Hash[k] \div (HashRange \div size[a])
BucketOf(a, k) == <<a, Index(a, k)>>

Ranges(a) == (size[a] + RangeLen - 1) \div RangeLen

Init ==
  /\ type \in Types
  /\ array = Null /\ tag = FALSE
  /\ size = [a \in Arrays |-> 0]
  /\ old = [a \in Arrays |-> Null]
  /\ next = [a \in Arrays |-> 0] /\ refs = [a \in Arrays |-> 0]
  /\ entries = [b \in Buckets |-> {}] /\ killed = {}
  /\ held = [t \in Threads |-> {}] /\ shared = [t \in Threads |-> {}]
  /\ pc = [t \in Threads |-> "idle"]
  /\ op = [t \in Threads |-> "none"] /\ key = [t \in Threads |-> Null]
  /\ arr = [t \in Threads |-> Null] /\ seenTag = [t \in Threads |-> FALSE]
  /\ oldArr = [t \in Threads |-> Null]
  /\ range = [t \in Threads |-> 0] /\ pos = [t \in Threads |-> 0]
  /\ copied = [t \in Threads |-> {}]
  /\ rarr = [t \in Threads |-> Null]
  /\ due = [t \in Threads |-> {}]

-----------------------------------------------------------------------------
(* Bucket locks, as in module RwLock                                        *)

LockedX(b) == \E u \in Threads : b \in held[u]
Locked(b) == LockedX(b) \/ \E u \in Threads : b \in shared[u]

\* try_lock fails instead of waiting: in a task, and in the rehashing that a
\* lock-free read does on its way (TRY_LOCK).
Impatient(t) == t \in AsyncThreads \/ (Optimistic /\ op[t] = "read")

Killed_Unchecked(b) == FALSE

\* A killed bucket is not locked: its entries are elsewhere.
Killed(b) == b \in killed

-----------------------------------------------------------------------------
(* Operations                                                               *)

\* HashIndex has an Iter, the other types have any and prune.
Offered(o) == IF Optimistic THEN o \notin {"any", "prune"} ELSE o # "iter"

Begin(t, o, k) ==
  /\ pc[t] = "idle"
  /\ Goto(t, IF o = "resize" THEN "rload" ELSE "load")
  /\ op' = [op EXCEPT ![t] = o]
  /\ Offered(o)
  /\ key' = [key EXCEPT ![t] = IF o \in KeyOps THEN k ELSE Null]
  /\ due' = [due EXCEPT ![t] = IF o = "read" THEN Contents \cap {k}
                               ELSE IF o \in ScanOps THEN Contents ELSE {}]
  /\ UNCHANGED <<arrayVars, bucketVars, lockVars, localVars>>

\* The operation returns and its locals are gone.
Return(t) ==
  /\ Goto(t, "idle")
  /\ op' = [op EXCEPT ![t] = "none"] /\ key' = [key EXCEPT ![t] = Null]
  /\ arr' = [arr EXCEPT ![t] = Null]
  /\ seenTag' = [seenTag EXCEPT ![t] = FALSE]
  /\ oldArr' = [oldArr EXCEPT ![t] = Null]
  /\ range' = [range EXCEPT ![t] = 0] /\ pos' = [pos EXCEPT ![t] = 0]
  /\ copied' = [copied EXCEPT ![t] = {}]
  /\ rarr' = [rarr EXCEPT ![t] = Null]
  /\ due' = [due EXCEPT ![t] = {}]

\* Keys have gone from the table.
Gone(K) == due' = [u \in Threads |-> due[u] \ K]

\* Where an operation that has found nothing in the table goes.
NotFound(t) == IF op[t] \in ScanOps THEN "scanned"
               ELSE IF op[t] = "read" THEN "missing" ELSE "done"

\* A new array that takes the place of the current one.
Allocate(a, s, o) ==
  /\ a \in Fresh
  /\ size' = [size EXCEPT ![a] = s]
  /\ old' = [old EXCEPT ![a] = o]
  /\ array' = a

\* The size for a minimum capacity of 0.
SmallestSize == CHOOSE s \in Sizes : \A r \in Sizes : s <= r

\* Only lookups look at the tag of what they have loaded.
Lookup(t) == op[t] \in {"get", "read"}

\* reserve_entry, for an insertion or for the user.
Reserves(t) == op[t] \in {"insert", "entry"}

\* The load of bucket_array; whoever reserves an entry allocates the first
\* array (get_current_array).
Load(t) ==
  /\ pc[t] = "load"
  /\ \/ /\ array # Null
        /\ arr' = [arr EXCEPT ![t] = array]
        /\ seenTag' = [seenTag EXCEPT ![t] = Lookup(t) /\ tag]
        /\ Goto(t, "old")
        /\ UNCHANGED <<array, size, old>>
     \/ /\ array = Null /\ Reserves(t)
        /\ \E a \in Arrays :
             /\ Allocate(a, SmallestSize, Null)
             /\ arr' = [arr EXCEPT ![t] = a]
        /\ seenTag' = [seenTag EXCEPT ![t] = FALSE]
        /\ Goto(t, "old")
     \/ /\ array = Null /\ ~Reserves(t)
        /\ Goto(t, NotFound(t))
        /\ UNCHANGED <<array, size, old, arr, seenTag>>
  /\ UNCHANGED <<type, tag, next, refs, bucketVars, lockVars, callVars, oldArr,
                 moveVars, rarr, due>>

\* Where the operation does its work once no old array is in the way.
Work(t) == IF op[t] \in ScanOps THEN "scan"
           ELSE IF op[t] = "read" /\ Optimistic THEN "search" ELSE "lock"

\* The load of old_array.  An insertion may find the array too small if there
\* is no old one (try_enlarge).
LoadOld(t) ==
  /\ pc[t] = "old" /\ op[t] # "iter"
  /\ oldArr' = [oldArr EXCEPT ![t] = old[arr[t]]]
  /\ \/ old[arr[t]] # Null /\ Goto(t, "claim")
     \/ old[arr[t]] = Null /\ Goto(t, Work(t))
     \/ old[arr[t]] = Null /\ Reserves(t) /\ Goto(t, "rload")
  /\ UNCHANGED <<arrayVars, bucketVars, lockVars, callVars, arr, seenTag,
                 moveVars, rarr, due>>

-----------------------------------------------------------------------------
(* incremental_rehash                                                       *)

Claimable_NoLimit(a) == next[a] < Ranges(a)
Claimable(a) == next[a] < Ranges(a) /\ refs[a] < MaxRehashers

\* A range is claimed together with a reference, or there is none to claim.
Claim(t) ==
  /\ pc[t] = "claim"
  /\ LET a == oldArr[t] IN
       \/ /\ Claimable(a)
          /\ next' = [next EXCEPT ![a] = @ + 1]
          /\ refs' = [refs EXCEPT ![a] = @ + 1]
          /\ range' = [range EXCEPT ![t] = next[a] + 1]
          /\ pos' = [pos EXCEPT ![t] = next[a] * RangeLen]
          /\ Goto(t, "bucket")
       \/ /\ ~Claimable(a)
          /\ Goto(t, "check")
          /\ UNCHANGED <<next, refs, range, pos>>
  /\ UNCHANGED <<type, array, tag, size, old, bucketVars, lockVars, callVars,
                 arr, seenTag, oldArr, copied, rarr, due>>

\* The bucket after the one at pos, or the end of the range.
NextBucket(t) ==
  IF pos[t] + 1 < range[t] * RangeLen /\ pos[t] + 1 < size[oldArr[t]]
  THEN Goto(t, "bucket") /\ pos' = [pos EXCEPT ![t] = @ + 1]
  ELSE Goto(t, "success") /\ pos' = [pos EXCEPT ![t] = 0]

\* The attempt ends with Err(()): the locks are dropped.
GiveUp(t) ==
  /\ held' = [held EXCEPT ![t] = {}]
  /\ Goto(t, IF range[t] # 0 THEN "fail" ELSE "load")
  /\ pos' = [pos EXCEPT ![t] = 0]

From(t) == <<oldArr[t], pos[t]>>

\* The old bucket at pos is locked: one of the range, or that of the key.
LockOld(t) ==
  /\ pc[t] \in {"bucket", "own"}
  /\ \/ /\ Killed(From(t))
        /\ IF range[t] # 0 THEN NextBucket(t)
           ELSE Goto(t, "lock") /\ pos' = [pos EXCEPT ![t] = 0]
        /\ UNCHANGED held
     \/ /\ ~Killed(From(t)) /\ ~Locked(From(t))
        /\ held' = [held EXCEPT ![t] = {From(t)}]
        /\ Goto(t, "relocate")
        /\ UNCHANGED pos
     \/ /\ ~Killed(From(t)) /\ Locked(From(t)) /\ Impatient(t)
        /\ GiveUp(t)
  /\ UNCHANGED <<arrayVars, bucketVars, shared, callVars, arr, seenTag, oldArr,
                 range, copied, rarr, due>>

\* relocate_bucket: the buckets an entry's target and those before it, which
\* are locked in this order.
Targets(t, k) ==
  LET first == (pos[t] * size[arr[t]]) \div size[oldArr[t]]
  IN  {<<arr[t], i>> : i \in first .. Index(arr[t], k)}

LockTarget(t, k) ==
  /\ pc[t] = "relocate" /\ k \in entries[From(t)]
  /\ \E b \in Targets(t, k) \ held[t] :
       /\ \A c \in Targets(t, k) \ held[t] : b[2] <= c[2]
       /\ \/ /\ ~Locked(b)
             /\ held' = [held EXCEPT ![t] = @ \cup {b}]
             /\ UNCHANGED <<pc, pos>>
          \/ Locked(b) /\ Impatient(t) /\ GiveUp(t)
  /\ UNCHANGED <<arrayVars, bucketVars, shared, callVars, arr, seenTag, oldArr,
                 range, copied, rarr, due>>

MoveEntry(t, k) ==
  /\ pc[t] = "relocate" /\ k \in entries[From(t)]
  /\ Targets(t, k) \subseteq held[t]
  /\ LET to == BucketOf(arr[t], k) IN
       \/ /\ ~Optimistic
          /\ entries' = [entries EXCEPT ![to] = @ \cup {k},
                                        ![From(t)] = @ \ {k}]
          /\ UNCHANGED <<pc, copied>>
       \/ /\ Optimistic
          /\ entries' = [entries EXCEPT ![to] = @ \cup {k}]
          /\ copied' = [copied EXCEPT ![t] = {k}]
          /\ Goto(t, "erase")
  /\ UNCHANGED <<arrayVars, killed, lockVars, callVars, arr, seenTag, oldArr,
                 range, pos, rarr, due>>

EraseOld(t) ==
  /\ pc[t] = "erase"
  /\ entries' = [entries EXCEPT ![From(t)] = @ \ copied[t]]
  /\ copied' = [copied EXCEPT ![t] = {}]
  /\ Goto(t, "relocate")
  /\ UNCHANGED <<arrayVars, killed, lockVars, callVars, arr, seenTag, oldArr,
                 range, pos, rarr, due>>

\* The bucket has been emptied: the lockers of the targets are dropped.
Emptied(t) ==
  /\ pc[t] = "relocate" /\ entries[From(t)] = {}
  /\ held' = [held EXCEPT ![t] = {From(t)}]
  /\ Goto(t, "kill")
  /\ UNCHANGED <<arrayVars, bucketVars, shared, callVars, localVars, due>>

\* The bucket is killed and its locker dropped.
Kill(t) ==
  /\ pc[t] = "kill"
  /\ killed' = killed \cup {From(t)}
  /\ held' = [held EXCEPT ![t] = {}]
  /\ IF range[t] # 0 THEN NextBucket(t)
     ELSE Goto(t, "lock") /\ pos' = [pos EXCEPT ![t] = 0]
  /\ UNCHANGED <<arrayVars, entries, shared, callVars, arr, seenTag, oldArr,
                 range, copied, rarr, due>>

Last_AnyRange(a) == refs[a] = 1
Last(a) == refs[a] = 1 /\ next[a] >= Ranges(a)

\* The claim ends in success; the last one drops the old array.
Success(t) ==
  /\ pc[t] = "success"
  /\ refs' = [refs EXCEPT ![oldArr[t]] = @ - 1]
  /\ range' = [range EXCEPT ![t] = 0]
  /\ Goto(t, IF Last(oldArr[t]) THEN "drop" ELSE "check")
  /\ UNCHANGED <<type, array, tag, size, old, next, bucketVars, lockVars,
                 callVars, arr, seenTag, oldArr, pos, copied, rarr, due>>

\* drop_old_array.
DropOld(t) ==
  /\ pc[t] = "drop"
  /\ old' = [old EXCEPT ![arr[t]] = Null]
  /\ Goto(t, "check")
  /\ UNCHANGED <<type, array, tag, size, next, refs, bucketVars, lockVars,
                 callVars, localVars, due>>

Reverted_Not(t) == next[oldArr[t]]

\* The index goes back to the failed range, unless it is below it already.
Reverted(t) ==
  IF next[oldArr[t]] < range[t] - 1 THEN next[oldArr[t]] ELSE range[t] - 1

\* The claim ends in failure.
Fail(t) ==
  /\ pc[t] = "fail"
  /\ next' = [next EXCEPT ![oldArr[t]] = Reverted(t)]
  /\ refs' = [refs EXCEPT ![oldArr[t]] = @ - 1]
  /\ range' = [range EXCEPT ![t] = 0]
  /\ Goto(t, IF op[t] \in ScanOps THEN "check"
             ELSE IF op[t] = "read" /\ Optimistic THEN "searchOld"
             ELSE "load")
  /\ UNCHANGED <<type, array, tag, size, old, bucketVars, lockVars, callVars,
                 arr, seenTag, oldArr, pos, copied, rarr, due>>

AfterRehash_KeyForgotten(t) ==
  IF old[arr[t]] = Null \/ Work(t) = "lock" THEN Work(t)
  ELSE IF Work(t) = "scan" THEN "claim" ELSE "searchOld"

\* If the old array is not gone, move_entry takes care of the bucket of the
\* key, clear_old_array goes on, and a lock-free read searches the old array.
AfterRehash(t) ==
  IF old[arr[t]] = Null THEN Work(t)
  ELSE CASE Work(t) = "lock" -> "own"
         [] Work(t) = "scan" -> "claim"
         [] Work(t) = "search" -> "searchOld"

\* What incremental_rehash returns is whether the old array is gone.
Check(t) ==
  /\ pc[t] = "check"
  /\ Goto(t, AfterRehash(t))
  /\ pos' = [pos EXCEPT ![t] = IF AfterRehash(t) = "own"
                               THEN Index(oldArr[t], key[t]) ELSE 0]
  /\ UNCHANGED <<arrayVars, bucketVars, lockVars, callVars, arr, seenTag,
                 oldArr, range, copied, rarr, due>>

-----------------------------------------------------------------------------
(* Working on the current array                                             *)

\* The bucket of the key in the array at hand.
Home(t) == BucketOf(arr[t], key[t])

\* The bucket is killed, so the array has been replaced; or, in a task, it is
\* locked and the attempt is given up.  The operation starts over; the lookups
\* check before whether there is another array.
LockFails(t) ==
  /\ pc[t] = "lock"
  /\ \/ /\ op[t] = "read" => ~LockedX(Home(t))
        /\ Killed(Home(t))
        /\ Goto(t, IF Lookup(t) THEN "reload" ELSE "load")
     \/ /\ ~Killed(Home(t)) /\ t \in AsyncThreads
        /\ IF op[t] = "read" THEN LockedX(Home(t)) ELSE Locked(Home(t))
        /\ Goto(t, "load")
  /\ UNCHANGED <<arrayVars, bucketVars, lockVars, callVars, localVars, due>>

Lockable(t) == pc[t] = "lock" /\ ~Killed(Home(t)) /\ ~Locked(Home(t))

Hold(t) == held' = [held EXCEPT ![t] = {Home(t)}] /\ Goto(t, "hold")

InsertEntry(t) ==
  /\ Lockable(t) /\ op[t] = "insert"
  /\ Hold(t)
  /\ entries' = [entries EXCEPT ![Home(t)] = @ \cup {key[t]}]
  /\ UNCHANGED <<arrayVars, killed, shared, callVars, localVars, due>>

\* The user gets an OccupiedEntry or a VacantEntry.
ReserveEntry(t) ==
  /\ Lockable(t) /\ op[t] = "entry"
  /\ Hold(t)
  /\ UNCHANGED <<arrayVars, bucketVars, shared, callVars, localVars, due>>

\* What is not found in a locked bucket is not in the table.
RemoveEntry(t) ==
  /\ Lockable(t) /\ op[t] = "remove"
  /\ \/ /\ key[t] \in entries[Home(t)]
        /\ Hold(t)
        /\ entries' = [entries EXCEPT ![Home(t)] = @ \ {key[t]}]
        /\ Gone({key[t]})
     \/ /\ key[t] \notin entries[Home(t)]
        /\ Goto(t, "done")
        /\ UNCHANGED <<entries, held, due>>
  /\ UNCHANGED <<arrayVars, killed, shared, callVars, localVars>>

GetEntry(t) ==
  /\ Lockable(t) /\ op[t] = "get"
  /\ \/ key[t] \in entries[Home(t)] /\ Hold(t)
     \/ key[t] \notin entries[Home(t)] /\ Goto(t, "reload") /\ UNCHANGED held
  /\ UNCHANGED <<arrayVars, bucketVars, shared, callVars, localVars, due>>

\* A type that is not a HashIndex is read with a shared lock.
ReadEntry(t) ==
  /\ pc[t] = "lock" /\ op[t] = "read" /\ ~Killed(Home(t)) /\ ~LockedX(Home(t))
  /\ shared' = [shared EXCEPT ![t] = {Home(t)}]
  /\ Goto(t, "holdS")
  /\ UNCHANGED <<arrayVars, bucketVars, held, callVars, localVars, due>>

\* VacantEntry::insert_entry gives an OccupiedEntry, with the lock still held.
VacantInsert(t) ==
  /\ pc[t] = "hold" /\ op[t] = "entry" /\ key[t] \notin entries[Home(t)]
  /\ entries' = [entries EXCEPT ![Home(t)] = @ \cup {key[t]}]
  /\ UNCHANGED <<arrayVars, killed, lockVars, pc, callVars, localVars, due>>

\* OccupiedEntry::remove_entry: the user's next call, with the lock still held.
OccupiedRemove(t, k) ==
  /\ \/ pc[t] = "hold" /\ op[t] \in {"entry", "get"} /\ k = key[t]
     \/ pc[t] = "occupied"
  /\ \E b \in held[t] :
       /\ k \in entries[b]
       /\ entries' = [entries EXCEPT ![b] = @ \ {k}]
  /\ due' = [u \in Threads |-> IF u = t THEN {} ELSE due[u] \ {k}]
  /\ op' = [op EXCEPT ![t] = "remove"] /\ key' = [key EXCEPT ![t] = k]
  /\ pos' = [pos EXCEPT ![t] = 0]
  /\ Goto(t, "hold")
  /\ UNCHANGED <<arrayVars, killed, lockVars, arr, seenTag, oldArr, range, copied,
                 rarr>>

\* The Locker is dropped: at once, or when the user drops the entry.  A
\* removal may then find the table too large.
Release(t) ==
  /\ pc[t] \in {"hold", "occupied"}
  /\ held' = [held EXCEPT ![t] = {}]
  /\ \/ Goto(t, "done")
     \/ op[t] = "remove" /\ Goto(t, "rload")
  /\ UNCHANGED <<arrayVars, bucketVars, shared, callVars, localVars, due>>

\* The Reader is dropped when read_entry returns with what it has found; the
\* caller's closure then gets the references.
ReleaseReader(t) ==
  /\ pc[t] = "holdS"
  /\ shared' = [shared EXCEPT ![t] = {}]
  /\ Goto(t, IF key[t] \in entries[Home(t)] THEN "reading" ELSE "reload")
  /\ UNCHANGED <<arrayVars, bucketVars, held, callVars, localVars, due>>

\* Lock-free searches in the old and in the current array.
SearchOld(t) ==
  /\ pc[t] = "searchOld"
  /\ Goto(t, IF key[t] \in entries[BucketOf(oldArr[t], key[t])]
             THEN "reading" ELSE "search")
  /\ UNCHANGED <<arrayVars, bucketVars, lockVars, callVars, localVars, due>>

Search(t) ==
  /\ pc[t] = "search"
  /\ Goto(t, IF key[t] \in entries[Home(t)] THEN "reading" ELSE "reload")
  /\ UNCHANGED <<arrayVars, bucketVars, lockVars, callVars, localVars, due>>

\* The pointer is what it was; a scan ignores the tag.
Unchanged(t) == array = arr[t] /\ (Lookup(t) => tag = seenTag[t])

\* A lookup that found nothing, or a scan, starts over if the array has been
\* replaced.
Reload(t) ==
  /\ pc[t] = "reload"
  /\ \/ /\ Unchanged(t) \/ array = Null
        /\ Goto(t, NotFound(t))
        /\ UNCHANGED <<arr, seenTag>>
     \/ /\ ~Unchanged(t) /\ array # Null
        /\ arr' = [arr EXCEPT ![t] = array]
        /\ seenTag' = [seenTag EXCEPT ![t] = Lookup(t) /\ tag]
        /\ Goto(t, "old")
  /\ UNCHANGED <<arrayVars, bucketVars, lockVars, callVars, oldArr, moveVars,
                 rarr, due>>

End(t) ==
  /\ pc[t] \in {"reading", "missing", "done"}
  /\ Return(t)
  /\ UNCHANGED <<arrayVars, bucketVars, lockVars>>

-----------------------------------------------------------------------------
(* try_resize                                                               *)

\* A resize is tried by an insertion before it locks its bucket (LoadOld),
\* after a removal (Release) and after a scan that has removed something
\* (module HashScan); reserve, len and is_empty try one on their own (Begin).

\* try_resize returns; an insertion goes on.
AfterResize(t) ==
  /\ Goto(t, IF Reserves(t) THEN "lock" ELSE "done")
  /\ rarr' = [rarr EXCEPT ![t] = Null]
  /\ pos' = [pos EXCEPT ![t] = 0]

Resizable_WhileRehashing(a) == ~tag
Resizable(a) == ~tag /\ old[a] = Null

\* There is an array that nobody is resizing and that has no old array; or
\* there is none, nothing calls for a resize, or the bound MaxArrays is met.
ResizeLoad(t) ==
  /\ pc[t] = "rload"
  /\ \/ /\ array # Null
        /\ Resizable(array) /\ Fresh # {}
        /\ rarr' = [rarr EXCEPT ![t] = array]
        /\ Goto(t, "rtag")
        /\ UNCHANGED pos
     \/ AfterResize(t)
  /\ UNCHANGED <<arrayVars, bucketVars, lockVars, callVars, arr, seenTag,
                 oldArr, range, copied, due>>

\* Tag::First keeps others from resizing; then the table is dropped, if it
\* seems to be empty, or a new array allocated.
ResizeTag(t) ==
  /\ pc[t] = "rtag"
  /\ \/ /\ array = rarr[t] /\ ~tag
        /\ tag' = TRUE
        /\ Goto(t, "rdrop") \/ Goto(t, "ralloc")
        /\ UNCHANGED <<rarr, pos>>
     \/ /\ array # rarr[t] \/ tag
        /\ AfterResize(t)
        /\ UNCHANGED tag
  /\ UNCHANGED <<type, array, size, old, next, refs, bucketVars, lockVars,
                 callVars, arr, seenTag, oldArr, range, copied, due>>

DropCheck(b) == ~LockedX(b) /\ b \notin killed /\ entries[b] = {}

\* The buckets are locked one after the other as long as they are empty.  The
\* attempt may also fail because the state of a bucket changes meanwhile.
DropLock(t) ==
  /\ pc[t] = "rdrop"
  /\ LET b == <<rarr[t], pos[t]>> IN
       \/ /\ DropCheck(b)
          /\ shared' = [shared EXCEPT ![t] = @ \cup {b}]
          /\ pos' = [pos EXCEPT ![t] = @ + 1]
          /\ IF pos[t] + 1 = size[rarr[t]] THEN Goto(t, "rswap") ELSE UNCHANGED pc
       \/ /\ shared' = [shared EXCEPT ![t] = {}]
          /\ pos' = [pos EXCEPT ![t] = 0]
          /\ Goto(t, "rkeep") \/ Goto(t, "ralloc")
  /\ UNCHANGED <<arrayVars, bucketVars, held, callVars, arr, seenTag, oldArr,
                 range, copied, rarr, due>>

DropSwap(t) ==
  /\ pc[t] = "rswap"
  /\ array' = Null /\ tag' = FALSE
  /\ pos' = [pos EXCEPT ![t] = 0]
  /\ Goto(t, "rkill")
  /\ UNCHANGED <<type, size, old, next, refs, bucketVars, lockVars, callVars,
                 arr, seenTag, oldArr, range, copied, rarr, due>>

DropKill(t) ==
  /\ pc[t] = "rkill"
  /\ LET b == <<rarr[t], pos[t]>> IN
       /\ killed' = killed \cup {b}
       /\ shared' = [shared EXCEPT ![t] = @ \ {b}]
  /\ IF pos[t] + 1 < size[rarr[t]]
     THEN pos' = [pos EXCEPT ![t] = @ + 1] /\ UNCHANGED <<pc, rarr>>
     ELSE AfterResize(t)
  /\ UNCHANGED <<arrayVars, entries, held, callVars, arr, seenTag, oldArr,
                 range, copied, due>>

\* The new array gets the current one as its old array; a HashIndex may be
\* rebuilt in an array of the same size.
ResizeAlloc(t) ==
  /\ pc[t] = "ralloc"
  /\ \E a \in Arrays, s \in Sizes :
       /\ s # size[rarr[t]] \/ Optimistic
       /\ Allocate(a, s, array)
  /\ tag' = FALSE
  /\ AfterResize(t)
  /\ UNCHANGED <<type, next, refs, bucketVars, lockVars, callVars, arr,
                 seenTag, oldArr, range, copied, due>>

\* There is nothing to do but to drop the table, which has failed.
ResizeKeep(t) ==
  /\ pc[t] = "rkeep"
  /\ tag' = FALSE
  /\ AfterResize(t)
  /\ UNCHANGED <<type, array, size, old, next, refs, bucketVars, lockVars,
                 callVars, arr, seenTag, oldArr, range, copied, due>>

-----------------------------------------------------------------------------

TableStep(t) ==
  \/ \E o \in Ops[type][t], k \in Keys : Begin(t, o, k)
  \/ Load(t) \/ LoadOld(t) \/ Claim(t) \/ LockOld(t)
  \/ \E k \in Keys : LockTarget(t, k) \/ MoveEntry(t, k)
  \/ EraseOld(t) \/ Emptied(t) \/ Kill(t)
  \/ Success(t) \/ DropOld(t) \/ Fail(t) \/ Check(t)
  \/ LockFails(t) \/ InsertEntry(t) \/ ReserveEntry(t) \/ RemoveEntry(t)
  \/ GetEntry(t) \/ ReadEntry(t) \/ VacantInsert(t)
  \/ \E k \in Keys : OccupiedRemove(t, k)
  \/ Release(t) \/ ReleaseReader(t) \/ SearchOld(t) \/ Search(t) \/ Reload(t)
  \/ ResizeLoad(t) \/ ResizeTag(t) \/ DropLock(t)
  \/ DropSwap(t) \/ DropKill(t) \/ ResizeAlloc(t) \/ ResizeKeep(t)
  \/ End(t)

-----------------------------------------------------------------------------
(* Correctness                                                              *)

\* A key is in one bucket only, and in the bucket for it; but for the moment
\* in which the thread that moves it has both buckets locked.
OneHome ==
  \A a, c \in Reachable, k \in Keys :
    \A b \in BucketsOf(a), d \in BucketsOf(c) :
      k \in entries[b] \cap entries[d] =>
        /\ b = BucketOf(a, k)
        /\ \/ b = d
           \/ \E t \in Threads : k \in copied[t] /\ {b, d} \subseteq held[t]

\* An array that the table has let go of has been cleared: all of its buckets
\* are killed or about to be, by the thread that has dropped the empty table
\* and still has them locked.  Nothing is lost with it, and nothing can be
\* added to it.
DetachedIsCleared ==
  \A a \in Arrays \ Reachable : \A b \in BucketsOf(a) :
    /\ entries[b] = {}
    /\ \/ b \in killed
       \/ \E t \in Threads : pc[t] = "rkill" /\ b \in shared[t]

\* Every range below the index is cleared or claimed, and the references are
\* the claims, within MaxRehashers: neither field of the rehashing word runs
\* into the other, and this is why the last thread may drop the old array, also after
\* others have failed and gone back (the assertion of drop_old_array).
ClaimsExact ==
  \A a \in Arrays :
    /\ refs[a] = Cardinality({t \in Threads : range[t] # 0 /\ oldArr[t] = a})
    /\ refs[a] <= MaxRehashers
    /\ next[a] <= Ranges(a)
    /\ \A i \in 0 .. size[a] - 1 :
         i < next[a] * RangeLen =>
           \/ <<a, i>> \in killed
           \/ \E t \in Threads :
                /\ oldArr[t] = a /\ range[t] # 0
                /\ i \in (range[t] - 1) * RangeLen .. range[t] * RangeLen - 1

\* relocate_bucket takes it for granted (unwrap_unchecked) that a bucket it
\* moves entries to has not been killed.
TargetsAlive ==
  \A t \in Threads : pc[t] = "relocate" =>
    \A k \in entries[From(t)] : Targets(t, k) \cap killed = {}

\* Whoever has the bucket of its key locked knows whether the key is in the
\* table, whatever array the bucket belongs to.
LockIsAuthority ==
  \A t \in Threads :
    pc[t] = "hold" => (key[t] \in Contents <=> key[t] \in entries[Home(t)])

\* HashMap::read, HashIndex::peek: "Returns None if the key does not exist";
\* HashMap::scan: "Key-value pairs that have existed since the invocation of
\* the method are guaranteed to be visited if they are not removed".  A lookup
\* that has found nothing, and a scan, have not overlooked a key that was there
\* during the whole call, whatever was moved meanwhile.
LookupsAreReal ==
  \A t \in Threads : pc[t] \in {"missing", "scanned"} => due[t] = {}

\* "Each read/write access to an entry is serialized by the read-write lock
\* in the bucket containing the entry": while the closure of HashMap::read has
\* the entry, nobody has its bucket locked exclusively, or has removed it.
ReadsAreSerialized ==
  \A t \in Threads :
    pc[t] = "reading" /\ ~Optimistic =>
      /\ key[t] \in Contents
      /\ ~LockedX(BucketOf(arr[t], key[t]))

=============================================================================
