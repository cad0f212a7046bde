# Scalable Concurrent Containers in TLA+

Specifications, model-checking configurations and proofs for the crate in `src/`:
concurrent hash tables, a B+ tree, a queue, a stack and a bag, on top of their own
epoch-based memory reclamation. Everything here is translated from the Rust source;
`PROJECT.json` maps each definition to the lines it stands for.

## 1. The system

| Component | State it keeps | Operations | Uses |
|---|---|---|---|
| Epoch-based reclamation (`ebr/collector.rs`, `ebr/guard.rs`) | global `EPOCH` (three values), the list of collectors at `GLOBAL_ANCHOR`, per collector an announced epoch, flags and three lists of retired instances | `Guard::new`, drop of a Guard, `reclaim`, scan, epoch update, thread exit, `suspend` | atomics |
| EBR pointers (`ebr/shared.rs`, `atomic_shared.rs`, `owned.rs`, `ref_counted.rs`, ...) | reference count, pointer tags | clone, release, load, swap, compare-exchange | collector |
| Bucket lock and wait queue (`hash_table/bucket.rs`, `wait_queue.rs`) | state word (KILLED, WAITING, LOCK and reader count), a stack of wait entries | `Locker`, `Reader`, `kill`, `wait_sync`, `push_async_entry`, `AsyncWait` poll and drop | - |
| Bucket entries (`hash_table/bucket.rs`) | bitmaps, partial hashes, linked buckets, the LRU list | insert, erase, extract, search, evict, promote | bucket lock, EBR |
| Hash table core (`hash_table.rs`, `hash_table/bucket_array.rs`) | current array with a tag, old array, rehashing word, minimum capacity | lookup, insert, remove, scan, `incremental_rehash`, `try_resize` | buckets, EBR |
| HashMap, HashIndex, HashCache, HashSet | entry handles, reservations | the public interfaces | hash table core |
| TreeIndex leaf (`tree_index/leaf.rs`) | metadata word: a rank for each slot and two flags; the entries | insert, remove, searches, scan, freeze, thaw | - |
| TreeIndex nodes (`leaf_node.rs`, `internal_node.rs`, `node.rs`, `tree_index.rs`) | children, node latch, pending split operation, root | split, commit, rollback, coalesce, range scans | leaf, linked list, EBR |
| LinkedList and Queue (`linked_list.rs`, `queue.rs`) | `next` pointers with deletion tags, `oldest`, `newest` | push, pop, delete, traverse | EBR |
| Stack and Bag (`stack.rs`, `bag.rs`) | `newest`; slot bitmaps | push, pop, pop_all | linked list, EBR |

**How they interact.** All containers share memory only through atomics and EBR: a reader
holds a `Guard` and follows pointers; a writer unlinks and retires. The hash tables add
bucket locks, which a thread waits for on a condition variable and a task by awaiting.
A resize attaches the old array to the new one, and every later operation moves a few old
buckets. The tree splits leaves by freezing them, and either commits or rolls back.

**What is hard.** The interleavings of lock-free protocols (epoch announcement against
epoch update, insertion against freezing, push against signal), what outlives its
protection (wait entries on other stacks, references from `read_entry`, array pointers
loaded before a resize), attempts that fail half way (an asynchronous lock in the middle of
a rehash), counters packed into a word with something else (readers with LOCK, rehashing
references with the next index, ranks next to ranks), and wake-ups. `PROJECT.json`
"hazards" has each one with its line and the properties that address it.

**What makes each part correct.**

* EBR: nothing is deallocated under a Guard that was alive when it was retired; each
  retired instance is deallocated once, and eventually.
* Bucket lock: a reader-writer lock; nobody acquires a killed bucket; wait entries are not
  touched after their owner is gone; no wake-up is lost.
* Hash table: an entry is in one place; moving and resizing lose nothing; a lookup that finds
  nothing is right at some time during the call; scans are complete.
* Leaf: a set of keys in order, unchanged while frozen, empty when retired.
* Tree: no key is lost or duplicated by a split, a rollback or coalescing; scans are sorted.
* Queue, stack, bag: FIFO, LIFO, multiset; each entry leaves once.

## 2. Modules

| Module | What it is |
|---|---|
| `RwLock` | what the lock of a bucket promises (abstract) |
| `BucketLock` | the state word, the wait queue and its users; implements `RwLock` |
| `BucketLock_proofs` | theorems about `BucketLock` |
| `Ebr` | collectors, epochs, Guards, retirement, scans, thread exit |
| `Ebr_proofs` | theorems about `Ebr` |
| `RefCount` | the reference count of a `Shared`, as operators |
| `LinkedList` | the list of `linked_list.rs`, step by step, with counted references; uses `RefCount` and the promise of `Ebr` |
| `LinkedList_proofs` | theorems about `LinkedList`: reference counts, then paths |
| `Fifo` | what a queue promises (abstract) |
| `Queue` | `queue.rs` over a linked list; implements `Fifo` |
| `Queue_proofs` | theorems about `Queue` |
| `Bag` | `bag.rs`: slot bitmaps of storages, on the part of `stack.rs` it uses |
| `Bag_proofs` | theorems about `Bag` |
| `LruList` | the index-linked list of a `HashCache` bucket, as operators |
| `Bucket` | the entries of one bucket, its linked blocks, and a reader without the lock; uses `LruList` |
| `Bucket_proofs` | theorems about `Bucket` with `LruList` |
| `HashTable` | operations, rehashing and resizing over bucket arrays; takes bucket locks as `RwLock` promises them |
| `HashScan` | operations on all entries, over `HashTable` |
| `HashTable_proofs` | theorems about `HashTable` and `HashScan`: structure, locks, rehashing and resizing, a key is in one place; lookups, scans and iterators |
| `LeafSet` | what a leaf promises (abstract) |
| `Leaf` | the metadata protocol of a leaf; implements `LeafSet` |
| `LeafScan` | the single-pass loops of a leaf, against what `Leaf` says they compute |
| `Leaf_proofs` | theorems about `Leaf` and `LeafScan` |
| `Tree` | nodes, splits, commit, rollback, coalescing and the root; takes leaves as `LeafSet` promises them, insertions in the steps of `Leaf` |
| `TreeScan` | `Iter` and `Range`, over `Tree` |
| `MC*` | symmetry sets, operations and workloads for TLC |

Memory is sequentially consistent in all modules: what weaker orderings of the code allow
beyond that is not covered. An atomic access is a step; a compare-exchange loop is the step
in which the exchange succeeds. Each module is the ground the next stands on: `HashTable` uses what `BucketLock`
is shown to implement, `Tree` what `Leaf` is shown to implement, and `Queue`, `Bag` and `Tree` walk over
deleted entries in one step because `LinkedList` shows what `next_ptr` does. Where one action
merges steps of the code, it is said below.

### BucketLock

`killed`, `waiting`, `lock` are the fields of `Bucket::state`; `queue` is the list behind
`WaitQueue::wait_queue`; `batch[a]` is the private list a signaler has swapped out and
reversed; `signaled` and `parked` stand for the flags, mutexes and wakers of `SyncWait`
and `AsyncWait`; `pc`, `mode`, `cur`, `held`, `cont` are local. `TryLoad` and `TryCas` are the
two halves of `try_lock` (of a `Locker` or a `Reader`, before or after queueing); `Push` and
`Mark` are the push and the setting of WAITING; `SignalSwap`, `SignalEntry`, `SignalDone` are
`WaitQueue::signal`; `Cancel`, `Pull`, `PullSpin` are the drop of an `AsyncWait`; `Release`
and `Kill` are the drops and `Bucket::kill`.

### Ebr

`anchor` is the list of collectors, `locked` and `enforced` the tags of `GLOBAL_ANCHOR`,
`flag` and `ann` a collector's state, `current`/`previous`/`next` its lists. A member of
`Collectors` is a collector from its allocation to its end. `PinLoad` and `PinStore` are the two
halves of `new_guard`; `EndGuard`, `EndGuardScan`, `ScanVisit`, `ScanFinish`, `Unpin` are
`end_guard` and `try_scan`; `Leave`, `Invalidate`, `Mark`, `ExitSole` are the end of a thread.
The countdown `next_epoch_update` is a free choice, and nested Guards are one Guard.

Two things the code does not exclude break what a Guard promises, each alone: a thread may be overtaken by epoch updates between the two halves
of `new_guard`, and the Guard with which an exiting thread cleans up may scan. Both are in the model. The history variables `overtaken` and `exitScan`
say whether they have happened; the properties about Guards (`GuardedIsKept`, `GuardHoldsEpoch`) are stated up to the first of the two (`Undisturbed`), and the violation run
`ebr_overtaken` (`KeptWhenOvertaken`) and `Ebr_exit_scan.cfg` (`KeptWhenExitScans`) show each of them breaking the promise without the other. Both counterexamples need a third thread.

### RefCount and LinkedList

`link` is the `AtomicShared` of each entry (pointer and tag), `cnt` the reference counts, `pins` the Guards that
keep the collector off an entry, `freed` what has been dropped, `own` the `Shared`s a thread holds; `cur`, `seen`, `ptr`,
`state`, `first`, `last`, `ended` are the locals of `next_ptr`. `Mark`, `Unmark`, `DeleteSelf`, `Push` to `PushFail` are the
operations of the trait; `NextPtr` loads the link, `Walk` passes deleted entries, `Claim` sets Tag::Both on one, `Take`
and `Unlink` replace the link, `Swap` takes the link out of each claimed entry, `Restore` gives Tag::Second back after
a lost exchange, `Release` drops the references. `Collect` and `DropLink` are the end of an entry: the collector frees it when no
Guard of its time is left, and its drop releases its own link. `behind` is history: what a walk has to meet.
`RefCount` has the count of a `Shared` as the code keeps it: 2n - 1 for n owners, 0 for none,
so that `try_add_ref` can tell an instance without owners from one with.

### Queue

`oldest` and `newest` are the two ends, `next` and `deleted` the links; `op`, `ptr`, `found`, `succ`, `new` are local. Push
(`LoadNewest` to `ResetNewest`), pop (`LoadCurrent`, `PopEntry`), peek, `Iter` and `cleanup_oldest` (`CleanLoad` to `CleanReset`) are
sequences of loads and exchanges. Two behaviours of the code are kept as they are. A push that meets a deleted entry at the end
cleans up only for Tag::First, while deletion is Tag::Second: it starts again until the popper has cleaned up,
so `PushEnds` needs the popper to go on. And `newest` may stay at a popped entry.

### Bag

`meta` has the two bitmaps of a storage, `slot` its instances, `newest`, `next`, `deleted` the stack of linked storages;
`hand` are values on their way in or out. `PushOwn`, `PushWrite`, `PushCommit`, `PushRollback` are a push into a storage, `PopOwn`, `Read`,
`Vacate` a pop, `Delete` and `Advance` the rest of `Bag::pop`, `PopAllOwn` `Storage::pop_all`. Of the stack, `CleanNext`, `CleanShare` and `CleanSwap` are `cleanup_newest`:
`next_ptr` (one step, `Unlink` being its effect on the links), `get_shared`, and the exchange of `newest`. `LinkShare` and `Link` are `push_if_internal`;
`BeginPopAll`, `Pop`, `Take`, `Popped` are `Stack::pop_all` and the `pop`s on the stack it returns.
`get_shared` succeeds as long as there is a reference (`Referenced`: a link, `newest`, a `Shared` of some thread). Without one a storage is kept by the
Guards of that moment (`pins`, set by `Retire`) and then dropped, with the reference that its link is (`Reclaim`). The run starts with a full primary
storage and one value beyond it, which is where pushes begin to use the stack. `Bag::pop` may return `None` although the bag was never
empty (it looks at the storages one after the other); no document says otherwise. That storages are cut off from the stack is another matter (`bag_lost`).

### LruList and Bucket

`occ`, `rem`, `data`, `link`, `prev` are the blocks of a bucket (0 is its own), `num`, `killed`, `lru` its counters and list, `ptr` an
`EntryPtr`. The owner's operations are taken apart store by store (`InsertWrite`, `InsertPublish`, `InsertCount`; `EraseCount`, `EraseEntry`;
the walks of `retain`, `prune` and `relocate` with `WalkNext`, `Retain`, `KeepOrConsume`, `Relocate`), because a reader of an OPTIMISTIC
bucket searches without the lock (`SearchNum` to `SearchEnds`, one load each). The predicate given to `prune` may panic, and the bucket
must be exact then too. `LruList` encodes the absence of a list as the code does and is compared with the order of use, `recent`.
A key stands for its partial hash.

### HashTable and HashScan

`array` and `tag` are `bucket_array` with Tag::First; `old`, `next`, `refs` are `old_array` and the two
halves of `rehashing_metadata`; `entries`, `killed` are the buckets; `held` and `shared` the locks
threads have. `Load`, `LoadOld`, `Search`, `SearchOld`, `Reload` are the loops common to the interfaces;
`InsertEntry`, `ReserveEntry`, `RemoveEntry`, `GetEntry`, `ReadEntry` what they do in the bucket;
`VacantInsert`, `OccupiedRemove`, `Release` what the holder of an `Entry` does while it keeps the lock.
`Claim` to `Check` are `incremental_rehash`, `relocate_bucket`, `move_entry` and `clear_old_array`;
`ResizeLoad` to `ResizeKeep` are `try_resize`. `HashScan` adds `AnyBucket` (`any`, `scan`), `RetainBucket`, `PruneBucket`,
`WalkBucket` and `WalkNext` (`first_entry` and `OccupiedEntry::next`), and `IterStart` to `IterSwitch`, the lock-free `Iter` of `HashIndex`.
`due[t]` is a history variable: what a lookup, scan or iterator has not found yet although it was in the table since the invocation.
`OccupiedEntry::update` of a `HashIndex` is not an operation here: that a peek can miss a key while its entry is replaced is a matter of `Bucket` (`PeekFindsUntouched` excludes it).

Abstracted: an entry is its key; which load factor asks for which capacity is a free choice among
`Sizes`; the minimum capacity is 0; a bucket lock is taken in one step (that is what
`BucketLock` shows), and what is done under it in one bucket is a step (`Bucket` has its stores); a task that cannot get
a lock, also in the middle of moving a bucket, gives up and starts again with what has been moved so far.
`Iter` reads a bucket in one step, and the two loads of `next` at the end of an array are one `Reload`.

### Leaf and LeafScan

`rank`, `frozen`, `retired` are the metadata word and `key_at` the key array. `Insert`, `Reserve`,
`PostInsert`, `Rollback` are the steps of `Leaf::insert`, `RemoveIf` and `RemoveExchange` those of
`remove_if`, `Scan` and `EndScan` the life of a `Scanner`, and `Freeze`, `Commit`, `Thaw` what
`LeafNode` does to a leaf it splits. `met` has the threads whose key was in the leaf at some time during their operation.
`Init` is any filling `insert_unchecked` can leave. New leaves that `LeafNode` creates frozen and
thaws later (`leaf_node.rs:840`, `869`) behave like a leaf that is frozen and thawed.
`LeafScan` has the loops as recursive functions over the slots (`search_slot`, `max_less`,
`min_greater_equal`, `post_insert`, `next`, `optimal_boundary`) and compares them with the set
definitions on every reachable metadata word.

Two comments do not say what the code does: `leaf.rs:27-28` leaves out that a rollback makes a
removed slot uninitialized again, and the rule in the comment of `optimal_boundary` is the
reverse of the code (its examples agree with the code).

### Tree and TreeScan

`root`, `node` and `leaf` are what has been allocated: a node has its slots of children, the unbounded child, its latch and the
pending split; a leaf its keys, the slots it has used up, its frozen flag and its link. `thr[t]` is the stack of a call: the path it has
descended and what is returned along it (Full, Retired, Cleanup, Fail). `LoadRoot`, `FindChild`, `LoadChild`, `Validate` are the descent; `LeafInsert`, `LeafPostInsert`, `LeafRollback` are an insertion into the leaf (reserve a slot, publish
the key, or give the slot back with the result that the flags say by then), `LeafRemove` and `LeafSearch` the other operations on it; `SplitLock` to `SplitUnlock` are `split_leaf`; `NodeLock` to `NodeUnlock` are `split_node` of a leaf node or an internal node;
`SplitRoot` `split_root`; `Commit*` and `Rollback*` go down the locked nodes; `Coalesce*` and `Cleanup*` are `coalesce` and `cleanup_root`.
`TreeScan` has `Seek` and `Sought` (`max_le_appr` and what `Range::start` does with it), `ScanFirst` to `ScanCompare` and `RangeYield`.

Abstracted: a removal and a search in a leaf are atomic, and a leaf is a set (`Leaf` implements `LeafSet`); where a split divides a leaf is a free choice among the boundaries
`optimal_boundary` can return; the load of a child and the validation of the metadata after it are one step; `cleanup_link` is a
Boolean; `MaxRefused` bounds how often the slot that an insertion has reserved is frozen under it (see Bounds); waiting for a latch is being blocked (the wait queue is that of `BucketLock`); a task that awaits is a thread that waits.

## 3. Runs

| Run | What it checks | Instance |
|---|---|---|
| `bucket_lock` | `LockWordExact`: the lock bits count the owners; `NoDanglingEntry`: a signaler reaches only live wait entries; `NoLostWakeup`, `WaiterIsSignaled`, `DropTerminates`; `RefinesRwLock` | 1 thread, 1 task, 1 reader at most |
| `ebr` | `RetiredOnce`: every retired instance has one owner and is freed once; `LinkedAlive`: no thread reaches a collector that was let go of; `GuardedIsKept`, `GuardHoldsEpoch`: nothing is freed under a Guard of its time, until a pin is overtaken or an exiting thread scans; `LeftBehindIsFreed`: the garbage of an ended thread is freed | 2 collectors, 1 object, one thread stays |
| `leaf` | `RanksInOrder`, `SplitLosesNothing`, `SnapshotsValid`, `SplitMakesRoom`; `LoopsAgree`: the loops compute what the model says; `RefinesLeafSet` | 2 threads, 3 keys, 3 slots |
| `hash_table` | `OneHome`: an entry is in one place; `DetachedIsCleared`, `ClaimsExact`, `TargetsAlive`, `LockIsAuthority`: rehashing and resizing; `LookupsAreReal`: no lookup, scan or iterator overlooks what was there all the time | 1 thread, 1 task, 2 keys, 3 arrays of 1 or 2 buckets, SEQUENTIAL and OPTIMISTIC |
| `linked_list` | `LiveIsReachable`, `WalkSkipsNothing`: unlinking deleted entries loses no other; `CountsExact`, `HeldIsAllocated`: references; `ClaimsAreOwned`: one walk per deleted entry | 2 threads, 3 entries and 1 pushed, entry 1 can be marked |
| `queue` | `IsFifo`: implements `Fifo`; `EmptyIsEmpty`: both ends agree on it; `PushEnds` | 2 threads, 4 entries |
| `bag` | `EachValueOnce`: a value is in one slot or one hand, or has been popped once; `InUseIsKept`: nobody touches a storage that has been dropped | 3 threads, 2 slots, 3 linked storages, 5 values |
| `bucket` | `EntriesExact`: counters, bitmaps and links; `LruIsRecency`; `PeekFindsUntouched`: the reader finds what is not touched | 3 slots and 2 linked blocks of 1, 5, 2 or 4 keys by type, 1 reader |
| `tree` | `TreeIsSet`: what is found from the root is what was inserted and not removed; `ResultsAreReal`: each result was true at some moment of the call, but for the cases of `Tree_duplicate.cfg` and `Tree_remove.cfg` below; `ScanMeetsAll`; `CallsEnd` | capacity 2, trees of one to three levels, every pair of the calls in `MCWorkloads` |
| `ebr_overtaken` (violation) | `KeptWhenOvertaken`: the promise of `defer_execute`, no thread exiting | 3 collectors |
| `hash_table_read` (violation) | reads are serialized by the bucket lock | 1 thread, 1 task, 2 arrays |
| `bag_lost` (violation) | `NothingIsLost`: a storage with instances can be found | 2 threads, 1 slot, 3 linked storages |

Further instances, too large or too narrow to be runs of their own; all pass:

| Configuration | What it checks | Instance |
|---|---|---|
| `BucketLock_tasks.cfg` | the properties of `bucket_lock` | 2 tasks |
| `Ebr_three.cfg` | the four invariants of `ebr` | 3 collectors, none of which has to stay, by symmetry; 2.5 minutes |
| `HashTable_limit.cfg` | `ClaimsExact` when no more threads may rehash | 2 keys, 3 arrays of 2 or 4 buckets, ranges of 2, 1 rehashing thread |
| `Tree_rollback.cfg` | `ScanMeetsAll` while a split is rolled back under the iterator | capacity 2, 3 threads |

**Bounds.** For the bucket lock the proofs cover any number of actors; the run is there for liveness. So do the
proofs about `Ebr`; two collectors are one that retires and leaves its garbage behind and one that reads, moves the epoch and adopts. What breaks the promise of a Guard takes a third, which is why
`ebr_overtaken` and `Ebr_three.cfg` have three. Three slots give an insertion
between two others, four slots every shape of the rank window. In the hash table two keys lie in
one bucket of the small array and in two of the large one, so growing splits a bucket, and shrinking has two buckets
compete for a target; three arrays allow growing and shrinking, rebuilding, and dropping and starting
again; a range is one bucket, so an old array has two ranges that two actors claim. `MaxArrays` bounds allocations: a table
with no array left is not resized and an insertion into a dropped one stays where it is.
`RangeLen` = 1 means that the loop over several buckets of one range is not taken, and with two
actors `MaxRehashers` = 2 does not bind; in `HashTable_limit.cfg` a range has two buckets and `MaxRehashers` is 1 (both as for BUCKET_LEN = 2),
so that one actor rehashes and the other meets the limit. In the linked list two adjacent entries can be deleted
between two that stay, so two walks compete for them. Four entries let the queue become empty and fill again while a push or a clean-up
is under way. In the bag, one push finds the primary storage full while pops empty the linked one it reserves a slot in, and three linked storages allow that the one in the
middle is unlinked while somebody is about to put it in the place of the first. A bucket of
three slots with blocks of one slot fills two linked blocks, so that an unlinked block has a neighbour on each side, and the three slots tracked by the
LRU list are a head, a tail and one between. Capacity 2 is the smallest a node can be split with; the
workloads start from trees in which the next insertion splits a leaf, a node or the root, or the next removal empties one. `MaxRefused` = 1: an insertion that has reserved a slot is frozen out of it once. Without a bound two
insertions could go on for ever, each finding the leaf full because of the slot the other has reserved, splitting it, and thereby refusing the other; with ascending keys
`optimal_boundary` gives the new leaf all the entries of the old one, so this can also happen with the crate's 14 slots. Every round allocates a leaf, so TLC has no cycle to show for it;
`CallsEnd` takes it that it ends.

Deadlock is checked for the bucket lock and the tree. The other runs stop legitimately: collectors, entries, slots and arrays are bounded.

**Fairness.** `BucketLock`: weak fairness of every actor's own steps, that is, threads run, unparked tasks are
polled, and a Locker or Reader is dropped in the end because it is a scope guard; nothing
is assumed about who wins the lock, and starting an operation is not fair. `Ebr`: weak
fairness of a thread's steps; the thread that stays keeps using Guards, and strong fairness of
`EndGuardScan` for it, because the countdown `next_epoch_update` makes every CADENCE-th
end of a Guard a scan. `Queue` and `Tree`: weak fairness of each thread's steps, that is, threads run; in `Queue`, beginning
a call is not among them, in `Tree` a thread does the finite list of calls it has been given. A thread blocked at a latch has no step, so `CallsEnd` also says that latches are released.

**Mutants.** A definition `X_Mistake` in front of `X` is `X` with a plausible mistake; each property is known to fail for at
least one:

| Definition | Mistake | Property that fails |
|---|---|---|
| `BucketLock!Full` | `Full_OffByOne` | `LockWordExact` |
| `BucketLock!PullSpin` | `PullSpin_NoWait` | `NoDanglingEntry` |
| `BucketLock!Mark` | `Mark_NoFlag` | `NoLostWakeup`, `WaiterIsSignaled` |
| `BucketLock!Matches` | `Matches_AnyKilled` | `RefinesRwLock` |
| `BucketLock!SignalSwap` | `SignalSwap_NewestOnly` | `DropTerminates` |
| `Ebr!Rotate` | `Rotate_KeepsNext` | `RetiredOnce` |
| `Ebr!Unlinked` | `Unlinked_Not` | `LinkedAlive` |
| `Ebr!Rotate` | `Rotate_TwoLists` | `GuardedIsKept` |
| `Ebr!Lagging` | `Lagging_OnlyNewer` | `GuardHoldsEpoch` |
| `Ebr!Dropped` | `Dropped_Shallow` | `LeftBehindIsFreed` |
| `Leaf!Augmented` | `Augmented_NoShift` | `RanksInOrder` |
| `Leaf!Matches` | `Matches_Frozen` | `SplitLosesNothing` |
| `Leaf!FreeSlot` | `FreeSlot_Removed` | `SnapshotsValid` |
| `LeafScan!MoveUp` | `MoveUp_OnlyCompared` | `LoopsAgree` |
| `LeafScan!Clamp` | `Clamp_None` | `SplitMakesRoom` |
| `Leaf!Empties` | `Empties_Never` | `RefinesLeafSet` |
| `HashTable!AfterRehash` | `AfterRehash_KeyForgotten` | `OneHome` |
| `HashTable!Last` | `Last_AnyRange` | `DetachedIsCleared` |
| `HashTable!Reverted` | `Reverted_Not` | `ClaimsExact` |
| `HashTable!Claimable` | `Claimable_NoLimit` | `ClaimsExact` (`HashTable_limit.cfg`) |
| `HashTable!Resizable` | `Resizable_WhileRehashing` | `TargetsAlive` |
| `HashTable!Killed` | `Killed_Unchecked` | `LockIsAuthority` |
| `HashScan!Restarts` | `Restarts_Never` | `LookupsAreReal` |
| `LinkedList!Unlink` | `Unlink_Blind` | `LiveIsReachable` |
| `LinkedList!Swap` | `Swap_Cut` | `WalkSkipsNothing` |
| `RefCount!DropRef` | `DropRef_ByOne` | `CountsExact` |
| `RefCount!Alive` | `Alive_AnyCount` | `HeldIsAllocated` |
| `LinkedList!Restore` | `Restore_Skip` | `ClaimsAreOwned` |
| `Queue!CheckOldest` | `CheckOldest_Never` | `EmptyIsEmpty` |
| `Queue!PushCas` | `PushCas_OnDeleted` | `IsFifo` |
| `Queue!PopEntry` | `PopEntry_NoCleanup` | `PushEnds` |
| `Bag!PushCommit` | `PushCommit_Always` | `EachValueOnce` |
| `Bag!Referenced` | `Referenced_NotPopped` | `InUseIsKept` |
| `Bucket!NewLink` | `NewLink_NoBack` | `EntriesExact` |
| `LruList!Tracked` | `Tracked_Entry` | `LruIsRecency` |
| `Bucket!Unlink` | `Unlink_Stay` | `WalkMeetsAll` (proved, in no run) |
| `Bucket!ReleasedLater` | `ReleasedLater_No` | `PeekFindsUntouched` |
| `Tree!SplitThaw` | `SplitThaw_Origin` | `TreeIsSet` |
| `Tree!Validate` | `Validate_No` | `ResultsAreReal` |
| `Tree!AfterLow` | `AfterLow_Stale` | `ScanMeetsAll` |
| `Tree!RollbackLow` | `RollbackLow_Origin` | `ScanMeetsAll` (`Tree_rollback.cfg`) |
| `Tree!RollbackThaw` | `RollbackThaw_Frozen` | `CallsEnd` |

### What the violations show

1. `ebr_overtaken`: `new_guard` loads the epoch and stores it later without looking again. A
   thread that is overtaken by three epoch updates announces an epoch that looks current; an object is then deallocated
   under a Guard that was alive when it was retired.
2. `hash_table_read`: `read_entry` returns references after its `Reader` has been dropped, and
   the closure of `HashMap::read` uses them while others may lock the bucket.
3. `bag_lost`: `cleanup_newest` (`stack.rs:421`) puts `get_shared()` of what `next_ptr` returned in the place of a deleted newest storage, without looking whether it has failed; when
   another thread has deleted and unlinked that storage in between, `newest` becomes null and what is behind is lost.

### Further counterexamples

Each of these configurations checks one property that TLC refutes, as the code does not do what the line quoted says.

| Configuration | Property | What the behaviour is |
|---|---|---|
| `Ebr_exit_scan.cfg` | `KeptWhenExitScans` | An exiting thread takes its collector, the only one, off the anchor and then uses a Guard (`collector.rs:378`). The end of that Guard may scan and adopt a collector another thread has left behind meanwhile; the exiting collector is dropped at once with that collector and its garbage, under a third thread's Guard (`guard.rs:77`: "after every [`Guard`] at the moment when the method was invoked is dropped"). |
| `Queue_is_empty.cfg` | `NonEmptyIsNonEmpty` | `cleanup_oldest` resets `newest` after a push has set it (`queue.rs:436`); `is_empty` then says that a queue with an entry is empty (`queue.rs:300`: "Returns `true` if the [`Queue`] is empty."). |
| `Tree_duplicate.cfg` | `DuplicateIsReal` | An insertion has reserved its slot when another one freezes the leaf for a split; the split fails on a latch that a removal holds and is rolled back, which thaws the leaf; the first insertion then reports a duplicate (`leaf.rs:605`) of a key that was never there (`tree_index.rs:121`: "Returns an error along with the supplied key-value pair if the key exists."). |
| `Tree_remove.cfg` | `RemovesOnce` | A removal that has taken its entry out, and whose clean-up of the root fails, is tried again (`tree_index.rs:357`) and removes an entry inserted meanwhile, too (`tree_index.rs:31`: "[`TreeIndex`] methods are linearizable"). |
| `Tree_scan.cfg` | `ScanAscends` | An iterator passes a leaf while its split is rolled back (`leaf_node.rs:655-690`); the keys it yields are not ascending (`tree_index.rs:649`: "are scanned in ascending order"). It misses none (`Tree_rollback.cfg`). |
| `Leaf_duplicate.cfg` | `DuplicateIsReal` | An insertion that a freeze has cancelled reports a duplicate if the leaf is thawed before it takes its slot back: the leaf alone. |
| `Tree_range.cfg` | `RangeInside` | `Range` compares the leaf's current `max_key` with its bound (`tree_index.rs:919-929`), while its Scanner has older metadata: it yields a key beyond the bound. |
| `HashTable_fused.cfg` | `InBounds` | `Iter` of a `HashIndex` is a `FusedIterator` (`hash_index.rs:1885`), but another call after its end goes one bucket beyond the array (`bucket_array.rs:102` asserts the index). |

## 4. Proofs

TLAPS checks the `*_proofs` modules for every value of the constants that satisfies the named assumptions: any number of
threads, keys, slots, arrays and entries.

**BucketLock**, from `ActorAssumption` (finite, disjoint sets of threads and tasks) and
`SlockMaxAssumption` (at least one reader). `LockInv` is `TypeOK` with `LockWordExact` (the lock
bits are LOCK for a writer, the number of readers otherwise), `OwnerAt` (where an owner can be in its
code) and `CurWellFormed` (what a remembered word can be). The exact count is not inductive alone:
a release subtracts, so one has to know that only owners release. `WakeInv` adds for the queue:
entries are alive, unsignaled and reached once (`NoDanglingEntry`); only signalers have lists;
whoever waits unsignaled is linked; and a queued entry is *covered*: its owner is
still going to set WAITING or to try the lock, or somebody is about to swap the queue, or the word is locked with WAITING set, so that
the release will signal. The last part is what makes `NoLostWakeup` inductive. Theorems: `TypeCorrect`, `LockWordCorrect`,
`EntriesNeverDangle`, `WakeupsNeverLost` and the refinement `LockRefinesRwLock`.

**Leaf**, from `KeysAssumption` and `DimensionAssumption` (at least one slot, the removed rank above the
number of slots). `LeafInv` has the properties of the run and what keeps them: each pending insertion
owns its slot, which has the removed rank and is nobody else's (`PendingOwned`), local copies
are what the metadata was or can still be (`OperationsWellFormed`, `SnapshotsValid`), and ranks are bounded
by the number of slots ever used (`RanksBounded`), without which moving ranks up could reach the
removed rank. The central lemma is `AugmentedInOrder`: giving the new slot the highest rank below it
plus one and moving the ranks above up by one keeps the order strict. Each action is shown to be *quiet*
(only locals) or one of four changes of the metadata, and the refinement
`LeafRefinesLeafSet` comes from the same case split. The second half is about the loops of `LeafScan` on one metadata word, for any number of
slots. A loop is a recursive function of the slots visited; that this function exists, and that its value after the last slot
has the loop's invariant, is induction over the slots (`LoopExists`, `SlotInduction`, both by a least counterexample).
The invariants: a window's ends are ranks of a smaller and of a greater key, and no slot passed lies inside (`SearchInv`, `Narrowed`); `post_insert` has
moved up exactly the greater keys it has passed (`PlaceInv`), because a rank it skips on the upper side is strictly above the end of its window; after n steps a
Scanner has passed n entries or all (`ScanInv`), and ranks are at most the number of slots. Theorems: `LoopsAgreeHolds`, and
`SplitMakesRoomHolds` for at least two slots (with one slot it is false; the crate has 2 to 25).

**Ebr**, from `CollectorAssumption` (finitely many collectors, no object among them). What a drop
drops, `Dropped(S)`, is everything that hangs on S: it is used as the least set that contains S and the lists of its collectors
(`ClosureLeast`, `ClosureHolds`, `ClosureCloses`). `OwnInv` is about ownership: each retired instance is in one list of one
collector or has been freed (`RetiredOnce`); the anchor's list and the rest of it that a scan has before it have each
collector once, and one thread scans (`ScanInv`); and what a collector can be follows from the progress of
its thread, from before its allocation to after it has been left behind (`LifeInv`). It gives `RetiredOnceHolds` and `LinkedAliveHolds`
for every behaviour, with overtaking and exit scans. `GuardInv` is about epochs, as long as `Undisturbed` holds: the epoch has
moved at most once since a Guard announced it, a scan has met nobody of another epoch (`EpochInv`),
and a list holds an instance that a Guard may refer to only as long as the announcement of its collector and the epoch are within one
step of that Guard (`ListsInv`). So the third list, which `epoch_updated` drops, has no readers. `GuardedIsKeptHolds` and
`GuardHoldsEpochHolds` are theorems about `Spec` without further conditions; what they say ends with the first overtaken pin or exit scan, after which
the properties are false (`ebr_overtaken`, `Ebr_exit_scan.cfg`).

**HashTable**, from `TableAssumption`: finitely many threads, sizes of arrays that divide the range of the hash and each other (they are powers of two). Four invariants
are stacked, each inductive relative to the ones below:

1. `Structure`: types, at most one array and its old one are in use (`ArraysInv`), one thread resizes
   (`OneResizer`), and for each thread what its array, its range and its position are at each place of the code. `StructureInvariant`.
2. `Clearing`: bucket locks exclude each other and every thread has the locks its place says (`Locks`); a key is only in
   the bucket of its hash, and a killed bucket is empty and not locked (`BucketsInv`); a claimed range is killed from its
   start on (`ProgressInv`); the references in the rehashing word are the claims, and every range below its index is cleared or claimed
   (`ClaimsExact`); an array is let go of when its buckets are killed or its dropper is about to do that (`Detached`).
   `ClaimsExact` and `Detached` need each other: the thread that takes the last reference away drops the array, so the
   ranges without a claim must be cleared, also after a thread has failed and its range was claimed again. Where the entries of an old bucket
   can go is arithmetic (`NestedDivision`, `SpanTargets`). Theorems: `ClaimsExactHolds`, `DetachedIsClearedHolds`, `TargetsAliveHolds`.
3. `HomeInv`: whoever locks the bucket of its key has found the key's old bucket killed (`MovedFirst`), so a key that
   is in the current array has left the old one, or a thread that has both buckets locked is just moving it (`MovedOnce`).
   Theorems: `OneHomeHolds`, `LockIsAuthorityHolds`.
4. `LookupInv`: what a lookup, scan or iterator has not met although it was there all the time is in the table
   (`DueKnown`) and still in front of it (`DueAhead`): in an old array, behind the thread there is only what has been moved to the
   current one, which it visits later; a reader without the lock can see a key in both arrays, but never in none (`Copied`). At the end of a call nothing
   is left (`DueMissed`). Theorem: `LookupsAreRealHolds`.

**LinkedList**, from `ListAssumption` (finitely many threads). `ListInv` has `CountsExact`, proved by counting: every step changes at most one link and the
handles of one thread (`Moves`, `OneStep`), and no reference is added to an entry without owners. What the steps need for that is what a thread
owns at each place of `next_ptr` and `push_back` (`OwnShape`), that a walk which has left the first entry it found ends
at another one (`WalkShape`, from deleted entries staying deleted), and that nobody knows an entry before it is
pushed (`Private`). `Kept` is why there is no use after free: a link is an owner, so a pointer read from a link is to an entry with owners, and when
the last owner goes, the Guards of that moment keep the collector off it. That is the promise of `Ebr`, taken here as `pins`.
Theorems: `CountsExactHolds`, `HeldIsAllocatedHolds`.

The other theorems about `LinkedList` are about what can be reached. `Behind` and `Run` follow links a bounded number of times; they are shown to be the least
sets closed under links (`Reach`, `Ahead`), and from there on only closure is used. `PathInv` adds to `ListInv`: there is a strict order of the entries in which all links, and all pointers that a walk
holds, go forward, and each walk has a chain of claimed entries of its own (`Placement`, with order and chains under an existential quantifier); an entry that is not reachable any more has been deleted
(`LiveInv`, `HiddenInv`); what a walk had in front of it is in front of it still (`Walked`, `Flow`). The order is what excludes that an exchange
that succeeds late bends a link back or past a live entry. Theorems: `LiveIsReachableHolds`, `WalkSkipsNothingHolds`, `ClaimsAreOwnedHolds`.

**Bag**, from the assumption of the module (finitely many threads, at least one slot). `BagInv` says who owns which slot: an owned slot is in the hands of one
thread at the place where it reserves, writes, reads or vacates it; values are in occupied slots, in hands or out; what a thread remembers of a storage's
bitmaps can be stale, but not in what its exchange compares; and a storage that is deleted is empty and stays so, because the exchange that empties it and the one that reserves a
slot in it are on the same word. Links lead to storages allocated earlier and so do the pointers a clean-up holds, whether or not `get_shared` fails (`OnStack`, `RefType`). Theorem: `EachValueOnceHolds`; that a pop finds the
storage a value is in is not part of it, and false (`bag_lost`). `InUseIsKept` is only model-checked.

**Queue**, from `QueueAssumption`. The contents are what is met along the links from the oldest entry, deleted ones left out (`LiveFrom`, a recursive function). The
invariant names, under an existential quantifier, the sequence Q of entries in the queue, the rank of each entry in the order of linking, and for each linked entry
the position of Q at which what is met from it begins: links go forward (`Forward`), an entry that has not been the oldest is not deleted, and
of those that have been only the first can be live (`AtFront`). `Reached` shows that `LiveFrom` is then that part of Q, so each step changes Q as `Fifo` says
(`QueueIsFifo`). For `EmptyIsEmptyHolds` there are two debts: a deleted oldest entry has somebody who will replace it
(`CleanDue`), and a newest entry without an oldest has somebody who will reset it (`ResetDue`); when all are idle, nobody has one.

**Bucket** with **LruList**, from `BucketAssumption` (a bucket has slots, a linked bucket has no more of them than a
bucket, as in the code; any number of linked buckets and keys). `BucketInv` has three parts, each inductive with the
ones before it.

1. `EntryInv`: the links are a path without repetitions from the bucket (`IsChain`; `ChainIsPath` shows that following
   links then yields exactly that path), back links mirror it but for a new linked bucket that is ready and not yet
   linked (`BackLinks`, `Fresh`), occupied means initialised but for the slot that is written and not published
   (`Bitmaps`), the valid slots on the path hold each live key once, twice only while an update has added the new
   version and not marked the old one (`Entries`, `Updating`), and `num_entries` is off by one only between the two
   stores of an erasure or update (`Counted`). None of these is inductive alone, because the entries are exact only
   between operations: `Purpose`, `Owner` and `Chosen` say which operation is where and what it knows about its slots.
   `WalkInv` says that each entry a walk has not met is `Ahead` of its pointer; unlinking the block under the pointer
   moves the pointer before the first slot of the next block, or ends the walk where there is none.
2. `LruInv`: the pairs of indices are the circle of the history `recent`, a sequence of slots without repetitions
   (`IsRing`). `RingRemove` and `RingAppend` do one change of the circle; circles of one and two slots are cases of
   their own, where a neighbour is the slot itself or both neighbours are the same.
3. `PeekInv`: a reader is at a block on the path, or the bucket has been killed (`PeekOn`); slots it has loaded as
   occupied stay so until nobody reads, since an OPTIMISTIC bucket only marks entries (`PeekOcc`); and a reader that
   must find its key has an entry of it in a slot that it has still to look at (`PeekFinds`, `Sought`). From the moment
   the erasure of an entry of its key begins (`EraseCount`), as the second half of an update too, the reader need not
   find the key.

Theorems: `BucketInvariant`, `EntriesExactHolds`, `LruIsRecencyHolds`, `WalkMeetsAllHolds`, `PeekFindsUntouchedHolds`.

**Only model-checked:** liveness (`bucket_lock`, `ebr`, `queue`, `tree`), because the prover has neither fairness
nor ENABLED; `Tree` with `TreeScan`, about which nothing has been proved yet; and the violations, which are about
behaviours of the program. Induction over data is done where it is needed with a least counterexample (a set of numbers without a least element is empty), because
the prover cannot use induction principles that take a predicate as a parameter.

## 5. Not modelled, and the plan

Not modelled, and why:

* weak memory, memory layout, panics in user code (except in the predicate of `prune`): the models are about interleavings of atomic steps;
* `Owned` and `AtomicOwned` (no count, one owner) and the unsafe conversions of pointers;
* `Reserve`, the minimum and maximum capacity, sampling and load factors: `HashTable` resizes whenever it may, to any size, which includes
  what these heuristics decide;
* `HashSet` (forwards to `HashMap`), `Clone`, `PartialEq`, `Debug` and `depth`: traversals made of the operations modelled;
* `TreeIndex::remove_range` and `clear`; `Stack`'s `Iter`; `Bag::len`, `IterMut` and `IntoIter`, which own the bag;
* serde, `ExitGuard` (its effect is in the actions of the code that uses it), hashing, tests, benchmarks and examples.

Planned, in this order:

1. Proofs about `Tree` (a key is in one leaf through splits, rollbacks and coalescing) and `TreeScan`, with the methods of `LinkedList_proofs` and `Bucket_proofs`.
2. `remove_range` over `Tree`, `Reserve` over `HashTable`.
3. The waiters of a bucket with the life of its array (`wait_queue.rs:208`): `BucketLock`, `HashTable` and `Ebr` composed at bounds at which a wait, a resize and three epochs happen.
