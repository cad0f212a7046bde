-------------------------- MODULE HashTable_proofs --------------------------
(***************************************************************************)
(* Proofs about the hash table: HashTable with the scans of HashScan, for  *)
(* any number of threads, keys, arrays and buckets.  First the structure:  *)
(* types, arrays and the ranges of an old array that are claimed.  With    *)
(* it, that locks exclude each other, that an array is let go of only when *)
(* it has been cleared, that a key is in one place, and that a lookup or a *)
(* scan does not overlook a key that has been in the table during the      *)
(* whole call.                                                             *)
(***************************************************************************)
EXTENDS HashScan, Integers, FiniteSetTheorems, WellFoundedInduction, TLAPS

-----------------------------------------------------------------------------
(* Structure: types, the arrays and what a thread knows about them          *)

\* Moving entries out of an old array.
Rehashing == {"claim", "bucket", "own", "relocate", "erase", "kill", "success",
              "drop", "fail", "check", "searchOld"}

\* With a bucket of the old array at hand.
AtBucket == {"bucket", "own", "relocate", "erase", "kill"}

\* In try_resize, and in that part of it in which the tag is set.
Resize == {"rload", "rtag", "rdrop", "rswap", "rkill", "ralloc", "rkeep"}
Tagged == {"rdrop", "rswap", "ralloc", "rkeep"}

\* With an array at hand.
Loaded == Rehashing \cup {"old", "lock", "hold", "holdS", "search", "reload",
                          "scan", "occupied", "switch"}

AtStart == {"idle", "load", "old", "claim", "success", "drop", "fail", "check",
            "searchOld", "lock", "hold", "holdS", "search", "reload", "rload",
            "rtag", "ralloc", "rkeep"}

PCs == Loaded \cup Resize \cup {"idle", "load", "reading", "missing", "done",
                                "scanned"}

Pointers == Arrays \cup {Null}

TypeInv ==
  /\ type \in Types
  /\ array \in Pointers /\ tag \in BOOLEAN
  /\ size \in [Arrays -> Sizes \cup {0}] /\ old \in [Arrays -> Pointers]
  /\ next \in [Arrays -> Nat] /\ refs \in [Arrays -> Int]
  /\ entries \in [Buckets -> SUBSET Keys] /\ killed \in SUBSET Buckets
  /\ held \in [Threads -> SUBSET Buckets] /\ shared \in [Threads -> SUBSET Buckets]
  /\ pc \in [Threads -> PCs]
  /\ op \in [Threads -> Operations \cup {"none"}]
  /\ key \in [Threads -> Keys \cup {Null}]
  /\ arr \in [Threads -> Pointers] /\ oldArr \in [Threads -> Pointers]
  /\ rarr \in [Threads -> Pointers] /\ seenTag \in [Threads -> BOOLEAN]
  /\ range \in [Threads -> Nat] /\ pos \in [Threads -> Nat]
  /\ copied \in [Threads -> SUBSET Keys] /\ due \in [Threads -> SUBSET Keys]

Allocated(a) == a \in Arrays /\ size[a] # 0

\* Arrays are allocated one after the other, the current one is the last, and
\* only it can have an old array.
ArraysInv ==
  /\ \A a, b \in Arrays : Allocated(a) /\ b < a => Allocated(b)
  /\ array # Null => Allocated(array) /\ \A a \in Arrays : Allocated(a) => a <= array
  /\ \A a \in Arrays : old[a] # Null =>
       a = array /\ Allocated(a) /\ Allocated(old[a]) /\ old[a] < a
  /\ tag => array # Null

\* The operation a thread is in, by where it is.
OpShape(t) ==
  /\ op[t] \in KeyOps => key[t] \in Keys
  /\ pc[t] \in {"lock", "hold", "holdS", "own"} => op[t] \in KeyOps
  /\ pc[t] \in {"search", "searchOld", "missing", "holdS", "reading"} => op[t] = "read"
  /\ pc[t] \in {"scan", "scanned"} => op[t] \in ScanOps
  /\ pc[t] = "occupied" => op[t] = "walk"
  /\ pc[t] = "switch" => op[t] = "iter"
  /\ pc[t] = "reload" => op[t] \in {"get", "read", "any", "retain", "prune", "walk"}
  /\ pc[t] \in Rehashing \cup {"load", "old"} => op[t] \in KeyOps \cup ScanOps
  /\ pc[t] \in Rehashing => op[t] # "iter"

\* The arrays a thread has loaded.  An old array that is being cleared is that
\* of the thread's array, which it cannot get back once it is detached.
ArrShape(t) ==
  /\ arr[t] # Null => Allocated(arr[t])
  /\ oldArr[t] # Null => Allocated(oldArr[t])
  /\ rarr[t] # Null => Allocated(rarr[t])
  /\ pc[t] \in Loaded => arr[t] # Null
  /\ pc[t] \in Rehashing =>
       /\ oldArr[t] # Null /\ oldArr[t] < arr[t]
       /\ old[arr[t]] \in {oldArr[t], Null}
       /\ \A a \in Arrays : old[a] = oldArr[t] => a = arr[t]
  /\ pc[t] = "switch" => oldArr[t] # Null /\ oldArr[t] # arr[t]
  /\ pc[t] \in {"scan", "occupied"} /\ op[t] # "iter" => old[arr[t]] = Null

\* The array a thread resizes is the current one until it has been replaced.
ResizeShape(t) ==
  /\ pc[t] \in Resize /\ Reserves(t) => arr[t] # Null /\ old[arr[t]] = Null
  /\ pc[t] \in Resize \ {"rload"} => rarr[t] # Null /\ old[rarr[t]] = Null
  /\ pc[t] \in Tagged => tag /\ rarr[t] = array
  /\ pc[t] = "rkill" => rarr[t] # array /\ \A a \in Arrays : old[a] # rarr[t]

\* The claimed range, and the position in the range, in the array or in the
\* scan.
PosShape(t) ==
  /\ range[t] # 0 => pc[t] \in {"bucket", "relocate", "erase", "kill", "success", "fail"}
  /\ pc[t] \in {"bucket", "success", "fail"} => range[t] # 0
  /\ pc[t] \in AtBucket => pos[t] < size[oldArr[t]]
  /\ pc[t] \in AtBucket /\ range[t] # 0 =>
       (range[t] - 1) * RangeLen <= pos[t] /\ pos[t] < range[t] * RangeLen
  /\ pc[t] \in AtBucket /\ range[t] = 0 =>
       op[t] \in KeyOps /\ pos[t] = Index(oldArr[t], key[t])
  /\ pc[t] \in {"rdrop", "rkill"} => pos[t] < size[rarr[t]]
  /\ pc[t] \in AtStart => pos[t] = 0
  /\ pc[t] = "scanned" /\ op[t] \in {"retain", "prune"} => pos[t] = 0
  /\ pc[t] = "occupied" => pos[t] < size[arr[t]]
  /\ copied[t] # {} => pc[t] = "erase"

\* One thread at a time resizes.
OneResizer == \A t, u \in Threads : pc[t] \in Tagged /\ pc[u] \in Tagged => t = u

Structure ==
  /\ TypeInv /\ ArraysInv /\ OneResizer
  /\ \A t \in Threads : OpShape(t) /\ ArrShape(t) /\ ResizeShape(t) /\ PosShape(t)

-----------------------------------------------------------------------------
(* Numbers                                                                  *)

\* The quotient bounds the dividend.
LEMMA Division ==
  ASSUME NEW m \in Nat, NEW d \in Nat, d > 0
  PROVE  m \div d \in Nat /\ d * (m \div d) <= m /\ m < d * (m \div d) + d
  OBVIOUS

\* The bounds determine the quotient.
LEMMA DivisionUnique ==
  ASSUME NEW m \in Nat, NEW d \in Nat, d > 0, NEW q \in Nat,
         d * q <= m, m < d * q + d
  PROVE  m \div d = q
<1> DEFINE x == m \div d
<1>1. x \in Nat /\ d * x <= m /\ m < d * x + d
  BY Division
<1>2. d * x < d * (q + 1) /\ d * q < d * (x + 1)
  BY <1>1
<1>3. x < q + 1 /\ q < x + 1
  BY <1>1, <1>2
<1> QED BY <1>1, <1>3

\* A number of buckets divides the range of the hash.
LEMMA SizeFacts ==
  ASSUME NEW s \in Sizes
  PROVE  /\ s \in Nat /\ s > 0 /\ HashRange \div s \in Nat /\ HashRange \div s > 0
         /\ HashRange = s * (HashRange \div s) /\ s <= HashRange
<1>1. s \in Nat /\ s > 0 /\ HashRange \in Nat /\ HashRange > 0 /\ HashRange % s = 0
      /\ s <= HashRange
  BY TableAssumption
<1> DEFINE q == HashRange \div s
<1>2. q \in Nat /\ HashRange = s * q
  BY <1>1, Division
<1>3. q # 0
  BY <1>1, <1>2
<1> QED BY <1>1, <1>2, <1>3

\* Hash values are below the range of the hash.
LEMMA HashBound == ASSUME NEW k \in Keys PROVE Hash[k] \in Nat /\ Hash[k] < HashRange
  BY TableAssumption

\* calculate_bucket_index stays within the array.
LEMMA IndexOfSize ==
  ASSUME NEW s \in Sizes, NEW k \in Keys
  PROVE  /\ Hash[k] \div (HashRange \div s) \in Nat
         /\ Hash[k] \div (HashRange \div s) < s
         /\ Hash[k] \div (HashRange \div s) \in 0 .. HashRange - 1
<1> DEFINE q == HashRange \div s
           h == Hash[k]
           x == h \div q
<1>1. /\ s \in Nat /\ s > 0 /\ q \in Nat /\ q > 0 /\ HashRange = s * q
      /\ s <= HashRange
  BY SizeFacts
<1>2. h \in Nat /\ h < HashRange
  BY HashBound
<1>3. x \in Nat /\ q * x <= h
  BY <1>1, <1>2, Division
<1>4. x < s
  <2>1. q * x < q * s
    BY <1>1, <1>2, <1>3
  <2> HIDE DEF x, q
  <2> QED BY <1>1, <1>3, <2>1 DEF x
<1>5. x \in 0 .. HashRange - 1
  <2> HIDE DEF x, q
  <2> QED BY <1>1, <1>3, <1>4, TableAssumption
<1> QED BY <1>3, <1>4, <1>5

\* calculate_bucket_index gives a bucket of the array.
LEMMA IndexBound ==
  ASSUME TypeInv, NEW a, Allocated(a), NEW k \in Keys
  PROVE  /\ Index(a, k) \in Nat /\ Index(a, k) < size[a]
         /\ BucketOf(a, k) \in Buckets /\ BucketOf(a, k) \in BucketsOf(a)
<1>1. a \in Arrays /\ size[a] \in Sizes
  BY DEF TypeInv, Allocated
<1>2. Index(a, k) \in Nat /\ Index(a, k) < size[a] /\ Index(a, k) \in 0 .. HashRange - 1
  BY <1>1, IndexOfSize DEF Index
<1>3. Index(a, k) \in 0 .. size[a] - 1
  BY <1>1, <1>2, SizeFacts
<1> QED BY <1>1, <1>2, <1>3 DEF BucketOf, Buckets, BucketsOf

\* The buckets of an array are numbered up to its size.
LEMMA BucketsFacts ==
  ASSUME TypeInv, NEW a \in Arrays
  PROVE  /\ BucketsOf(a) \subseteq Buckets
         /\ \A i \in Nat : i < size[a] => <<a, i>> \in BucketsOf(a) /\ <<a, i>> \in Buckets
         /\ size[a] \in Nat /\ size[a] <= HashRange
<1>1. size[a] \in Nat /\ size[a] <= HashRange /\ HashRange \in Nat
  BY SizeFacts, TableAssumption DEF TypeInv
<1>2. \A i \in 0 .. size[a] - 1 : i \in 0 .. HashRange - 1
  BY <1>1
<1> QED BY <1>1, <1>2 DEF BucketsOf, Buckets

\* There are as many ranges as it takes to cover the array, and no more.
LEMMA RangesCover ==
  ASSUME TypeInv, NEW a \in Arrays, NEW n \in Nat
  PROVE  /\ n < Ranges(a) => n * RangeLen < size[a]
         /\ n >= Ranges(a) => size[a] <= n * RangeLen
         /\ Ranges(a) \in Nat
<1> DEFINE s == size[a]
           R == RangeLen
           m == (s + R - 1) \div R
<1>1. s \in Nat /\ R \in Nat /\ R > 0
  BY BucketsFacts, TableAssumption
<1> HIDE DEF s, R
<1>2. m \in Nat /\ R * m <= s + R - 1 /\ s + R - 1 < R * m + R
  BY <1>1, Division
<1>3. n < m => n * R < s
  <2> SUFFICES ASSUME n < m PROVE n * R < s
    OBVIOUS
  <2>1. R * (n + 1) <= R * m
    BY <1>1, <1>2
  <2> HIDE DEF m
  <2>2. R * (n + 1) = R * n + R
    BY <1>1
  <2> QED BY <1>1, <1>2, <2>1, <2>2
<1>4. n >= m => s <= n * R
  <2> SUFFICES ASSUME n >= m PROVE s <= n * R
    OBVIOUS
  <2>1. R * m <= R * n
    BY <1>1, <1>2
  <2> HIDE DEF m
  <2> QED BY <1>1, <1>2, <2>1
<1> QED BY <1>2, <1>3, <1>4 DEF Ranges, s, R

\* The smallest size is one.
LEMMA SmallestIsSize == SmallestSize \in Sizes
<1>1. Sizes \subseteq Nat /\ Sizes # {}
  BY SizeFacts, TableAssumption
<1>2. PICK x \in Sizes : \A y \in Sizes : ~(<<y, x>> \in OpToRel(<, Nat))
  BY <1>1, NatLessThanWellFounded, WFMin
<1>3. \A y \in Sizes : x <= y
  <2>1. \A y \in Sizes : ~(y < x) /\ y \in Nat /\ x \in Nat
    BY <1>1, <1>2 DEF OpToRel
  <2> QED BY <2>1
<1> QED BY <1>3 DEF SmallestSize

-----------------------------------------------------------------------------
(* What any step leaves alone                                               *)

Step(t) == TableStep(t) \/ ScanStep(t)

\* A step changes nothing of the other threads, but for the keys that they
\* need not find any more.
OthersKeep(t) ==
  \A u \in Threads \ {t} :
    /\ pc'[u] = pc[u] /\ op'[u] = op[u] /\ key'[u] = key[u]
    /\ arr'[u] = arr[u] /\ seenTag'[u] = seenTag[u] /\ oldArr'[u] = oldArr[u]
    /\ range'[u] = range[u] /\ pos'[u] = pos[u] /\ copied'[u] = copied[u]
    /\ rarr'[u] = rarr[u] /\ held'[u] = held[u] /\ shared'[u] = shared[u]
    /\ due'[u] \subseteq due[u]

\* Of the table, an allocated array keeps its size, gets no other old array,
\* is not made the current one, and no bucket is revived.
Monotone ==
  /\ type' = type /\ killed \subseteq killed'
  /\ \A a \in Arrays : Allocated(a) => size'[a] = size[a]
  /\ \A a \in Arrays :
       \/ old'[a] \in {old[a], Null}
       \/ ~Allocated(a) /\ old'[a] = array /\ array' = a
  /\ \/ array' \in {array, Null}
     \/ ~Allocated(array') /\ array' \in Arrays

\* A step of t leaves the locals of the others alone, and arrays and dead buckets
\* only grow.
LEMMA Frame ==
  ASSUME TypeInv, NEW t \in Threads, Step(t)
  PROVE  OthersKeep(t) /\ Monotone
<1> USE DEF arrayVars, bucketVars, lockVars, callVars, moveVars, localVars,
          Goto, OthersKeep, Monotone, TypeInv, Allocated, Pointers
<1>1. ASSUME NEW o \in Ops[type][t], NEW k \in Keys, Begin(t, o, k)
      PROVE  OthersKeep(t) /\ Monotone
  BY <1>1 DEF Begin, Offered
<1>2. CASE Load(t)
  BY <1>2 DEF Load, Allocate, Fresh, NotFound, Reserves
<1>3. CASE LoadOld(t)
  BY <1>3 DEF LoadOld, Work, Reserves
<1>4. CASE Claim(t)
  BY <1>4 DEF Claim, Claimable
<1>5. CASE LockOld(t)
  BY <1>5 DEF LockOld, NextBucket, GiveUp
<1>6. ASSUME NEW k \in Keys, LockTarget(t, k)
      PROVE  OthersKeep(t) /\ Monotone
  BY <1>6 DEF LockTarget, GiveUp
<1>7. ASSUME NEW k \in Keys, MoveEntry(t, k)
      PROVE  OthersKeep(t) /\ Monotone
  BY <1>7 DEF MoveEntry
<1>8. CASE EraseOld(t)
  BY <1>8 DEF EraseOld
<1>9. CASE Emptied(t)
  BY <1>9 DEF Emptied
<1>10. CASE Kill(t)
  BY <1>10 DEF Kill, NextBucket
<1>11. CASE Success(t)
  BY <1>11 DEF Success
<1>12. CASE DropOld(t)
  BY <1>12 DEF DropOld
<1>13. CASE Fail(t)
  BY <1>13 DEF Fail
<1>14. CASE Check(t)
  BY <1>14 DEF Check, AfterRehash, Work
<1>15. CASE LockFails(t)
  BY <1>15 DEF LockFails, Lookup
<1>16. CASE InsertEntry(t)
  BY <1>16 DEF InsertEntry, Hold, Lockable
<1>17. CASE ReserveEntry(t)
  BY <1>17 DEF ReserveEntry, Hold, Lockable
<1>18. CASE RemoveEntry(t)
  BY <1>18 DEF RemoveEntry, Hold, Gone, Lockable
<1>19. CASE GetEntry(t)
  BY <1>19 DEF GetEntry, Hold, Lockable
<1>20. CASE ReadEntry(t)
  BY <1>20 DEF ReadEntry
<1>21. CASE VacantInsert(t)
  BY <1>21 DEF VacantInsert
<1>22. ASSUME NEW k \in Keys, OccupiedRemove(t, k)
      PROVE  OthersKeep(t) /\ Monotone
  BY <1>22 DEF OccupiedRemove
<1>23. CASE Release(t)
  BY <1>23 DEF Release
<1>24. CASE ReleaseReader(t)
  BY <1>24 DEF ReleaseReader
<1>25. CASE SearchOld(t)
  BY <1>25 DEF SearchOld
<1>26. CASE Search(t)
  BY <1>26 DEF Search
<1>27. CASE Reload(t)
  BY <1>27 DEF Reload, NotFound
<1>28. CASE ResizeLoad(t)
  BY <1>28 DEF ResizeLoad, AfterResize, Reserves
<1>29. CASE ResizeTag(t)
  BY <1>29 DEF ResizeTag, AfterResize, Reserves
<1>30. CASE DropLock(t)
  BY <1>30 DEF DropLock
<1>31. CASE DropSwap(t)
  BY <1>31 DEF DropSwap
<1>32. CASE DropKill(t)
  BY <1>32 DEF DropKill, AfterResize, Reserves
<1>33. CASE ResizeAlloc(t)
  BY <1>33 DEF ResizeAlloc, AfterResize, Allocate, Fresh, Reserves
<1>34. CASE ResizeKeep(t)
  BY <1>34 DEF ResizeKeep, AfterResize, Reserves
<1>35. CASE End(t)
  BY <1>35 DEF End, Return
<1>36. CASE AnyBucket(t)
  BY <1>36 DEF AnyBucket, GoOn, Scanning
<1>37. CASE RetainBucket(t)
  BY <1>37 DEF RetainBucket, GoOn, Scanning
<1>38. CASE PruneBucket(t)
  BY <1>38 DEF PruneBucket, GoOn, Scanning
<1>39. CASE WalkBucket(t)
  BY <1>39 DEF WalkBucket, GoOn, Scanning
<1>40. CASE WalkNext(t)
  BY <1>40 DEF WalkNext, Restarts
<1>41. CASE ScanEnd(t)
  BY <1>41 DEF ScanEnd
<1>42. CASE TryResize(t)
  BY <1>42 DEF TryResize
<1>43. CASE IterStart(t)
  BY <1>43 DEF IterStart, OldFirst
<1>44. CASE IterBucket(t)
  BY <1>44 DEF IterBucket, GoOn
<1>45. CASE IterEnd(t)
  BY <1>45 DEF IterEnd
<1>46. CASE IterSwitch(t)
  BY <1>46 DEF IterSwitch, IterFrom, OldFirst
<1>47. CASE ScanReturn(t)
  BY <1>47 DEF ScanReturn, Return
<1> QED BY <1>1, <1>2, <1>3, <1>4, <1>5, <1>6, <1>7, <1>8, <1>9, <1>10,
           <1>11, <1>12, <1>13, <1>14, <1>15, <1>16, <1>17, <1>18, <1>19,
           <1>20, <1>21, <1>22, <1>23, <1>24, <1>25, <1>26, <1>27, <1>28,
           <1>29, <1>30, <1>31, <1>32, <1>33, <1>34, <1>35, <1>36, <1>37,
           <1>38, <1>39, <1>40, <1>41, <1>42, <1>43, <1>44, <1>45, <1>46,
           <1>47
        DEF Step, TableStep, ScanStep

-----------------------------------------------------------------------------
(* Structure is inductive                                                   *)

\* The structural invariant, at first.
LEMMA StructureInit == Init => Structure
<1> SUFFICES ASSUME Init PROVE Structure
  OBVIOUS
<1>1. TypeInv
  <2>1. array \in Pointers /\ tag \in BOOLEAN /\ killed \in SUBSET Buckets
        /\ type \in Types
    BY DEF Init, Pointers
  <2>2. /\ size \in [Arrays -> Sizes \cup {0}] /\ old \in [Arrays -> Pointers]
        /\ next \in [Arrays -> Nat] /\ refs \in [Arrays -> Int]
        /\ entries \in [Buckets -> SUBSET Keys]
    BY DEF Init, Pointers
  <2>3. /\ pc \in [Threads -> PCs] /\ op \in [Threads -> Operations \cup {"none"}]
        /\ key \in [Threads -> Keys \cup {Null}]
        /\ seenTag \in [Threads -> BOOLEAN]
    BY DEF Init, PCs
  <2>4. /\ held \in [Threads -> SUBSET Buckets] /\ shared \in [Threads -> SUBSET Buckets]
        /\ arr \in [Threads -> Pointers] /\ oldArr \in [Threads -> Pointers]
        /\ rarr \in [Threads -> Pointers]
    BY DEF Init, Pointers
  <2>5. /\ range \in [Threads -> Nat] /\ pos \in [Threads -> Nat]
        /\ copied \in [Threads -> SUBSET Keys] /\ due \in [Threads -> SUBSET Keys]
    BY DEF Init
  <2> QED BY <2>1, <2>2, <2>3, <2>4, <2>5 DEF TypeInv
<1>2. ArraysInv
  BY DEF Init, ArraysInv, Allocated
<1>3. \A t \in Threads : OpShape(t) /\ ArrShape(t) /\ ResizeShape(t) /\ PosShape(t)
  BY DEF Init, OpShape, ArrShape, ResizeShape, PosShape, KeyOps, ScanOps, Rehashing,
         Loaded, Resize, Tagged, AtBucket, AtStart
<1>4. OneResizer
  BY DEF Init, OneResizer, Tagged
<1> QED BY <1>1, <1>2, <1>3, <1>4 DEF Structure

\* The array that is allocated next follows all that have been.
LEMMA FreshIsLast ==
  ASSUME Structure, NEW a \in Fresh
  PROVE  /\ a \in Arrays /\ a # Null /\ ~Allocated(a) /\ old[a] = Null
         /\ \A b \in Arrays : Allocated(b) => b < a
         /\ \A b \in Arrays : b < a => Allocated(b)
         /\ \A b \in Arrays : old[b] # a
         /\ a # array
<1>1. a \in Arrays /\ size[a] = 0 /\ \A b \in Arrays : b < a => size[b] # 0
  BY DEF Fresh
<1>2. a \in Nat /\ a > 0 /\ \A b \in Arrays : b \in Nat
  BY <1>1, TableAssumption DEF Arrays
<1>3. \A b \in Arrays : Allocated(b) => b < a
  BY <1>1, <1>2 DEF Structure, ArraysInv, Allocated
<1> QED BY <1>1, <1>2, <1>3 DEF Structure, ArraysInv, Allocated, Null

\* While a thread resizes nobody else changes bucket_array.
LEMMA TagProtects ==
  ASSUME Structure, NEW t \in Threads, Step(t), NEW u \in Threads, u # t,
         pc[u] \in Tagged
  PROVE  array' = array /\ tag' = tag
<1>1. tag /\ array # Null /\ pc[t] \notin Tagged
  BY DEF Structure, ResizeShape, OneResizer, ArraysInv
<1> USE DEF arrayVars, bucketVars, lockVars, callVars, moveVars, localVars,
          Tagged
<1>2. ASSUME NEW o \in Ops[type][t], NEW k \in Keys, Begin(t, o, k)
      PROVE  array' = array /\ tag' = tag
  BY <1>2, <1>1 DEF Begin, Goto, Offered
<1>3. CASE Load(t)
  BY <1>3, <1>1 DEF Load, Goto, Allocate, Fresh, NotFound, Reserves
<1>4. CASE LoadOld(t)
  BY <1>4, <1>1 DEF LoadOld, Goto, Work, Reserves
<1>5. CASE Claim(t)
  BY <1>5, <1>1 DEF Claim, Goto, Claimable
<1>6. CASE LockOld(t)
  BY <1>6, <1>1 DEF LockOld, Goto, NextBucket, GiveUp
<1>7. ASSUME NEW k \in Keys, LockTarget(t, k)
      PROVE  array' = array /\ tag' = tag
  BY <1>7, <1>1 DEF LockTarget, Goto, GiveUp
<1>8. ASSUME NEW k \in Keys, MoveEntry(t, k)
      PROVE  array' = array /\ tag' = tag
  BY <1>8, <1>1 DEF MoveEntry, Goto
<1>9. CASE EraseOld(t)
  BY <1>9, <1>1 DEF EraseOld, Goto
<1>10. CASE Emptied(t)
  BY <1>10, <1>1 DEF Emptied, Goto
<1>11. CASE Kill(t)
  BY <1>11, <1>1 DEF Kill, Goto, NextBucket
<1>12. CASE Success(t)
  BY <1>12, <1>1 DEF Success, Goto
<1>13. CASE DropOld(t)
  BY <1>13, <1>1 DEF DropOld, Goto
<1>14. CASE Fail(t)
  BY <1>14, <1>1 DEF Fail, Goto
<1>15. CASE Check(t)
  BY <1>15, <1>1 DEF Check, Goto, AfterRehash, Work
<1>16. CASE LockFails(t)
  BY <1>16, <1>1 DEF LockFails, Goto, Lookup
<1>17. CASE InsertEntry(t)
  BY <1>17, <1>1 DEF InsertEntry, Goto, Hold, Lockable
<1>18. CASE ReserveEntry(t)
  BY <1>18, <1>1 DEF ReserveEntry, Goto, Hold, Lockable
<1>19. CASE RemoveEntry(t)
  BY <1>19, <1>1 DEF RemoveEntry, Goto, Hold, Gone, Lockable
<1>20. CASE GetEntry(t)
  BY <1>20, <1>1 DEF GetEntry, Goto, Hold, Lockable
<1>21. CASE ReadEntry(t)
  BY <1>21, <1>1 DEF ReadEntry, Goto
<1>22. CASE VacantInsert(t)
  BY <1>22, <1>1 DEF VacantInsert
<1>23. ASSUME NEW k \in Keys, OccupiedRemove(t, k)
      PROVE  array' = array /\ tag' = tag
  BY <1>23, <1>1 DEF OccupiedRemove, Goto
<1>24. CASE Release(t)
  BY <1>24, <1>1 DEF Release, Goto
<1>25. CASE ReleaseReader(t)
  BY <1>25, <1>1 DEF ReleaseReader, Goto
<1>26. CASE SearchOld(t)
  BY <1>26, <1>1 DEF SearchOld, Goto
<1>27. CASE Search(t)
  BY <1>27, <1>1 DEF Search, Goto
<1>28. CASE Reload(t)
  BY <1>28, <1>1 DEF Reload, Goto, NotFound
<1>29. CASE ResizeLoad(t)
  BY <1>29, <1>1 DEF ResizeLoad, Goto, AfterResize, Reserves
<1>30. CASE ResizeTag(t)
  BY <1>30, <1>1 DEF ResizeTag, Goto, AfterResize, Reserves
<1>31. CASE DropLock(t)
  BY <1>31, <1>1 DEF DropLock, Goto
<1>32. CASE DropSwap(t)
  BY <1>32, <1>1 DEF DropSwap, Goto
<1>33. CASE DropKill(t)
  BY <1>33, <1>1 DEF DropKill, Goto, AfterResize, Reserves
<1>34. CASE ResizeAlloc(t)
  BY <1>34, <1>1 DEF ResizeAlloc, Goto, AfterResize, Allocate, Fresh,
     Reserves
<1>35. CASE ResizeKeep(t)
  BY <1>35, <1>1 DEF ResizeKeep, Goto, AfterResize, Reserves
<1>36. CASE End(t)
  BY <1>36, <1>1 DEF End, Goto, Return
<1>37. CASE AnyBucket(t)
  BY <1>37, <1>1 DEF AnyBucket, Goto, GoOn, Scanning
<1>38. CASE RetainBucket(t)
  BY <1>38, <1>1 DEF RetainBucket, GoOn, Scanning
<1>39. CASE PruneBucket(t)
  BY <1>39, <1>1 DEF PruneBucket, GoOn, Scanning
<1>40. CASE WalkBucket(t)
  BY <1>40, <1>1 DEF WalkBucket, Goto, GoOn, Scanning
<1>41. CASE WalkNext(t)
  BY <1>41, <1>1 DEF WalkNext, Goto, Restarts
<1>42. CASE ScanEnd(t)
  BY <1>42, <1>1 DEF ScanEnd, Goto
<1>43. CASE TryResize(t)
  BY <1>43, <1>1 DEF TryResize, Goto
<1>44. CASE IterStart(t)
  BY <1>44, <1>1 DEF IterStart, Goto, OldFirst
<1>45. CASE IterBucket(t)
  BY <1>45, <1>1 DEF IterBucket, GoOn
<1>46. CASE IterEnd(t)
  BY <1>46, <1>1 DEF IterEnd, Goto
<1>47. CASE IterSwitch(t)
  BY <1>47, <1>1 DEF IterSwitch, Goto, IterFrom, OldFirst
<1>48. CASE ScanReturn(t)
  BY <1>48, <1>1 DEF ScanReturn, Goto, Return
<1> QED BY <1>2, <1>3, <1>4, <1>5, <1>6, <1>7, <1>8, <1>9, <1>10, <1>11,
           <1>12, <1>13, <1>14, <1>15, <1>16, <1>17, <1>18, <1>19, <1>20,
           <1>21, <1>22, <1>23, <1>24, <1>25, <1>26, <1>27, <1>28, <1>29,
           <1>30, <1>31, <1>32, <1>33, <1>34, <1>35, <1>36, <1>37, <1>38,
           <1>39, <1>40, <1>41, <1>42, <1>43, <1>44, <1>45, <1>46, <1>47,
           <1>48
        DEF Step, TableStep, ScanStep

\* What the other threads know about the arrays stays true.
LEMMA StructureOther ==
  ASSUME Structure, NEW t \in Threads, Step(t), NEW u \in Threads, u # t
  PROVE  OpShape(u)' /\ ArrShape(u)' /\ ResizeShape(u)' /\ PosShape(u)'
<1>1. OthersKeep(t) /\ Monotone
  BY Frame DEF Structure
<1>2. /\ pc'[u] = pc[u] /\ op'[u] = op[u] /\ key'[u] = key[u] /\ arr'[u] = arr[u]
      /\ oldArr'[u] = oldArr[u] /\ range'[u] = range[u] /\ pos'[u] = pos[u]
      /\ rarr'[u] = rarr[u] /\ copied'[u] = copied[u]
  BY <1>1 DEF OthersKeep
<1>3. OpShape(u) /\ ArrShape(u) /\ ResizeShape(u) /\ PosShape(u)
  BY DEF Structure
<1>4. /\ \A a \in Arrays : Allocated(a) => size'[a] = size[a] /\ Allocated(a)'
      /\ \A a \in Arrays : Allocated(a) => old'[a] \in {old[a], Null}
      /\ \A a \in Arrays : Allocated(a) /\ array' = a => array = a
      /\ \A a \in Arrays : a # array => \A b \in Arrays : old'[b] = a => old[b] = a
  BY <1>1 DEF Monotone, Allocated, Arrays, Null
<1>5. /\ arr[u] \in Pointers /\ oldArr[u] \in Pointers /\ rarr[u] \in Pointers
      /\ array \in Pointers
  BY DEF Structure, TypeInv
<1>6. \A a \in Arrays : a # Null
  BY DEF Arrays, Null
<1>7. OpShape(u)'
  BY <1>2, <1>3 DEF OpShape
<1>8. ArrShape(u)'
  <2>1. \A a \in {arr[u], oldArr[u], rarr[u]} : a # Null => a \in Arrays /\ size'[a] # 0
    BY <1>3, <1>4, <1>5 DEF ArrShape, Pointers, Allocated
  <2>2. ASSUME pc[u] \in Rehashing
        PROVE  /\ oldArr[u] # Null /\ oldArr[u] < arr[u]
               /\ old'[arr[u]] \in {oldArr[u], Null}
               /\ \A a \in Arrays : old'[a] = oldArr[u] => a = arr[u]
    <3>1. /\ oldArr[u] # Null /\ oldArr[u] < arr[u] /\ arr[u] # Null
          /\ old[arr[u]] \in {oldArr[u], Null}
          /\ \A a \in Arrays : old[a] = oldArr[u] => a = arr[u]
      BY <1>3, <2>2 DEF ArrShape, Loaded
    <3>2. oldArr[u] # array
      <4> SUFFICES ASSUME oldArr[u] = array PROVE FALSE
        OBVIOUS
      <4>1. Allocated(arr[u]) /\ arr[u] \in Arrays
        BY <1>3, <1>5, <3>1 DEF ArrShape, Pointers
      <4>2. arr[u] <= array
        BY <3>1, <4>1 DEF Structure, ArraysInv
      <4> QED BY <1>5, <3>1, <4>1, <4>2 DEF Pointers, Arrays
    <3>3. Allocated(arr[u]) /\ arr[u] \in Arrays /\ oldArr[u] \in Arrays
      BY <1>3, <1>5, <3>1 DEF ArrShape, Pointers
    <3> QED BY <1>4, <3>1, <3>2, <3>3
  <2>3. pc[u] \in {"scan", "occupied"} /\ op[u] # "iter" => old'[arr[u]] = Null
    BY <1>3, <1>4, <1>5 DEF ArrShape, Loaded, Pointers
  <2>4. /\ pc[u] \in Loaded => arr[u] # Null
        /\ pc[u] = "switch" => oldArr[u] # Null /\ oldArr[u] # arr[u]
    BY <1>3 DEF ArrShape
  <2>5. /\ (arr[u] # Null => Allocated(arr[u]))'
        /\ (oldArr[u] # Null => Allocated(oldArr[u]))'
        /\ (rarr[u] # Null => Allocated(rarr[u]))'
    BY <1>2, <2>1 DEF Allocated
  <2> QED BY <1>2, <2>2, <2>3, <2>4, <2>5 DEF ArrShape
<1>9. ResizeShape(u)'
  <2>1. Reserves(u)' = Reserves(u)
    BY <1>2 DEF Reserves
  <2>2. pc[u] \in Resize /\ Reserves(u) => arr[u] # Null /\ old'[arr[u]] = Null
    BY <1>3, <1>4, <1>5 DEF ResizeShape, ArrShape, Pointers
  <2>3. pc[u] \in Resize \ {"rload"} => rarr[u] # Null /\ old'[rarr[u]] = Null
    BY <1>3, <1>4, <1>5 DEF ResizeShape, ArrShape, Pointers
  <2>4. pc[u] \in Tagged => tag' /\ rarr[u] = array'
    BY <1>3, TagProtects DEF ResizeShape
  <2>5. pc[u] = "rkill" => rarr[u] # array' /\ \A a \in Arrays : old'[a] # rarr[u]
    <3> SUFFICES ASSUME pc[u] = "rkill"
                 PROVE  rarr[u] # array' /\ \A a \in Arrays : old'[a] # rarr[u]
      OBVIOUS
    <3>1. rarr[u] \in Arrays /\ Allocated(rarr[u])
      BY <1>3, <1>5 DEF ResizeShape, ArrShape, Pointers, Resize
    <3> QED BY <1>3, <1>4, <3>1 DEF ResizeShape
  <2> QED BY <1>2, <2>1, <2>2, <2>3, <2>4, <2>5 DEF ResizeShape
<1>10. PosShape(u)'
  <2>1. /\ pc[u] \in AtBucket => size'[oldArr[u]] = size[oldArr[u]]
        /\ pc[u] \in {"rdrop", "rkill"} => size'[rarr[u]] = size[rarr[u]]
        /\ pc[u] = "occupied" => size'[arr[u]] = size[arr[u]]
    BY <1>3, <1>4, <1>5
       DEF ArrShape, ResizeShape, Pointers, AtBucket, Rehashing, Loaded, Resize
  <2>2. pc[u] \in AtBucket => Index(oldArr[u], key[u])' = Index(oldArr[u], key[u])
    BY <1>2, <2>1 DEF Index
  <2>3. range[u] \in Nat /\ pos[u] \in Nat /\ RangeLen \in Nat
    BY TableAssumption DEF Structure, TypeInv
  <2> QED BY <1>2, <1>3, <2>1, <2>2, <2>3 DEF PosShape
<1> QED BY <1>7, <1>8, <1>9, <1>10

\* Facts about the constants and the thread that moves.
LEMMA OwnFacts ==
  ASSUME Structure, NEW t \in Threads
  PROVE  /\ OpShape(t) /\ ArrShape(t) /\ ResizeShape(t) /\ PosShape(t)
         /\ arr[t] \in Pointers /\ oldArr[t] \in Pointers /\ rarr[t] \in Pointers
         /\ array \in Pointers /\ \A a \in Arrays : old[a] \in Pointers /\ a # Null
         /\ range[t] \in Nat /\ pos[t] \in Nat /\ RangeLen \in Nat /\ RangeLen > 0
         /\ \A a \in Arrays : size[a] \in Nat /\ next[a] \in Nat /\ refs[a] \in Int
         /\ \A a \in Arrays : a \in Nat
<1>1. RangeLen \in Nat /\ RangeLen > 0 /\ \A a \in Arrays : a # Null /\ a \in Nat
  BY TableAssumption DEF Arrays, Null
<1>2. \A a \in Arrays : size[a] \in Nat
  BY BucketsFacts DEF Structure
<1> QED BY <1>1, <1>2 DEF Structure, TypeInv

\* A step of t keeps what its operation says of where it is.
LEMMA OpOwn ==
  ASSUME Structure, NEW t \in Threads, Step(t)
  PROVE  OpShape(t)'
<1>1. OpShape(t) /\ pc \in [Threads -> PCs] /\ op \in [Threads -> Operations \cup {"none"}]
      /\ key \in [Threads -> Keys \cup {Null}] /\ PosShape(t)
      /\ \A u \in Threads : key[u] \in Keys \cup {Null}
  BY DEF Structure, TypeInv
<1>2. Types \subseteq {"SEQUENTIAL", "OPTIMISTIC"} /\ type \in Types
      /\ \A o \in Ops[type][t] : o \in Operations
  BY TableAssumption DEF Structure, TypeInv
<1>3. pc[t] \in {"bucket", "own", "kill"} /\ range[t] = 0 => op[t] \in KeyOps
  BY <1>1 DEF PosShape, AtBucket
<1> USE DEF arrayVars, bucketVars, lockVars, callVars, moveVars, localVars,
          Goto, OpShape, KeyOps, ScanOps, Operations, Rehashing, Null
<1>4. ASSUME NEW o \in Ops[type][t], NEW k \in Keys, Begin(t, o, k)
      PROVE  OpShape(t)'
  BY <1>4, <1>1, <1>2, <1>3 DEF Begin, Offered
<1>5. CASE Load(t)
  BY <1>5, <1>1, <1>2, <1>3 DEF Load, Allocate, Fresh, NotFound, Reserves
<1>6. CASE LoadOld(t)
  BY <1>6, <1>1, <1>2, <1>3 DEF LoadOld, Work, Reserves
<1>7. CASE Claim(t)
  BY <1>7, <1>1, <1>2, <1>3 DEF Claim, Claimable
<1>8. CASE LockOld(t)
  BY <1>8, <1>1, <1>2, <1>3 DEF LockOld, NextBucket, GiveUp
<1>9. ASSUME NEW k \in Keys, LockTarget(t, k)
      PROVE  OpShape(t)'
  BY <1>9, <1>1, <1>2, <1>3 DEF LockTarget, GiveUp
<1>10. ASSUME NEW k \in Keys, MoveEntry(t, k)
      PROVE  OpShape(t)'
  BY <1>10, <1>1, <1>2, <1>3 DEF MoveEntry
<1>11. CASE EraseOld(t)
  BY <1>11, <1>1, <1>2, <1>3 DEF EraseOld
<1>12. CASE Emptied(t)
  BY <1>12, <1>1, <1>2, <1>3 DEF Emptied
<1>13. CASE Kill(t)
  BY <1>13, <1>1, <1>2, <1>3 DEF Kill, NextBucket
<1>14. CASE Success(t)
  BY <1>14, <1>1, <1>2, <1>3 DEF Success
<1>15. CASE DropOld(t)
  BY <1>15, <1>1, <1>2, <1>3 DEF DropOld
<1>16. CASE Fail(t)
  BY <1>16, <1>1, <1>2, <1>3 DEF Fail
<1>17. CASE Check(t)
  BY <1>17, <1>1, <1>2, <1>3 DEF Check, AfterRehash, Work
<1>18. CASE LockFails(t)
  BY <1>18, <1>1, <1>2, <1>3 DEF LockFails, Lookup
<1>19. CASE InsertEntry(t)
  BY <1>19, <1>1, <1>2, <1>3 DEF InsertEntry, Hold, Lockable
<1>20. CASE ReserveEntry(t)
  BY <1>20, <1>1, <1>2, <1>3 DEF ReserveEntry, Hold, Lockable
<1>21. CASE RemoveEntry(t)
  BY <1>21, <1>1, <1>2, <1>3 DEF RemoveEntry, Hold, Gone, Lockable
<1>22. CASE GetEntry(t)
  BY <1>22, <1>1, <1>2, <1>3 DEF GetEntry, Hold, Lockable
<1>23. CASE ReadEntry(t)
  BY <1>23, <1>1, <1>2, <1>3 DEF ReadEntry
<1>24. CASE VacantInsert(t)
  BY <1>24, <1>1, <1>2, <1>3 DEF VacantInsert
<1>25. ASSUME NEW k \in Keys, OccupiedRemove(t, k)
      PROVE  OpShape(t)'
  BY <1>25, <1>1, <1>2, <1>3 DEF OccupiedRemove
<1>26. CASE Release(t)
  BY <1>26, <1>1, <1>2, <1>3 DEF Release
<1>27. CASE ReleaseReader(t)
  BY <1>27, <1>1, <1>2, <1>3 DEF ReleaseReader
<1>28. CASE SearchOld(t)
  BY <1>28, <1>1, <1>2, <1>3 DEF SearchOld
<1>29. CASE Search(t)
  BY <1>29, <1>1, <1>2, <1>3 DEF Search
<1>30. CASE Reload(t)
  BY <1>30, <1>1, <1>2, <1>3 DEF Reload, NotFound
<1>31. CASE ResizeLoad(t)
  BY <1>31, <1>1, <1>2, <1>3 DEF ResizeLoad, AfterResize, Reserves
<1>32. CASE ResizeTag(t)
  BY <1>32, <1>1, <1>2, <1>3 DEF ResizeTag, AfterResize, Reserves
<1>33. CASE DropLock(t)
  BY <1>33, <1>1, <1>2, <1>3 DEF DropLock
<1>34. CASE DropSwap(t)
  BY <1>34, <1>1, <1>2, <1>3 DEF DropSwap
<1>35. CASE DropKill(t)
  BY <1>35, <1>1, <1>2, <1>3 DEF DropKill, AfterResize, Reserves
<1>36. CASE ResizeAlloc(t)
  BY <1>36, <1>1, <1>2, <1>3 DEF ResizeAlloc, AfterResize, Allocate, Fresh,
     Reserves
<1>37. CASE ResizeKeep(t)
  BY <1>37, <1>1, <1>2, <1>3 DEF ResizeKeep, AfterResize, Reserves
<1>38. CASE End(t)
  BY <1>38, <1>1, <1>2, <1>3 DEF End, Return
<1>39. CASE AnyBucket(t)
  BY <1>39, <1>1, <1>2, <1>3 DEF AnyBucket, GoOn, Scanning
<1>40. CASE RetainBucket(t)
  BY <1>40, <1>1, <1>2, <1>3 DEF RetainBucket, GoOn, Scanning
<1>41. CASE PruneBucket(t)
  BY <1>41, <1>1, <1>2, <1>3 DEF PruneBucket, GoOn, Scanning
<1>42. CASE WalkBucket(t)
  BY <1>42, <1>1, <1>2, <1>3 DEF WalkBucket, GoOn, Scanning
<1>43. CASE WalkNext(t)
  BY <1>43, <1>1, <1>2, <1>3 DEF WalkNext, Restarts
<1>44. CASE ScanEnd(t)
  BY <1>44, <1>1, <1>2, <1>3 DEF ScanEnd
<1>45. CASE TryResize(t)
  BY <1>45, <1>1, <1>2, <1>3 DEF TryResize
<1>46. CASE IterStart(t)
  BY <1>46, <1>1, <1>2, <1>3 DEF IterStart, OldFirst
<1>47. CASE IterBucket(t)
  BY <1>47, <1>1, <1>2, <1>3 DEF IterBucket, GoOn
<1>48. CASE IterEnd(t)
  BY <1>48, <1>1, <1>2, <1>3 DEF IterEnd
<1>49. CASE IterSwitch(t)
  BY <1>49, <1>1, <1>2, <1>3 DEF IterSwitch, IterFrom, OldFirst
<1>50. CASE ScanReturn(t)
  BY <1>50, <1>1, <1>2, <1>3 DEF ScanReturn, Return
<1> QED BY <1>4, <1>5, <1>6, <1>7, <1>8, <1>9, <1>10, <1>11, <1>12, <1>13,
           <1>14, <1>15, <1>16, <1>17, <1>18, <1>19, <1>20, <1>21, <1>22,
           <1>23, <1>24, <1>25, <1>26, <1>27, <1>28, <1>29, <1>30, <1>31,
           <1>32, <1>33, <1>34, <1>35, <1>36, <1>37, <1>38, <1>39, <1>40,
           <1>41, <1>42, <1>43, <1>44, <1>45, <1>46, <1>47, <1>48, <1>49,
           <1>50
        DEF Step, TableStep, ScanStep

\* A step of t keeps what its array is to the table.
LEMMA ArrOwn ==
  ASSUME Structure, NEW t \in Threads, Step(t)
  PROVE  ArrShape(t)'
<1>1. /\ OpShape(t) /\ ArrShape(t) /\ ResizeShape(t) /\ PosShape(t)
      /\ arr[t] \in Pointers /\ oldArr[t] \in Pointers /\ rarr[t] \in Pointers
      /\ array \in Pointers /\ \A a \in Arrays : old[a] \in Pointers /\ a # Null
      /\ \A a \in Arrays : a \in Nat
  BY OwnFacts
<1>2. /\ pc \in [Threads -> PCs] /\ arr \in [Threads -> Pointers] 
      /\ oldArr \in [Threads -> Pointers] /\ rarr \in [Threads -> Pointers]
      /\ op \in [Threads -> Operations \cup {"none"}]
      /\ size \in [Arrays -> Sizes \cup {0}] /\ old \in [Arrays -> Pointers]
  BY DEF Structure, TypeInv
<1>3. ArraysInv
  BY DEF Structure
<1>4. SmallestSize # 0 /\ \A s \in Sizes : s # 0
  BY SmallestIsSize, SizeFacts
<1> USE DEF arrayVars, bucketVars, lockVars, callVars, moveVars, localVars,
          Goto, OpShape, KeyOps, ScanOps, ArrShape, ArraysInv, Pointers,
          Allocated, Loaded, Rehashing
<1>5. ASSUME NEW o \in Ops[type][t], NEW k \in Keys, Begin(t, o, k)
      PROVE  ArrShape(t)'
  BY <1>5, <1>1, <1>2, <1>3, <1>4 DEF Begin, Offered
<1>6. CASE Load(t)
  BY <1>6, <1>1, <1>2, <1>3, <1>4 DEF Load, Allocate, Fresh, NotFound,
     Reserves
<1>7. CASE LoadOld(t)
  BY <1>7, <1>1, <1>2, <1>3, <1>4 DEF LoadOld, Work, Reserves
<1>8. CASE Claim(t)
  BY <1>8, <1>1, <1>2, <1>3, <1>4 DEF Claim, Claimable
<1>9. CASE LockOld(t)
  BY <1>9, <1>1, <1>2, <1>3, <1>4 DEF LockOld, NextBucket, GiveUp
<1>10. ASSUME NEW k \in Keys, LockTarget(t, k)
      PROVE  ArrShape(t)'
  BY <1>10, <1>1, <1>2, <1>3, <1>4 DEF LockTarget, GiveUp
<1>11. ASSUME NEW k \in Keys, MoveEntry(t, k)
      PROVE  ArrShape(t)'
  BY <1>11, <1>1, <1>2, <1>3, <1>4 DEF MoveEntry
<1>12. CASE EraseOld(t)
  BY <1>12, <1>1, <1>2, <1>3, <1>4 DEF EraseOld
<1>13. CASE Emptied(t)
  BY <1>13, <1>1, <1>2, <1>3, <1>4 DEF Emptied
<1>14. CASE Kill(t)
  BY <1>14, <1>1, <1>2, <1>3, <1>4 DEF Kill, NextBucket
<1>15. CASE Success(t)
  BY <1>15, <1>1, <1>2, <1>3, <1>4 DEF Success
<1>16. CASE DropOld(t)
  BY <1>16, <1>1, <1>2, <1>3, <1>4 DEF DropOld
<1>17. CASE Fail(t)
  BY <1>17, <1>1, <1>2, <1>3, <1>4 DEF Fail
<1>18. CASE Check(t)
  BY <1>18, <1>1, <1>2, <1>3, <1>4 DEF Check, AfterRehash, Work
<1>19. CASE LockFails(t)
  BY <1>19, <1>1, <1>2, <1>3, <1>4 DEF LockFails, Lookup
<1>20. CASE InsertEntry(t)
  BY <1>20, <1>1, <1>2, <1>3, <1>4 DEF InsertEntry, Hold, Lockable
<1>21. CASE ReserveEntry(t)
  BY <1>21, <1>1, <1>2, <1>3, <1>4 DEF ReserveEntry, Hold, Lockable
<1>22. CASE RemoveEntry(t)
  BY <1>22, <1>1, <1>2, <1>3, <1>4 DEF RemoveEntry, Hold, Gone, Lockable
<1>23. CASE GetEntry(t)
  BY <1>23, <1>1, <1>2, <1>3, <1>4 DEF GetEntry, Hold, Lockable
<1>24. CASE ReadEntry(t)
  BY <1>24, <1>1, <1>2, <1>3, <1>4 DEF ReadEntry
<1>25. CASE VacantInsert(t)
  BY <1>25, <1>1, <1>2, <1>3, <1>4 DEF VacantInsert
<1>26. ASSUME NEW k \in Keys, OccupiedRemove(t, k)
      PROVE  ArrShape(t)'
  BY <1>26, <1>1, <1>2, <1>3, <1>4 DEF OccupiedRemove
<1>27. CASE Release(t)
  BY <1>27, <1>1, <1>2, <1>3, <1>4 DEF Release
<1>28. CASE ReleaseReader(t)
  BY <1>28, <1>1, <1>2, <1>3, <1>4 DEF ReleaseReader
<1>29. CASE SearchOld(t)
  BY <1>29, <1>1, <1>2, <1>3, <1>4 DEF SearchOld
<1>30. CASE Search(t)
  BY <1>30, <1>1, <1>2, <1>3, <1>4 DEF Search
<1>31. CASE Reload(t)
  BY <1>31, <1>1, <1>2, <1>3, <1>4 DEF Reload, NotFound
<1>32. CASE ResizeLoad(t)
  BY <1>32, <1>1, <1>2, <1>3, <1>4 DEF ResizeLoad, AfterResize, Reserves,
     ResizeShape, Resize
<1>33. CASE ResizeTag(t)
  BY <1>33, <1>1, <1>2, <1>3, <1>4 DEF ResizeTag, AfterResize, Reserves,
     ResizeShape, Resize
<1>34. CASE DropLock(t)
  BY <1>34, <1>1, <1>2, <1>3, <1>4 DEF DropLock
<1>35. CASE DropSwap(t)
  BY <1>35, <1>1, <1>2, <1>3, <1>4 DEF DropSwap
<1>36. CASE DropKill(t)
  BY <1>36, <1>1, <1>2, <1>3, <1>4 DEF DropKill, AfterResize, Reserves,
     ResizeShape, Resize
<1>37. CASE ResizeAlloc(t)
  BY <1>37, <1>1, <1>2, <1>3, <1>4 DEF ResizeAlloc, AfterResize, Allocate,
     Fresh, Reserves, ResizeShape, Resize
<1>38. CASE ResizeKeep(t)
  BY <1>38, <1>1, <1>2, <1>3, <1>4 DEF ResizeKeep, AfterResize, Reserves,
     ResizeShape, Resize
<1>39. CASE End(t)
  BY <1>39, <1>1, <1>2, <1>3, <1>4 DEF End, Return
<1>40. CASE AnyBucket(t)
  BY <1>40, <1>1, <1>2, <1>3, <1>4 DEF AnyBucket, GoOn, Scanning
<1>41. CASE RetainBucket(t)
  BY <1>41, <1>1, <1>2, <1>3, <1>4 DEF RetainBucket, GoOn, Scanning
<1>42. CASE PruneBucket(t)
  BY <1>42, <1>1, <1>2, <1>3, <1>4 DEF PruneBucket, GoOn, Scanning
<1>43. CASE WalkBucket(t)
  BY <1>43, <1>1, <1>2, <1>3, <1>4 DEF WalkBucket, GoOn, Scanning
<1>44. CASE WalkNext(t)
  BY <1>44, <1>1, <1>2, <1>3, <1>4 DEF WalkNext, Restarts
<1>45. CASE ScanEnd(t)
  BY <1>45, <1>1, <1>2, <1>3, <1>4 DEF ScanEnd
<1>46. CASE TryResize(t)
  BY <1>46, <1>1, <1>2, <1>3, <1>4 DEF TryResize
<1>47. CASE IterStart(t)
  BY <1>47, <1>1, <1>2, <1>3, <1>4 DEF IterStart, OldFirst
<1>48. CASE IterBucket(t)
  BY <1>48, <1>1, <1>2, <1>3, <1>4 DEF IterBucket, GoOn
<1>49. CASE IterEnd(t)
  BY <1>49, <1>1, <1>2, <1>3, <1>4 DEF IterEnd
<1>50. CASE IterSwitch(t)
  BY <1>50, <1>1, <1>2, <1>3, <1>4 DEF IterSwitch, IterFrom, OldFirst
<1>51. CASE ScanReturn(t)
  BY <1>51, <1>1, <1>2, <1>3, <1>4 DEF ScanReturn, Return
<1> QED BY <1>5, <1>6, <1>7, <1>8, <1>9, <1>10, <1>11, <1>12, <1>13, <1>14,
           <1>15, <1>16, <1>17, <1>18, <1>19, <1>20, <1>21, <1>22, <1>23,
           <1>24, <1>25, <1>26, <1>27, <1>28, <1>29, <1>30, <1>31, <1>32,
           <1>33, <1>34, <1>35, <1>36, <1>37, <1>38, <1>39, <1>40, <1>41,
           <1>42, <1>43, <1>44, <1>45, <1>46, <1>47, <1>48, <1>49, <1>50,
           <1>51
        DEF Step, TableStep, ScanStep

\* A step of t keeps what it knows of the array it resizes.
LEMMA ResizeOwn ==
  ASSUME Structure, NEW t \in Threads, Step(t)
  PROVE  ResizeShape(t)'
<1>1. /\ OpShape(t) /\ ArrShape(t) /\ ResizeShape(t) /\ PosShape(t)
      /\ arr[t] \in Pointers /\ oldArr[t] \in Pointers /\ rarr[t] \in Pointers
      /\ array \in Pointers /\ \A a \in Arrays : old[a] \in Pointers /\ a # Null
      /\ \A a \in Arrays : a \in Nat
  BY OwnFacts
<1>2. /\ pc \in [Threads -> PCs] /\ arr \in [Threads -> Pointers] 
      /\ oldArr \in [Threads -> Pointers] /\ rarr \in [Threads -> Pointers]
      /\ op \in [Threads -> Operations \cup {"none"}]
      /\ size \in [Arrays -> Sizes \cup {0}] /\ old \in [Arrays -> Pointers]
  BY DEF Structure, TypeInv
<1>3. ArraysInv
  BY DEF Structure
<1>4. SmallestSize # 0 /\ \A s \in Sizes : s # 0
  BY SmallestIsSize, SizeFacts
<1> USE DEF arrayVars, bucketVars, lockVars, callVars, moveVars, localVars,
          Goto, OpShape, KeyOps, ScanOps, Resize, Tagged, ResizeShape,
          Reserves, Rehashing
<1>5. ASSUME NEW o \in Ops[type][t], NEW k \in Keys, Begin(t, o, k)
      PROVE  ResizeShape(t)'
  BY <1>5, <1>1, <1>2, <1>3, <1>4 DEF Begin, Offered
<1>6. CASE Load(t)
  BY <1>6, <1>1, <1>2, <1>3, <1>4 DEF Load, Allocate, Fresh, NotFound
<1>7. CASE LoadOld(t)
  BY <1>7, <1>1, <1>2, <1>3, <1>4 DEF LoadOld, Work, ArrShape, Loaded
<1>8. CASE Claim(t)
  BY <1>8, <1>1, <1>2, <1>3, <1>4 DEF Claim, Claimable
<1>9. CASE LockOld(t)
  BY <1>9, <1>1, <1>2, <1>3, <1>4 DEF LockOld, NextBucket, GiveUp
<1>10. ASSUME NEW k \in Keys, LockTarget(t, k)
      PROVE  ResizeShape(t)'
  BY <1>10, <1>1, <1>2, <1>3, <1>4 DEF LockTarget, GiveUp
<1>11. ASSUME NEW k \in Keys, MoveEntry(t, k)
      PROVE  ResizeShape(t)'
  BY <1>11, <1>1, <1>2, <1>3, <1>4 DEF MoveEntry
<1>12. CASE EraseOld(t)
  BY <1>12, <1>1, <1>2, <1>3, <1>4 DEF EraseOld
<1>13. CASE Emptied(t)
  BY <1>13, <1>1, <1>2, <1>3, <1>4 DEF Emptied
<1>14. CASE Kill(t)
  BY <1>14, <1>1, <1>2, <1>3, <1>4 DEF Kill, NextBucket
<1>15. CASE Success(t)
  BY <1>15, <1>1, <1>2, <1>3, <1>4 DEF Success
<1>16. CASE DropOld(t)
  BY <1>16, <1>1, <1>2, <1>3, <1>4 DEF DropOld
<1>17. CASE Fail(t)
  BY <1>17, <1>1, <1>2, <1>3, <1>4 DEF Fail
<1>18. CASE Check(t)
  BY <1>18, <1>1, <1>2, <1>3, <1>4 DEF Check, AfterRehash, Work
<1>19. CASE LockFails(t)
  BY <1>19, <1>1, <1>2, <1>3, <1>4 DEF LockFails, Lookup
<1>20. CASE InsertEntry(t)
  BY <1>20, <1>1, <1>2, <1>3, <1>4 DEF InsertEntry, Hold, Lockable
<1>21. CASE ReserveEntry(t)
  BY <1>21, <1>1, <1>2, <1>3, <1>4 DEF ReserveEntry, Hold, Lockable
<1>22. CASE RemoveEntry(t)
  BY <1>22, <1>1, <1>2, <1>3, <1>4 DEF RemoveEntry, Hold, Gone, Lockable
<1>23. CASE GetEntry(t)
  BY <1>23, <1>1, <1>2, <1>3, <1>4 DEF GetEntry, Hold, Lockable
<1>24. CASE ReadEntry(t)
  BY <1>24, <1>1, <1>2, <1>3, <1>4 DEF ReadEntry
<1>25. CASE VacantInsert(t)
  BY <1>25, <1>1, <1>2, <1>3, <1>4 DEF VacantInsert
<1>26. ASSUME NEW k \in Keys, OccupiedRemove(t, k)
      PROVE  ResizeShape(t)'
  BY <1>26, <1>1, <1>2, <1>3, <1>4 DEF OccupiedRemove
<1>27. CASE Release(t)
  BY <1>27, <1>1, <1>2, <1>3, <1>4 DEF Release
<1>28. CASE ReleaseReader(t)
  BY <1>28, <1>1, <1>2, <1>3, <1>4 DEF ReleaseReader
<1>29. CASE SearchOld(t)
  BY <1>29, <1>1, <1>2, <1>3, <1>4 DEF SearchOld
<1>30. CASE Search(t)
  BY <1>30, <1>1, <1>2, <1>3, <1>4 DEF Search
<1>31. CASE Reload(t)
  BY <1>31, <1>1, <1>2, <1>3, <1>4 DEF Reload, NotFound
<1>32. CASE ResizeLoad(t)
  BY <1>32, <1>1, <1>2, <1>3, <1>4 DEF ResizeLoad, AfterResize, Resizable
<1>33. CASE ResizeTag(t)
  BY <1>33, <1>1, <1>2, <1>3, <1>4 DEF ResizeTag, AfterResize, ArrShape,
     ArraysInv, Pointers, Allocated
<1>34. CASE DropLock(t)
  BY <1>34, <1>1, <1>2, <1>3, <1>4 DEF DropLock
<1>35. CASE DropSwap(t)
  BY <1>35, <1>1, <1>2, <1>3, <1>4 DEF DropSwap, ArraysInv, ArrShape,
     Pointers, Allocated
<1>36. CASE DropKill(t)
  BY <1>36, <1>1, <1>2, <1>3, <1>4 DEF DropKill, AfterResize
<1>37. CASE ResizeAlloc(t)
  BY <1>37, <1>1, <1>2, <1>3, <1>4 DEF ResizeAlloc, AfterResize, Allocate,
     Fresh, ArraysInv, ArrShape, Pointers, Allocated
<1>38. CASE ResizeKeep(t)
  BY <1>38, <1>1, <1>2, <1>3, <1>4 DEF ResizeKeep, AfterResize
<1>39. CASE End(t)
  BY <1>39, <1>1, <1>2, <1>3, <1>4 DEF End, Return
<1>40. CASE AnyBucket(t)
  BY <1>40, <1>1, <1>2, <1>3, <1>4 DEF AnyBucket, GoOn, Scanning
<1>41. CASE RetainBucket(t)
  BY <1>41, <1>1, <1>2, <1>3, <1>4 DEF RetainBucket, GoOn, Scanning
<1>42. CASE PruneBucket(t)
  BY <1>42, <1>1, <1>2, <1>3, <1>4 DEF PruneBucket, GoOn, Scanning
<1>43. CASE WalkBucket(t)
  BY <1>43, <1>1, <1>2, <1>3, <1>4 DEF WalkBucket, GoOn, Scanning
<1>44. CASE WalkNext(t)
  BY <1>44, <1>1, <1>2, <1>3, <1>4 DEF WalkNext, Restarts
<1>45. CASE ScanEnd(t)
  BY <1>45, <1>1, <1>2, <1>3, <1>4 DEF ScanEnd
<1>46. CASE TryResize(t)
  BY <1>46, <1>1, <1>2, <1>3, <1>4 DEF TryResize
<1>47. CASE IterStart(t)
  BY <1>47, <1>1, <1>2, <1>3, <1>4 DEF IterStart, OldFirst
<1>48. CASE IterBucket(t)
  BY <1>48, <1>1, <1>2, <1>3, <1>4 DEF IterBucket, GoOn
<1>49. CASE IterEnd(t)
  BY <1>49, <1>1, <1>2, <1>3, <1>4 DEF IterEnd
<1>50. CASE IterSwitch(t)
  BY <1>50, <1>1, <1>2, <1>3, <1>4 DEF IterSwitch, IterFrom, OldFirst
<1>51. CASE ScanReturn(t)
  BY <1>51, <1>1, <1>2, <1>3, <1>4 DEF ScanReturn, Return
<1> QED BY <1>5, <1>6, <1>7, <1>8, <1>9, <1>10, <1>11, <1>12, <1>13, <1>14,
           <1>15, <1>16, <1>17, <1>18, <1>19, <1>20, <1>21, <1>22, <1>23,
           <1>24, <1>25, <1>26, <1>27, <1>28, <1>29, <1>30, <1>31, <1>32,
           <1>33, <1>34, <1>35, <1>36, <1>37, <1>38, <1>39, <1>40, <1>41,
           <1>42, <1>43, <1>44, <1>45, <1>46, <1>47, <1>48, <1>49, <1>50,
           <1>51
        DEF Step, TableStep, ScanStep

\* A step of t keeps its position within the array it works on.
LEMMA PosOwn ==
  ASSUME Structure, NEW t \in Threads, Step(t)
  PROVE  PosShape(t)'
<1>1. /\ OpShape(t) /\ ArrShape(t) /\ ResizeShape(t) /\ PosShape(t)
      /\ arr[t] \in Pointers /\ oldArr[t] \in Pointers /\ rarr[t] \in Pointers
      /\ array \in Pointers /\ \A a \in Arrays : old[a] \in Pointers /\ a # Null
      /\ range[t] \in Nat /\ pos[t] \in Nat /\ RangeLen \in Nat /\ RangeLen > 0
      /\ \A a \in Arrays : size[a] \in Nat /\ next[a] \in Nat
  BY OwnFacts
<1>2. /\ pc \in [Threads -> PCs] /\ arr \in [Threads -> Pointers] 
      /\ oldArr \in [Threads -> Pointers] /\ rarr \in [Threads -> Pointers]
      /\ op \in [Threads -> Operations \cup {"none"}]
      /\ size \in [Arrays -> Sizes \cup {0}] /\ old \in [Arrays -> Pointers]
      /\ range \in [Threads -> Nat] /\ pos \in [Threads -> Nat]
      /\ copied \in [Threads -> SUBSET Keys]
  BY DEF Structure, TypeInv
<1>3. TypeInv /\ ArraysInv
  BY DEF Structure
<1>4. SmallestSize # 0 /\ \A s \in Sizes : s # 0
  BY SmallestIsSize, SizeFacts
<1> USE DEF arrayVars, bucketVars, lockVars, callVars, moveVars, localVars,
          Goto, OpShape, KeyOps, ScanOps, Rehashing, AtBucket, AtStart,
          PosShape
<1>5. ASSUME NEW o \in Ops[type][t], NEW k \in Keys, Begin(t, o, k)
      PROVE  PosShape(t)'
  BY <1>5, <1>1, <1>2, <1>3, <1>4 DEF Begin, Offered
<1>6. CASE Load(t)
  BY <1>6, <1>1, <1>2, <1>3, <1>4 DEF Load, Allocate, Fresh, NotFound,
     Reserves
<1>7. CASE LoadOld(t)
  BY <1>7, <1>1, <1>2, <1>3, <1>4 DEF LoadOld, Work, Reserves
<1>8. CASE Claim(t)
  <2>1. oldArr[t] \in Arrays
    BY <1>1, <1>8 DEF ArrShape, Claim, Pointers
  <2>2. /\ next[oldArr[t]] \in Nat /\ size[oldArr[t]] \in Nat
        /\ next[oldArr[t]] < Ranges(oldArr[t]) => next[oldArr[t]] * RangeLen < size[oldArr[t]]
    BY <1>1, <1>3, <2>1, RangesCover
  <2>3. \A n \in Nat : (n + 1 - 1) * RangeLen = n * RangeLen /\ n * RangeLen < (n + 1) * RangeLen
    BY <1>1
  <2> QED BY <1>8, <1>1, <1>2, <2>1, <2>2, <2>3 DEF Claim, Claimable
<1>9. CASE LockOld(t)
  BY <1>9, <1>1, <1>2, <1>3, <1>4 DEF LockOld, NextBucket, GiveUp, Index
<1>10. ASSUME NEW k \in Keys, LockTarget(t, k)
      PROVE  PosShape(t)'
  BY <1>10, <1>1, <1>2, <1>3, <1>4 DEF LockTarget, GiveUp, Index
<1>11. ASSUME NEW k \in Keys, MoveEntry(t, k)
      PROVE  PosShape(t)'
  BY <1>11, <1>1, <1>2, <1>3, <1>4 DEF MoveEntry, Index
<1>12. CASE EraseOld(t)
  BY <1>12, <1>1, <1>2, <1>3, <1>4 DEF EraseOld, Index
<1>13. CASE Emptied(t)
  BY <1>13, <1>1, <1>2, <1>3, <1>4 DEF Emptied, Index
<1>14. CASE Kill(t)
  BY <1>14, <1>1, <1>2, <1>3, <1>4 DEF Kill, NextBucket
<1>15. CASE Success(t)
  BY <1>15, <1>1, <1>2, <1>3, <1>4 DEF Success
<1>16. CASE DropOld(t)
  BY <1>16, <1>1, <1>2, <1>3, <1>4 DEF DropOld
<1>17. CASE Fail(t)
  BY <1>17, <1>1, <1>2, <1>3, <1>4 DEF Fail
<1>18. CASE Check(t)
  <2>1. oldArr[t] \in Arrays /\ Allocated(oldArr[t])
    BY <1>1, <1>18 DEF ArrShape, Check, Pointers
  <2>2. key[t] \in Keys => Index(oldArr[t], key[t]) \in Nat /\ Index(oldArr[t], key[t]) < size[oldArr[t]]
    BY <1>3, <2>1, IndexBound
  <2>3. range[t] = 0
    BY <1>1, <1>18 DEF Check
  <2>4. size' = size /\ key' = key /\ oldArr' = oldArr
    BY <1>18 DEF Check
  <2> QED BY <1>18, <1>1, <1>2, <2>1, <2>2, <2>3, <2>4 DEF Check, AfterRehash, Work, Index
<1>19. CASE LockFails(t)
  BY <1>19, <1>1, <1>2, <1>3, <1>4 DEF LockFails, Lookup
<1>20. CASE InsertEntry(t)
  BY <1>20, <1>1, <1>2, <1>3, <1>4 DEF InsertEntry, Hold, Lockable
<1>21. CASE ReserveEntry(t)
  BY <1>21, <1>1, <1>2, <1>3, <1>4 DEF ReserveEntry, Hold, Lockable
<1>22. CASE RemoveEntry(t)
  BY <1>22, <1>1, <1>2, <1>3, <1>4 DEF RemoveEntry, Hold, Gone, Lockable
<1>23. CASE GetEntry(t)
  BY <1>23, <1>1, <1>2, <1>3, <1>4 DEF GetEntry, Hold, Lockable
<1>24. CASE ReadEntry(t)
  BY <1>24, <1>1, <1>2, <1>3, <1>4 DEF ReadEntry
<1>25. CASE VacantInsert(t)
  BY <1>25, <1>1, <1>2, <1>3, <1>4 DEF VacantInsert
<1>26. ASSUME NEW k \in Keys, OccupiedRemove(t, k)
      PROVE  PosShape(t)'
  BY <1>26, <1>1, <1>2, <1>3, <1>4 DEF OccupiedRemove
<1>27. CASE Release(t)
  BY <1>27, <1>1, <1>2, <1>3, <1>4 DEF Release
<1>28. CASE ReleaseReader(t)
  BY <1>28, <1>1, <1>2, <1>3, <1>4 DEF ReleaseReader
<1>29. CASE SearchOld(t)
  BY <1>29, <1>1, <1>2, <1>3, <1>4 DEF SearchOld
<1>30. CASE Search(t)
  BY <1>30, <1>1, <1>2, <1>3, <1>4 DEF Search
<1>31. CASE Reload(t)
  BY <1>31, <1>1, <1>2, <1>3, <1>4 DEF Reload, NotFound
<1>32. CASE ResizeLoad(t)
  BY <1>32, <1>1, <1>2, <1>3, <1>4 DEF ResizeLoad, AfterResize, Reserves
<1>33. CASE ResizeTag(t)
  BY <1>33, <1>1, <1>2, <1>3, <1>4 DEF ResizeTag, AfterResize, Reserves,
     ResizeShape, ArrShape, Pointers, Allocated, Resize, Tagged
<1>34. CASE DropLock(t)
  BY <1>34, <1>1, <1>2, <1>3, <1>4 DEF DropLock, ResizeShape, ArrShape,
     Pointers, Allocated, Resize, Tagged
<1>35. CASE DropSwap(t)
  BY <1>35, <1>1, <1>2, <1>3, <1>4 DEF DropSwap, ResizeShape, ArrShape,
     Pointers, Allocated, Resize, Tagged
<1>36. CASE DropKill(t)
  BY <1>36, <1>1, <1>2, <1>3, <1>4 DEF DropKill, AfterResize, Reserves,
     ResizeShape, ArrShape, Pointers, Allocated, Resize, Tagged
<1>37. CASE ResizeAlloc(t)
  BY <1>37, <1>1, <1>2, <1>3, <1>4 DEF ResizeAlloc, AfterResize, Allocate,
     Fresh, Reserves
<1>38. CASE ResizeKeep(t)
  BY <1>38, <1>1, <1>2, <1>3, <1>4 DEF ResizeKeep, AfterResize, Reserves
<1>39. CASE End(t)
  BY <1>39, <1>1, <1>2, <1>3, <1>4 DEF End, Return
<1>40. CASE AnyBucket(t)
  BY <1>40, <1>1, <1>2, <1>3, <1>4 DEF AnyBucket, GoOn, Scanning
<1>41. CASE RetainBucket(t)
  BY <1>41, <1>1, <1>2, <1>3, <1>4 DEF RetainBucket, GoOn, Scanning
<1>42. CASE PruneBucket(t)
  BY <1>42, <1>1, <1>2, <1>3, <1>4 DEF PruneBucket, GoOn, Scanning
<1>43. CASE WalkBucket(t)
  BY <1>43, <1>1, <1>2, <1>3, <1>4 DEF WalkBucket, GoOn, Scanning
<1>44. CASE WalkNext(t)
  BY <1>44, <1>1, <1>2, <1>3, <1>4 DEF WalkNext, Restarts
<1>45. CASE ScanEnd(t)
  BY <1>45, <1>1, <1>2, <1>3, <1>4 DEF ScanEnd
<1>46. CASE TryResize(t)
  BY <1>46, <1>1, <1>2, <1>3, <1>4 DEF TryResize
<1>47. CASE IterStart(t)
  BY <1>47, <1>1, <1>2, <1>3, <1>4 DEF IterStart, OldFirst
<1>48. CASE IterBucket(t)
  BY <1>48, <1>1, <1>2, <1>3, <1>4 DEF IterBucket, GoOn
<1>49. CASE IterEnd(t)
  BY <1>49, <1>1, <1>2, <1>3, <1>4 DEF IterEnd
<1>50. CASE IterSwitch(t)
  BY <1>50, <1>1, <1>2, <1>3, <1>4 DEF IterSwitch, IterFrom, OldFirst
<1>51. CASE ScanReturn(t)
  BY <1>51, <1>1, <1>2, <1>3, <1>4 DEF ScanReturn, Return
<1> QED BY <1>5, <1>6, <1>7, <1>8, <1>9, <1>10, <1>11, <1>12, <1>13, <1>14,
           <1>15, <1>16, <1>17, <1>18, <1>19, <1>20, <1>21, <1>22, <1>23,
           <1>24, <1>25, <1>26, <1>27, <1>28, <1>29, <1>30, <1>31, <1>32,
           <1>33, <1>34, <1>35, <1>36, <1>37, <1>38, <1>39, <1>40, <1>41,
           <1>42, <1>43, <1>44, <1>45, <1>46, <1>47, <1>48, <1>49, <1>50,
           <1>51
        DEF Step, TableStep, ScanStep

TypeTable ==
  /\ type \in Types
  /\ array \in Pointers
  /\ size \in [Arrays -> Sizes \cup {0}] /\ old \in [Arrays -> Pointers]
  /\ next \in [Arrays -> Nat] /\ refs \in [Arrays -> Int]

TypeBuckets ==
  /\ entries \in [Buckets -> SUBSET Keys] /\ killed \in SUBSET Buckets
  /\ held \in [Threads -> SUBSET Buckets] /\ shared \in [Threads -> SUBSET Buckets]

TypeCalls ==
  /\ op \in [Threads -> Operations \cup {"none"}] /\ pc \in [Threads -> PCs]
  /\ key \in [Threads -> Keys \cup {Null}]
  /\ due \in [Threads -> SUBSET Keys]

TypeLocals ==
  /\ arr \in [Threads -> Pointers] /\ oldArr \in [Threads -> Pointers]
  /\ rarr \in [Threads -> Pointers]
  /\ range \in [Threads -> Nat] /\ pos \in [Threads -> Nat]
  /\ copied \in [Threads -> SUBSET Keys]

TypeTags == tag \in BOOLEAN /\ seenTag \in [Threads -> BOOLEAN]

\* Types of the arrays.
LEMMA TypeTableOwn ==
  ASSUME Structure, NEW t \in Threads, Step(t)
  PROVE  TypeTable'
<1>1. /\ OpShape(t) /\ ArrShape(t) /\ ResizeShape(t) /\ PosShape(t)
      /\ arr[t] \in Pointers /\ oldArr[t] \in Pointers /\ rarr[t] \in Pointers
      /\ array \in Pointers /\ \A a \in Arrays : old[a] \in Pointers /\ a # Null
      /\ range[t] \in Nat /\ pos[t] \in Nat /\ RangeLen \in Nat /\ RangeLen > 0
      /\ \A a \in Arrays : size[a] \in Nat /\ next[a] \in Nat
  BY OwnFacts
<1>2. TypeTable
  BY DEF Structure, TypeInv, TypeTable
<1>3. SmallestSize \in Sizes
  BY SmallestIsSize
<1> USE DEF arrayVars, bucketVars, lockVars, callVars, moveVars, localVars,
          Goto, TypeTable, Pointers
<1>4. ASSUME NEW o \in Ops[type][t], NEW k \in Keys, Begin(t, o, k)
      PROVE  TypeTable'
  BY <1>4, <1>1, <1>2, <1>3 DEF Begin, Offered
<1>5. CASE Load(t)
  BY <1>5, <1>1, <1>2, <1>3 DEF Load, Allocate, Fresh, NotFound, Reserves
<1>6. CASE LoadOld(t)
  BY <1>6, <1>1, <1>2, <1>3 DEF LoadOld, Work, Reserves
<1>7. CASE Claim(t)
  BY <1>7, <1>1, <1>2, <1>3 DEF Claim, Claimable, ArrShape, Rehashing
<1>8. CASE LockOld(t)
  BY <1>8, <1>1, <1>2, <1>3 DEF LockOld, NextBucket, GiveUp
<1>9. ASSUME NEW k \in Keys, LockTarget(t, k)
      PROVE  TypeTable'
  BY <1>9, <1>1, <1>2, <1>3 DEF LockTarget, GiveUp
<1>10. ASSUME NEW k \in Keys, MoveEntry(t, k)
      PROVE  TypeTable'
  BY <1>10, <1>1, <1>2, <1>3 DEF MoveEntry
<1>11. CASE EraseOld(t)
  BY <1>11, <1>1, <1>2, <1>3 DEF EraseOld
<1>12. CASE Emptied(t)
  BY <1>12, <1>1, <1>2, <1>3 DEF Emptied
<1>13. CASE Kill(t)
  BY <1>13, <1>1, <1>2, <1>3 DEF Kill, NextBucket
<1>14. CASE Success(t)
  BY <1>14, <1>1, <1>2, <1>3 DEF Success, ArrShape, Rehashing
<1>15. CASE DropOld(t)
  BY <1>15, <1>1, <1>2, <1>3 DEF DropOld, ArrShape, Rehashing
<1>16. CASE Fail(t)
  BY <1>16, <1>1, <1>2, <1>3 DEF Fail, PosShape, Reverted, ArrShape,
     Rehashing
<1>17. CASE Check(t)
  BY <1>17, <1>1, <1>2, <1>3 DEF Check, AfterRehash, Work
<1>18. CASE LockFails(t)
  BY <1>18, <1>1, <1>2, <1>3 DEF LockFails, Lookup
<1>19. CASE InsertEntry(t)
  BY <1>19, <1>1, <1>2, <1>3 DEF InsertEntry, Hold, Lockable
<1>20. CASE ReserveEntry(t)
  BY <1>20, <1>1, <1>2, <1>3 DEF ReserveEntry, Hold, Lockable
<1>21. CASE RemoveEntry(t)
  BY <1>21, <1>1, <1>2, <1>3 DEF RemoveEntry, Hold, Gone, Lockable
<1>22. CASE GetEntry(t)
  BY <1>22, <1>1, <1>2, <1>3 DEF GetEntry, Hold, Lockable
<1>23. CASE ReadEntry(t)
  BY <1>23, <1>1, <1>2, <1>3 DEF ReadEntry
<1>24. CASE VacantInsert(t)
  BY <1>24, <1>1, <1>2, <1>3 DEF VacantInsert
<1>25. ASSUME NEW k \in Keys, OccupiedRemove(t, k)
      PROVE  TypeTable'
  BY <1>25, <1>1, <1>2, <1>3 DEF OccupiedRemove
<1>26. CASE Release(t)
  BY <1>26, <1>1, <1>2, <1>3 DEF Release
<1>27. CASE ReleaseReader(t)
  BY <1>27, <1>1, <1>2, <1>3 DEF ReleaseReader
<1>28. CASE SearchOld(t)
  BY <1>28, <1>1, <1>2, <1>3 DEF SearchOld
<1>29. CASE Search(t)
  BY <1>29, <1>1, <1>2, <1>3 DEF Search
<1>30. CASE Reload(t)
  BY <1>30, <1>1, <1>2, <1>3 DEF Reload, NotFound
<1>31. CASE ResizeLoad(t)
  BY <1>31, <1>1, <1>2, <1>3 DEF ResizeLoad, AfterResize, Reserves
<1>32. CASE ResizeTag(t)
  BY <1>32, <1>1, <1>2, <1>3 DEF ResizeTag, AfterResize, Reserves
<1>33. CASE DropLock(t)
  BY <1>33, <1>1, <1>2, <1>3 DEF DropLock
<1>34. CASE DropSwap(t)
  BY <1>34, <1>1, <1>2, <1>3 DEF DropSwap
<1>35. CASE DropKill(t)
  BY <1>35, <1>1, <1>2, <1>3 DEF DropKill, AfterResize, Reserves
<1>36. CASE ResizeAlloc(t)
  BY <1>36, <1>1, <1>2, <1>3 DEF ResizeAlloc, AfterResize, Allocate, Fresh,
     Reserves
<1>37. CASE ResizeKeep(t)
  BY <1>37, <1>1, <1>2, <1>3 DEF ResizeKeep, AfterResize, Reserves
<1>38. CASE End(t)
  BY <1>38, <1>1, <1>2, <1>3 DEF End, Return
<1>39. CASE AnyBucket(t)
  BY <1>39, <1>1, <1>2, <1>3 DEF AnyBucket, GoOn, Scanning
<1>40. CASE RetainBucket(t)
  BY <1>40, <1>1, <1>2, <1>3 DEF RetainBucket, GoOn, Scanning
<1>41. CASE PruneBucket(t)
  BY <1>41, <1>1, <1>2, <1>3 DEF PruneBucket, GoOn, Scanning
<1>42. CASE WalkBucket(t)
  BY <1>42, <1>1, <1>2, <1>3 DEF WalkBucket, GoOn, Scanning
<1>43. CASE WalkNext(t)
  BY <1>43, <1>1, <1>2, <1>3 DEF WalkNext, Restarts
<1>44. CASE ScanEnd(t)
  BY <1>44, <1>1, <1>2, <1>3 DEF ScanEnd
<1>45. CASE TryResize(t)
  BY <1>45, <1>1, <1>2, <1>3 DEF TryResize
<1>46. CASE IterStart(t)
  BY <1>46, <1>1, <1>2, <1>3 DEF IterStart, OldFirst
<1>47. CASE IterBucket(t)
  BY <1>47, <1>1, <1>2, <1>3 DEF IterBucket, GoOn
<1>48. CASE IterEnd(t)
  BY <1>48, <1>1, <1>2, <1>3 DEF IterEnd
<1>49. CASE IterSwitch(t)
  BY <1>49, <1>1, <1>2, <1>3 DEF IterSwitch, IterFrom, OldFirst
<1>50. CASE ScanReturn(t)
  BY <1>50, <1>1, <1>2, <1>3 DEF ScanReturn, Return
<1> QED BY <1>4, <1>5, <1>6, <1>7, <1>8, <1>9, <1>10, <1>11, <1>12, <1>13,
           <1>14, <1>15, <1>16, <1>17, <1>18, <1>19, <1>20, <1>21, <1>22,
           <1>23, <1>24, <1>25, <1>26, <1>27, <1>28, <1>29, <1>30, <1>31,
           <1>32, <1>33, <1>34, <1>35, <1>36, <1>37, <1>38, <1>39, <1>40,
           <1>41, <1>42, <1>43, <1>44, <1>45, <1>46, <1>47, <1>48, <1>49,
           <1>50
        DEF Step, TableStep, ScanStep

\* Types of the buckets.
LEMMA TypeBucketsOwn ==
  ASSUME Structure, NEW t \in Threads, Step(t)
  PROVE  TypeBuckets'
<1>1. /\ OpShape(t) /\ ArrShape(t) /\ ResizeShape(t) /\ PosShape(t)
      /\ arr[t] \in Pointers /\ oldArr[t] \in Pointers /\ rarr[t] \in Pointers
      /\ array \in Pointers /\ \A a \in Arrays : old[a] \in Pointers /\ a # Null
      /\ range[t] \in Nat /\ pos[t] \in Nat /\ RangeLen \in Nat /\ RangeLen > 0
      /\ \A a \in Arrays : size[a] \in Nat /\ next[a] \in Nat
  BY OwnFacts
<1>2. TypeBuckets /\ TypeInv
  BY DEF Structure, TypeInv, TypeBuckets
<1>3. \A a \in Arrays, i \in Nat : i < size[a] => <<a, i>> \in Buckets
  BY BucketsFacts DEF Structure
<1>4. \A a \in Arrays, k \in Keys : Allocated(a) => BucketOf(a, k) \in Buckets
  BY IndexBound DEF Structure
<1> USE DEF arrayVars, bucketVars, lockVars, callVars, moveVars, localVars,
          Goto, TypeBuckets, From, At, Home, Pointers, ArrShape, OpShape,
          KeyOps, Rehashing, Loaded, AtBucket
<1>5. ASSUME NEW o \in Ops[type][t], NEW k \in Keys, Begin(t, o, k)
      PROVE  TypeBuckets'
  BY <1>5, <1>1, <1>2, <1>3, <1>4 DEF Begin, Offered
<1>6. CASE Load(t)
  BY <1>6, <1>1, <1>2, <1>3, <1>4 DEF Load, Allocate, Fresh, NotFound,
     Reserves
<1>7. CASE LoadOld(t)
  BY <1>7, <1>1, <1>2, <1>3, <1>4 DEF LoadOld, Work, Reserves
<1>8. CASE Claim(t)
  BY <1>8, <1>1, <1>2, <1>3, <1>4 DEF Claim, Claimable
<1>9. CASE LockOld(t)
  BY <1>9, <1>1, <1>2, <1>3, <1>4 DEF LockOld, NextBucket, GiveUp, PosShape
<1>10. ASSUME NEW k \in Keys, LockTarget(t, k)
      PROVE  TypeBuckets'
  <2>1. arr[t] \in Arrays /\ Allocated(arr[t])
    BY <1>1, <1>10 DEF LockTarget
  <2>2. Index(arr[t], k) \in Nat /\ Index(arr[t], k) < size[arr[t]] /\ size[arr[t]] \in Nat
    BY <1>2, <2>1, IndexBound, BucketsFacts
  <2>3. size[oldArr[t]] \in Nat /\ size[oldArr[t]] > 0
    BY <1>1, <1>10 DEF LockTarget, Allocated
  <2>4. (pos[t] * size[arr[t]]) \div size[oldArr[t]] \in Nat
    BY <1>1, <2>2, <2>3, Division
  <2>5. \A b \in Targets(t, k) : b \in Buckets
    BY <1>3, <2>1, <2>2, <2>4 DEF Targets
  <2> QED BY <1>10, <1>2, <2>5 DEF LockTarget, GiveUp
<1>11. ASSUME NEW k \in Keys, MoveEntry(t, k)
      PROVE  TypeBuckets'
  BY <1>11, <1>1, <1>2, <1>3, <1>4 DEF MoveEntry
<1>12. CASE EraseOld(t)
  BY <1>12, <1>1, <1>2, <1>3, <1>4 DEF EraseOld
<1>13. CASE Emptied(t)
  BY <1>13, <1>1, <1>2, <1>3, <1>4 DEF Emptied, PosShape
<1>14. CASE Kill(t)
  BY <1>14, <1>1, <1>2, <1>3, <1>4 DEF Kill, NextBucket, PosShape
<1>15. CASE Success(t)
  BY <1>15, <1>1, <1>2, <1>3, <1>4 DEF Success
<1>16. CASE DropOld(t)
  BY <1>16, <1>1, <1>2, <1>3, <1>4 DEF DropOld
<1>17. CASE Fail(t)
  BY <1>17, <1>1, <1>2, <1>3, <1>4 DEF Fail
<1>18. CASE Check(t)
  BY <1>18, <1>1, <1>2, <1>3, <1>4 DEF Check, AfterRehash, Work
<1>19. CASE LockFails(t)
  BY <1>19, <1>1, <1>2, <1>3, <1>4 DEF LockFails, Lookup
<1>20. CASE InsertEntry(t)
  BY <1>20, <1>1, <1>2, <1>3, <1>4 DEF InsertEntry, Hold, Lockable
<1>21. CASE ReserveEntry(t)
  BY <1>21, <1>1, <1>2, <1>3, <1>4 DEF ReserveEntry, Hold, Lockable
<1>22. CASE RemoveEntry(t)
  BY <1>22, <1>1, <1>2, <1>3, <1>4 DEF RemoveEntry, Hold, Gone, Lockable
<1>23. CASE GetEntry(t)
  BY <1>23, <1>1, <1>2, <1>3, <1>4 DEF GetEntry, Hold, Lockable
<1>24. CASE ReadEntry(t)
  BY <1>24, <1>1, <1>2, <1>3, <1>4 DEF ReadEntry
<1>25. CASE VacantInsert(t)
  BY <1>25, <1>1, <1>2, <1>3, <1>4 DEF VacantInsert
<1>26. ASSUME NEW k \in Keys, OccupiedRemove(t, k)
      PROVE  TypeBuckets'
  BY <1>26, <1>1, <1>2, <1>3, <1>4 DEF OccupiedRemove
<1>27. CASE Release(t)
  BY <1>27, <1>1, <1>2, <1>3, <1>4 DEF Release
<1>28. CASE ReleaseReader(t)
  BY <1>28, <1>1, <1>2, <1>3, <1>4 DEF ReleaseReader
<1>29. CASE SearchOld(t)
  BY <1>29, <1>1, <1>2, <1>3, <1>4 DEF SearchOld
<1>30. CASE Search(t)
  BY <1>30, <1>1, <1>2, <1>3, <1>4 DEF Search
<1>31. CASE Reload(t)
  BY <1>31, <1>1, <1>2, <1>3, <1>4 DEF Reload, NotFound
<1>32. CASE ResizeLoad(t)
  BY <1>32, <1>1, <1>2, <1>3, <1>4 DEF ResizeLoad, AfterResize, Reserves
<1>33. CASE ResizeTag(t)
  BY <1>33, <1>1, <1>2, <1>3, <1>4 DEF ResizeTag, AfterResize, Reserves
<1>34. CASE DropLock(t)
  BY <1>34, <1>1, <1>2, <1>3, <1>4 DEF DropLock, ResizeShape, PosShape,
     Resize, Tagged
<1>35. CASE DropSwap(t)
  BY <1>35, <1>1, <1>2, <1>3, <1>4 DEF DropSwap
<1>36. CASE DropKill(t)
  BY <1>36, <1>1, <1>2, <1>3, <1>4 DEF DropKill, AfterResize, Reserves,
     ResizeShape, PosShape, Resize, Tagged
<1>37. CASE ResizeAlloc(t)
  BY <1>37, <1>1, <1>2, <1>3, <1>4 DEF ResizeAlloc, AfterResize, Allocate,
     Fresh, Reserves
<1>38. CASE ResizeKeep(t)
  BY <1>38, <1>1, <1>2, <1>3, <1>4 DEF ResizeKeep, AfterResize, Reserves
<1>39. CASE End(t)
  BY <1>39, <1>1, <1>2, <1>3, <1>4 DEF End, Return
<1>40. CASE AnyBucket(t)
  BY <1>40, <1>1, <1>2, <1>3, <1>4 DEF AnyBucket, GoOn, Scanning
<1>41. CASE RetainBucket(t)
  BY <1>41, <1>1, <1>2, <1>3, <1>4 DEF RetainBucket, GoOn, Scanning
<1>42. CASE PruneBucket(t)
  BY <1>42, <1>1, <1>2, <1>3, <1>4 DEF PruneBucket, GoOn, Scanning
<1>43. CASE WalkBucket(t)
  BY <1>43, <1>1, <1>2, <1>3, <1>4 DEF WalkBucket, GoOn, Scanning
<1>44. CASE WalkNext(t)
  BY <1>44, <1>1, <1>2, <1>3, <1>4 DEF WalkNext, Restarts
<1>45. CASE ScanEnd(t)
  BY <1>45, <1>1, <1>2, <1>3, <1>4 DEF ScanEnd
<1>46. CASE TryResize(t)
  BY <1>46, <1>1, <1>2, <1>3, <1>4 DEF TryResize
<1>47. CASE IterStart(t)
  BY <1>47, <1>1, <1>2, <1>3, <1>4 DEF IterStart, OldFirst
<1>48. CASE IterBucket(t)
  BY <1>48, <1>1, <1>2, <1>3, <1>4 DEF IterBucket, GoOn
<1>49. CASE IterEnd(t)
  BY <1>49, <1>1, <1>2, <1>3, <1>4 DEF IterEnd
<1>50. CASE IterSwitch(t)
  BY <1>50, <1>1, <1>2, <1>3, <1>4 DEF IterSwitch, IterFrom, OldFirst
<1>51. CASE ScanReturn(t)
  BY <1>51, <1>1, <1>2, <1>3, <1>4 DEF ScanReturn, Return
<1> QED BY <1>5, <1>6, <1>7, <1>8, <1>9, <1>10, <1>11, <1>12, <1>13, <1>14,
           <1>15, <1>16, <1>17, <1>18, <1>19, <1>20, <1>21, <1>22, <1>23,
           <1>24, <1>25, <1>26, <1>27, <1>28, <1>29, <1>30, <1>31, <1>32,
           <1>33, <1>34, <1>35, <1>36, <1>37, <1>38, <1>39, <1>40, <1>41,
           <1>42, <1>43, <1>44, <1>45, <1>46, <1>47, <1>48, <1>49, <1>50,
           <1>51
        DEF Step, TableStep, ScanStep

\* Types of the calls.
LEMMA TypeCallsOwn ==
  ASSUME Structure, NEW t \in Threads, Step(t)
  PROVE  TypeCalls'
<1>1. TypeCalls
  BY DEF Structure, TypeInv, TypeCalls
<1>2. \A o \in Ops[type][t] : o \in Operations
  BY TableAssumption DEF Structure, TypeInv
<1>3. \A k \in Contents : k \in Keys
  <2>1. \A a \in Reachable : a \in Arrays
    BY DEF Reachable, Structure, TypeInv, ArraysInv, Allocated, Pointers
  <2>2. \A a \in Arrays : \A b \in BucketsOf(a) : entries[b] \in SUBSET Keys
    BY BucketsFacts DEF Structure, TypeInv
  <2> QED BY <2>1, <2>2 DEF Contents
<1> USE DEF arrayVars, bucketVars, lockVars, callVars, moveVars, localVars,
          Goto, TypeCalls, PCs, Loaded, Rehashing, Resize, Operations,
          KeyOps, ScanOps
<1>4. ASSUME NEW o \in Ops[type][t], NEW k \in Keys, Begin(t, o, k)
      PROVE  TypeCalls'
  BY <1>4, <1>1, <1>2, <1>3 DEF Begin, Offered
<1>5. CASE Load(t)
  BY <1>5, <1>1, <1>2, <1>3 DEF Load, Allocate, Fresh, NotFound, Reserves
<1>6. CASE LoadOld(t)
  BY <1>6, <1>1, <1>2, <1>3 DEF LoadOld, Work, Reserves
<1>7. CASE Claim(t)
  BY <1>7, <1>1, <1>2, <1>3 DEF Claim, Claimable
<1>8. CASE LockOld(t)
  BY <1>8, <1>1, <1>2, <1>3 DEF LockOld, NextBucket, GiveUp
<1>9. ASSUME NEW k \in Keys, LockTarget(t, k)
      PROVE  TypeCalls'
  BY <1>9, <1>1, <1>2, <1>3 DEF LockTarget, GiveUp
<1>10. ASSUME NEW k \in Keys, MoveEntry(t, k)
      PROVE  TypeCalls'
  BY <1>10, <1>1, <1>2, <1>3 DEF MoveEntry
<1>11. CASE EraseOld(t)
  BY <1>11, <1>1, <1>2, <1>3 DEF EraseOld
<1>12. CASE Emptied(t)
  BY <1>12, <1>1, <1>2, <1>3 DEF Emptied
<1>13. CASE Kill(t)
  BY <1>13, <1>1, <1>2, <1>3 DEF Kill, NextBucket
<1>14. CASE Success(t)
  BY <1>14, <1>1, <1>2, <1>3 DEF Success
<1>15. CASE DropOld(t)
  BY <1>15, <1>1, <1>2, <1>3 DEF DropOld
<1>16. CASE Fail(t)
  BY <1>16, <1>1, <1>2, <1>3 DEF Fail
<1>17. CASE Check(t)
  BY <1>17, <1>1, <1>2, <1>3 DEF Check, AfterRehash, Work
<1>18. CASE LockFails(t)
  BY <1>18, <1>1, <1>2, <1>3 DEF LockFails, Lookup
<1>19. CASE InsertEntry(t)
  BY <1>19, <1>1, <1>2, <1>3 DEF InsertEntry, Hold, Lockable
<1>20. CASE ReserveEntry(t)
  BY <1>20, <1>1, <1>2, <1>3 DEF ReserveEntry, Hold, Lockable
<1>21. CASE RemoveEntry(t)
  BY <1>21, <1>1, <1>2, <1>3 DEF RemoveEntry, Hold, Gone, Lockable
<1>22. CASE GetEntry(t)
  BY <1>22, <1>1, <1>2, <1>3 DEF GetEntry, Hold, Lockable
<1>23. CASE ReadEntry(t)
  BY <1>23, <1>1, <1>2, <1>3 DEF ReadEntry
<1>24. CASE VacantInsert(t)
  BY <1>24, <1>1, <1>2, <1>3 DEF VacantInsert
<1>25. ASSUME NEW k \in Keys, OccupiedRemove(t, k)
      PROVE  TypeCalls'
  BY <1>25, <1>1, <1>2, <1>3 DEF OccupiedRemove
<1>26. CASE Release(t)
  BY <1>26, <1>1, <1>2, <1>3 DEF Release
<1>27. CASE ReleaseReader(t)
  BY <1>27, <1>1, <1>2, <1>3 DEF ReleaseReader
<1>28. CASE SearchOld(t)
  BY <1>28, <1>1, <1>2, <1>3 DEF SearchOld
<1>29. CASE Search(t)
  BY <1>29, <1>1, <1>2, <1>3 DEF Search
<1>30. CASE Reload(t)
  BY <1>30, <1>1, <1>2, <1>3 DEF Reload, NotFound
<1>31. CASE ResizeLoad(t)
  BY <1>31, <1>1, <1>2, <1>3 DEF ResizeLoad, AfterResize, Reserves
<1>32. CASE ResizeTag(t)
  BY <1>32, <1>1, <1>2, <1>3 DEF ResizeTag, AfterResize, Reserves
<1>33. CASE DropLock(t)
  BY <1>33, <1>1, <1>2, <1>3 DEF DropLock
<1>34. CASE DropSwap(t)
  BY <1>34, <1>1, <1>2, <1>3 DEF DropSwap
<1>35. CASE DropKill(t)
  BY <1>35, <1>1, <1>2, <1>3 DEF DropKill, AfterResize, Reserves
<1>36. CASE ResizeAlloc(t)
  BY <1>36, <1>1, <1>2, <1>3 DEF ResizeAlloc, AfterResize, Allocate, Fresh,
     Reserves
<1>37. CASE ResizeKeep(t)
  BY <1>37, <1>1, <1>2, <1>3 DEF ResizeKeep, AfterResize, Reserves
<1>38. CASE End(t)
  BY <1>38, <1>1, <1>2, <1>3 DEF End, Return
<1>39. CASE AnyBucket(t)
  BY <1>39, <1>1, <1>2, <1>3 DEF AnyBucket, GoOn, Scanning
<1>40. CASE RetainBucket(t)
  BY <1>40, <1>1, <1>2, <1>3 DEF RetainBucket, GoOn, Scanning
<1>41. CASE PruneBucket(t)
  BY <1>41, <1>1, <1>2, <1>3 DEF PruneBucket, GoOn, Scanning
<1>42. CASE WalkBucket(t)
  BY <1>42, <1>1, <1>2, <1>3 DEF WalkBucket, GoOn, Scanning
<1>43. CASE WalkNext(t)
  BY <1>43, <1>1, <1>2, <1>3 DEF WalkNext, Restarts
<1>44. CASE ScanEnd(t)
  BY <1>44, <1>1, <1>2, <1>3 DEF ScanEnd
<1>45. CASE TryResize(t)
  BY <1>45, <1>1, <1>2, <1>3 DEF TryResize
<1>46. CASE IterStart(t)
  BY <1>46, <1>1, <1>2, <1>3 DEF IterStart, OldFirst
<1>47. CASE IterBucket(t)
  BY <1>47, <1>1, <1>2, <1>3 DEF IterBucket, GoOn
<1>48. CASE IterEnd(t)
  BY <1>48, <1>1, <1>2, <1>3 DEF IterEnd
<1>49. CASE IterSwitch(t)
  BY <1>49, <1>1, <1>2, <1>3 DEF IterSwitch, IterFrom, OldFirst
<1>50. CASE ScanReturn(t)
  BY <1>50, <1>1, <1>2, <1>3 DEF ScanReturn, Return
<1> QED BY <1>4, <1>5, <1>6, <1>7, <1>8, <1>9, <1>10, <1>11, <1>12, <1>13,
           <1>14, <1>15, <1>16, <1>17, <1>18, <1>19, <1>20, <1>21, <1>22,
           <1>23, <1>24, <1>25, <1>26, <1>27, <1>28, <1>29, <1>30, <1>31,
           <1>32, <1>33, <1>34, <1>35, <1>36, <1>37, <1>38, <1>39, <1>40,
           <1>41, <1>42, <1>43, <1>44, <1>45, <1>46, <1>47, <1>48, <1>49,
           <1>50
        DEF Step, TableStep, ScanStep

\* Types of the locals.
LEMMA TypeLocalsOwn ==
  ASSUME Structure, NEW t \in Threads, Step(t)
  PROVE  TypeLocals'
<1>1. /\ OpShape(t) /\ ArrShape(t) /\ ResizeShape(t) /\ PosShape(t)
      /\ arr[t] \in Pointers /\ oldArr[t] \in Pointers /\ rarr[t] \in Pointers
      /\ array \in Pointers /\ \A a \in Arrays : old[a] \in Pointers /\ a # Null
      /\ range[t] \in Nat /\ pos[t] \in Nat /\ RangeLen \in Nat /\ RangeLen > 0
      /\ \A a \in Arrays : size[a] \in Nat /\ next[a] \in Nat
  BY OwnFacts
<1>2. TypeLocals
  BY DEF Structure, TypeInv, TypeLocals
<1> USE DEF arrayVars, bucketVars, lockVars, callVars, moveVars, localVars,
          Goto, TypeLocals, Pointers, ArrShape, Loaded, Rehashing
<1>3. ASSUME NEW o \in Ops[type][t], NEW k \in Keys, Begin(t, o, k)
      PROVE  TypeLocals'
  BY <1>3, <1>1, <1>2 DEF Begin, Offered
<1>4. CASE Load(t)
  BY <1>4, <1>1, <1>2 DEF Load, Allocate, Fresh, NotFound, Reserves
<1>5. CASE LoadOld(t)
  BY <1>5, <1>1, <1>2 DEF LoadOld, Work, Reserves
<1>6. CASE Claim(t)
  BY <1>6, <1>1, <1>2 DEF Claim, Claimable
<1>7. CASE LockOld(t)
  BY <1>7, <1>1, <1>2 DEF LockOld, NextBucket, GiveUp
<1>8. ASSUME NEW k \in Keys, LockTarget(t, k)
      PROVE  TypeLocals'
  BY <1>8, <1>1, <1>2 DEF LockTarget, GiveUp
<1>9. ASSUME NEW k \in Keys, MoveEntry(t, k)
      PROVE  TypeLocals'
  BY <1>9, <1>1, <1>2 DEF MoveEntry
<1>10. CASE EraseOld(t)
  BY <1>10, <1>1, <1>2 DEF EraseOld
<1>11. CASE Emptied(t)
  BY <1>11, <1>1, <1>2 DEF Emptied
<1>12. CASE Kill(t)
  BY <1>12, <1>1, <1>2 DEF Kill, NextBucket
<1>13. CASE Success(t)
  BY <1>13, <1>1, <1>2 DEF Success
<1>14. CASE DropOld(t)
  BY <1>14, <1>1, <1>2 DEF DropOld
<1>15. CASE Fail(t)
  BY <1>15, <1>1, <1>2 DEF Fail
<1>16. CASE Check(t)
  <2>1. oldArr[t] \in Arrays /\ Allocated(oldArr[t])
    BY <1>1, <1>16 DEF Check
  <2>2. key[t] \in Keys => Index(oldArr[t], key[t]) \in Nat
    BY <2>1, IndexBound DEF Structure
  <2> QED BY <1>16, <1>1, <1>2, <2>2 DEF Check, AfterRehash, Work, OpShape, KeyOps, ScanOps
<1>17. CASE LockFails(t)
  BY <1>17, <1>1, <1>2 DEF LockFails, Lookup
<1>18. CASE InsertEntry(t)
  BY <1>18, <1>1, <1>2 DEF InsertEntry, Hold, Lockable
<1>19. CASE ReserveEntry(t)
  BY <1>19, <1>1, <1>2 DEF ReserveEntry, Hold, Lockable
<1>20. CASE RemoveEntry(t)
  BY <1>20, <1>1, <1>2 DEF RemoveEntry, Hold, Gone, Lockable
<1>21. CASE GetEntry(t)
  BY <1>21, <1>1, <1>2 DEF GetEntry, Hold, Lockable
<1>22. CASE ReadEntry(t)
  BY <1>22, <1>1, <1>2 DEF ReadEntry
<1>23. CASE VacantInsert(t)
  BY <1>23, <1>1, <1>2 DEF VacantInsert
<1>24. ASSUME NEW k \in Keys, OccupiedRemove(t, k)
      PROVE  TypeLocals'
  BY <1>24, <1>1, <1>2 DEF OccupiedRemove
<1>25. CASE Release(t)
  BY <1>25, <1>1, <1>2 DEF Release
<1>26. CASE ReleaseReader(t)
  BY <1>26, <1>1, <1>2 DEF ReleaseReader
<1>27. CASE SearchOld(t)
  BY <1>27, <1>1, <1>2 DEF SearchOld
<1>28. CASE Search(t)
  BY <1>28, <1>1, <1>2 DEF Search
<1>29. CASE Reload(t)
  BY <1>29, <1>1, <1>2 DEF Reload, NotFound
<1>30. CASE ResizeLoad(t)
  BY <1>30, <1>1, <1>2 DEF ResizeLoad, AfterResize, Reserves
<1>31. CASE ResizeTag(t)
  BY <1>31, <1>1, <1>2 DEF ResizeTag, AfterResize, Reserves
<1>32. CASE DropLock(t)
  BY <1>32, <1>1, <1>2 DEF DropLock
<1>33. CASE DropSwap(t)
  BY <1>33, <1>1, <1>2 DEF DropSwap
<1>34. CASE DropKill(t)
  BY <1>34, <1>1, <1>2 DEF DropKill, AfterResize, Reserves
<1>35. CASE ResizeAlloc(t)
  BY <1>35, <1>1, <1>2 DEF ResizeAlloc, AfterResize, Allocate, Fresh,
     Reserves
<1>36. CASE ResizeKeep(t)
  BY <1>36, <1>1, <1>2 DEF ResizeKeep, AfterResize, Reserves
<1>37. CASE End(t)
  BY <1>37, <1>1, <1>2 DEF End, Return
<1>38. CASE AnyBucket(t)
  BY <1>38, <1>1, <1>2 DEF AnyBucket, GoOn, Scanning
<1>39. CASE RetainBucket(t)
  BY <1>39, <1>1, <1>2 DEF RetainBucket, GoOn, Scanning
<1>40. CASE PruneBucket(t)
  BY <1>40, <1>1, <1>2 DEF PruneBucket, GoOn, Scanning
<1>41. CASE WalkBucket(t)
  BY <1>41, <1>1, <1>2 DEF WalkBucket, GoOn, Scanning
<1>42. CASE WalkNext(t)
  BY <1>42, <1>1, <1>2 DEF WalkNext, Restarts
<1>43. CASE ScanEnd(t)
  BY <1>43, <1>1, <1>2 DEF ScanEnd
<1>44. CASE TryResize(t)
  BY <1>44, <1>1, <1>2 DEF TryResize
<1>45. CASE IterStart(t)
  BY <1>45, <1>1, <1>2 DEF IterStart, OldFirst
<1>46. CASE IterBucket(t)
  BY <1>46, <1>1, <1>2 DEF IterBucket, GoOn
<1>47. CASE IterEnd(t)
  BY <1>47, <1>1, <1>2 DEF IterEnd
<1>48. CASE IterSwitch(t)
  BY <1>48, <1>1, <1>2 DEF IterSwitch, IterFrom, OldFirst
<1>49. CASE ScanReturn(t)
  BY <1>49, <1>1, <1>2 DEF ScanReturn, Return
<1> QED BY <1>3, <1>4, <1>5, <1>6, <1>7, <1>8, <1>9, <1>10, <1>11, <1>12,
           <1>13, <1>14, <1>15, <1>16, <1>17, <1>18, <1>19, <1>20, <1>21,
           <1>22, <1>23, <1>24, <1>25, <1>26, <1>27, <1>28, <1>29, <1>30,
           <1>31, <1>32, <1>33, <1>34, <1>35, <1>36, <1>37, <1>38, <1>39,
           <1>40, <1>41, <1>42, <1>43, <1>44, <1>45, <1>46, <1>47, <1>48,
           <1>49
        DEF Step, TableStep, ScanStep

\* Types of the resizing tags.
LEMMA TypeTagsOwn ==
  ASSUME Structure, NEW t \in Threads, Step(t)
  PROVE  TypeTags'
<1>1. TypeTags
  BY DEF Structure, TypeInv, TypeTags
<1> USE DEF arrayVars, bucketVars, lockVars, callVars, moveVars, localVars,
          Goto, TypeTags
<1>2. ASSUME NEW o \in Ops[type][t], NEW k \in Keys, Begin(t, o, k)
      PROVE  TypeTags'
  BY <1>2, <1>1 DEF Begin, Offered
<1>3. CASE Load(t)
  BY <1>3, <1>1 DEF Load, Allocate, Fresh, NotFound, Reserves
<1>4. CASE LoadOld(t)
  BY <1>4, <1>1 DEF LoadOld, Work, Reserves
<1>5. CASE Claim(t)
  BY <1>5, <1>1 DEF Claim, Claimable
<1>6. CASE LockOld(t)
  BY <1>6, <1>1 DEF LockOld, NextBucket, GiveUp
<1>7. ASSUME NEW k \in Keys, LockTarget(t, k)
      PROVE  TypeTags'
  BY <1>7, <1>1 DEF LockTarget, GiveUp
<1>8. ASSUME NEW k \in Keys, MoveEntry(t, k)
      PROVE  TypeTags'
  BY <1>8, <1>1 DEF MoveEntry
<1>9. CASE EraseOld(t)
  BY <1>9, <1>1 DEF EraseOld
<1>10. CASE Emptied(t)
  BY <1>10, <1>1 DEF Emptied
<1>11. CASE Kill(t)
  BY <1>11, <1>1 DEF Kill, NextBucket
<1>12. CASE Success(t)
  BY <1>12, <1>1 DEF Success
<1>13. CASE DropOld(t)
  BY <1>13, <1>1 DEF DropOld
<1>14. CASE Fail(t)
  BY <1>14, <1>1 DEF Fail
<1>15. CASE Check(t)
  BY <1>15, <1>1 DEF Check, AfterRehash, Work
<1>16. CASE LockFails(t)
  BY <1>16, <1>1 DEF LockFails, Lookup
<1>17. CASE InsertEntry(t)
  BY <1>17, <1>1 DEF InsertEntry, Hold, Lockable
<1>18. CASE ReserveEntry(t)
  BY <1>18, <1>1 DEF ReserveEntry, Hold, Lockable
<1>19. CASE RemoveEntry(t)
  BY <1>19, <1>1 DEF RemoveEntry, Hold, Gone, Lockable
<1>20. CASE GetEntry(t)
  BY <1>20, <1>1 DEF GetEntry, Hold, Lockable
<1>21. CASE ReadEntry(t)
  BY <1>21, <1>1 DEF ReadEntry
<1>22. CASE VacantInsert(t)
  BY <1>22, <1>1 DEF VacantInsert
<1>23. ASSUME NEW k \in Keys, OccupiedRemove(t, k)
      PROVE  TypeTags'
  BY <1>23, <1>1 DEF OccupiedRemove
<1>24. CASE Release(t)
  BY <1>24, <1>1 DEF Release
<1>25. CASE ReleaseReader(t)
  BY <1>25, <1>1 DEF ReleaseReader
<1>26. CASE SearchOld(t)
  BY <1>26, <1>1 DEF SearchOld
<1>27. CASE Search(t)
  BY <1>27, <1>1 DEF Search
<1>28. CASE Reload(t)
  BY <1>28, <1>1 DEF Reload, NotFound
<1>29. CASE ResizeLoad(t)
  BY <1>29, <1>1 DEF ResizeLoad, AfterResize, Reserves
<1>30. CASE ResizeTag(t)
  BY <1>30, <1>1 DEF ResizeTag, AfterResize, Reserves
<1>31. CASE DropLock(t)
  BY <1>31, <1>1 DEF DropLock
<1>32. CASE DropSwap(t)
  BY <1>32, <1>1 DEF DropSwap
<1>33. CASE DropKill(t)
  BY <1>33, <1>1 DEF DropKill, AfterResize, Reserves
<1>34. CASE ResizeAlloc(t)
  BY <1>34, <1>1 DEF ResizeAlloc, AfterResize, Allocate, Fresh, Reserves
<1>35. CASE ResizeKeep(t)
  BY <1>35, <1>1 DEF ResizeKeep, AfterResize, Reserves
<1>36. CASE End(t)
  BY <1>36, <1>1 DEF End, Return
<1>37. CASE AnyBucket(t)
  BY <1>37, <1>1 DEF AnyBucket, GoOn, Scanning
<1>38. CASE RetainBucket(t)
  BY <1>38, <1>1 DEF RetainBucket, GoOn, Scanning
<1>39. CASE PruneBucket(t)
  BY <1>39, <1>1 DEF PruneBucket, GoOn, Scanning
<1>40. CASE WalkBucket(t)
  BY <1>40, <1>1 DEF WalkBucket, GoOn, Scanning
<1>41. CASE WalkNext(t)
  BY <1>41, <1>1 DEF WalkNext, Restarts
<1>42. CASE ScanEnd(t)
  BY <1>42, <1>1 DEF ScanEnd
<1>43. CASE TryResize(t)
  BY <1>43, <1>1 DEF TryResize
<1>44. CASE IterStart(t)
  BY <1>44, <1>1 DEF IterStart, OldFirst
<1>45. CASE IterBucket(t)
  BY <1>45, <1>1 DEF IterBucket, GoOn
<1>46. CASE IterEnd(t)
  BY <1>46, <1>1 DEF IterEnd
<1>47. CASE IterSwitch(t)
  BY <1>47, <1>1 DEF IterSwitch, IterFrom, OldFirst
<1>48. CASE ScanReturn(t)
  BY <1>48, <1>1 DEF ScanReturn, Return
<1> QED BY <1>2, <1>3, <1>4, <1>5, <1>6, <1>7, <1>8, <1>9, <1>10, <1>11,
           <1>12, <1>13, <1>14, <1>15, <1>16, <1>17, <1>18, <1>19, <1>20,
           <1>21, <1>22, <1>23, <1>24, <1>25, <1>26, <1>27, <1>28, <1>29,
           <1>30, <1>31, <1>32, <1>33, <1>34, <1>35, <1>36, <1>37, <1>38,
           <1>39, <1>40, <1>41, <1>42, <1>43, <1>44, <1>45, <1>46, <1>47,
           <1>48
        DEF Step, TableStep, ScanStep

\* A step keeps the chain of the current array and its old array.
LEMMA ArraysOwn ==
  ASSUME Structure, NEW t \in Threads, Step(t)
  PROVE  ArraysInv'
<1>1. /\ OpShape(t) /\ ArrShape(t) /\ ResizeShape(t)
      /\ arr[t] \in Pointers /\ oldArr[t] \in Pointers /\ rarr[t] \in Pointers
      /\ array \in Pointers /\ \A a \in Arrays : old[a] \in Pointers /\ a # Null
      /\ \A a \in Arrays : a \in Nat
  BY OwnFacts
<1>2. ArraysInv /\ TypeTable /\ TypeTags
  BY DEF Structure, TypeInv, TypeTable, TypeTags
<1>3. SmallestSize \in Sizes /\ \A s \in Sizes : s # 0
  BY SmallestIsSize, SizeFacts
<1> USE DEF arrayVars, bucketVars, lockVars, callVars, moveVars, localVars,
          Goto, ArraysInv, TypeTable, TypeTags, Pointers, Allocated
<1>4. ASSUME NEW o \in Ops[type][t], NEW k \in Keys, Begin(t, o, k)
      PROVE  ArraysInv'
  BY <1>4, <1>1, <1>2, <1>3 DEF Begin, Offered
<1>5. CASE Load(t)
  BY <1>5, <1>1, <1>2, <1>3 DEF Load, Allocate, Fresh, NotFound, Reserves
<1>6. CASE LoadOld(t)
  BY <1>6, <1>1, <1>2, <1>3 DEF LoadOld, Work, Reserves
<1>7. CASE Claim(t)
  BY <1>7, <1>1, <1>2, <1>3 DEF Claim, Claimable
<1>8. CASE LockOld(t)
  BY <1>8, <1>1, <1>2, <1>3 DEF LockOld, NextBucket, GiveUp
<1>9. ASSUME NEW k \in Keys, LockTarget(t, k)
      PROVE  ArraysInv'
  BY <1>9, <1>1, <1>2, <1>3 DEF LockTarget, GiveUp
<1>10. ASSUME NEW k \in Keys, MoveEntry(t, k)
      PROVE  ArraysInv'
  BY <1>10, <1>1, <1>2, <1>3 DEF MoveEntry
<1>11. CASE EraseOld(t)
  BY <1>11, <1>1, <1>2, <1>3 DEF EraseOld
<1>12. CASE Emptied(t)
  BY <1>12, <1>1, <1>2, <1>3 DEF Emptied
<1>13. CASE Kill(t)
  BY <1>13, <1>1, <1>2, <1>3 DEF Kill, NextBucket
<1>14. CASE Success(t)
  BY <1>14, <1>1, <1>2, <1>3 DEF Success
<1>15. CASE DropOld(t)
  BY <1>15, <1>1, <1>2, <1>3 DEF DropOld, ArrShape, Rehashing, Loaded
<1>16. CASE Fail(t)
  BY <1>16, <1>1, <1>2, <1>3 DEF Fail
<1>17. CASE Check(t)
  BY <1>17, <1>1, <1>2, <1>3 DEF Check, AfterRehash, Work
<1>18. CASE LockFails(t)
  BY <1>18, <1>1, <1>2, <1>3 DEF LockFails, Lookup
<1>19. CASE InsertEntry(t)
  BY <1>19, <1>1, <1>2, <1>3 DEF InsertEntry, Hold, Lockable
<1>20. CASE ReserveEntry(t)
  BY <1>20, <1>1, <1>2, <1>3 DEF ReserveEntry, Hold, Lockable
<1>21. CASE RemoveEntry(t)
  BY <1>21, <1>1, <1>2, <1>3 DEF RemoveEntry, Hold, Gone, Lockable
<1>22. CASE GetEntry(t)
  BY <1>22, <1>1, <1>2, <1>3 DEF GetEntry, Hold, Lockable
<1>23. CASE ReadEntry(t)
  BY <1>23, <1>1, <1>2, <1>3 DEF ReadEntry
<1>24. CASE VacantInsert(t)
  BY <1>24, <1>1, <1>2, <1>3 DEF VacantInsert
<1>25. ASSUME NEW k \in Keys, OccupiedRemove(t, k)
      PROVE  ArraysInv'
  BY <1>25, <1>1, <1>2, <1>3 DEF OccupiedRemove
<1>26. CASE Release(t)
  BY <1>26, <1>1, <1>2, <1>3 DEF Release
<1>27. CASE ReleaseReader(t)
  BY <1>27, <1>1, <1>2, <1>3 DEF ReleaseReader
<1>28. CASE SearchOld(t)
  BY <1>28, <1>1, <1>2, <1>3 DEF SearchOld
<1>29. CASE Search(t)
  BY <1>29, <1>1, <1>2, <1>3 DEF Search
<1>30. CASE Reload(t)
  BY <1>30, <1>1, <1>2, <1>3 DEF Reload, NotFound
<1>31. CASE ResizeLoad(t)
  BY <1>31, <1>1, <1>2, <1>3 DEF ResizeLoad, AfterResize, Reserves
<1>32. CASE ResizeTag(t)
  BY <1>32, <1>1, <1>2, <1>3 DEF ResizeTag, AfterResize, Reserves,
     ResizeShape, Resize
<1>33. CASE DropLock(t)
  BY <1>33, <1>1, <1>2, <1>3 DEF DropLock
<1>34. CASE DropSwap(t)
  BY <1>34, <1>1, <1>2, <1>3 DEF DropSwap, ResizeShape, Tagged, Resize
<1>35. CASE DropKill(t)
  BY <1>35, <1>1, <1>2, <1>3 DEF DropKill, AfterResize, Reserves
<1>36. CASE ResizeAlloc(t)
  BY <1>36, <1>1, <1>2, <1>3 DEF ResizeAlloc, AfterResize, Allocate, Fresh,
     Reserves, ResizeShape, Tagged, Resize, ArrShape
<1>37. CASE ResizeKeep(t)
  BY <1>37, <1>1, <1>2, <1>3 DEF ResizeKeep, AfterResize, Reserves
<1>38. CASE End(t)
  BY <1>38, <1>1, <1>2, <1>3 DEF End, Return
<1>39. CASE AnyBucket(t)
  BY <1>39, <1>1, <1>2, <1>3 DEF AnyBucket, GoOn, Scanning
<1>40. CASE RetainBucket(t)
  BY <1>40, <1>1, <1>2, <1>3 DEF RetainBucket, GoOn, Scanning
<1>41. CASE PruneBucket(t)
  BY <1>41, <1>1, <1>2, <1>3 DEF PruneBucket, GoOn, Scanning
<1>42. CASE WalkBucket(t)
  BY <1>42, <1>1, <1>2, <1>3 DEF WalkBucket, GoOn, Scanning
<1>43. CASE WalkNext(t)
  BY <1>43, <1>1, <1>2, <1>3 DEF WalkNext, Restarts
<1>44. CASE ScanEnd(t)
  BY <1>44, <1>1, <1>2, <1>3 DEF ScanEnd
<1>45. CASE TryResize(t)
  BY <1>45, <1>1, <1>2, <1>3 DEF TryResize
<1>46. CASE IterStart(t)
  BY <1>46, <1>1, <1>2, <1>3 DEF IterStart, OldFirst
<1>47. CASE IterBucket(t)
  BY <1>47, <1>1, <1>2, <1>3 DEF IterBucket, GoOn
<1>48. CASE IterEnd(t)
  BY <1>48, <1>1, <1>2, <1>3 DEF IterEnd
<1>49. CASE IterSwitch(t)
  BY <1>49, <1>1, <1>2, <1>3 DEF IterSwitch, IterFrom, OldFirst
<1>50. CASE ScanReturn(t)
  BY <1>50, <1>1, <1>2, <1>3 DEF ScanReturn, Return
<1> QED BY <1>4, <1>5, <1>6, <1>7, <1>8, <1>9, <1>10, <1>11, <1>12, <1>13,
           <1>14, <1>15, <1>16, <1>17, <1>18, <1>19, <1>20, <1>21, <1>22,
           <1>23, <1>24, <1>25, <1>26, <1>27, <1>28, <1>29, <1>30, <1>31,
           <1>32, <1>33, <1>34, <1>35, <1>36, <1>37, <1>38, <1>39, <1>40,
           <1>41, <1>42, <1>43, <1>44, <1>45, <1>46, <1>47, <1>48, <1>49,
           <1>50
        DEF Step, TableStep, ScanStep

\* A step keeps at most one thread resizing: try_resize goes on with the tag in
\* its hands only.
LEMMA OneResizerOwn ==
  ASSUME Structure, NEW t \in Threads, Step(t)
  PROVE  OneResizer'
<1>1. OneResizer /\ pc \in [Threads -> PCs]
  BY DEF Structure, TypeInv
<1>2. \A u \in Threads : pc[u] \in Tagged => tag
  BY DEF Structure, ResizeShape
<1> USE DEF arrayVars, bucketVars, lockVars, callVars, moveVars, localVars,
          Goto, OneResizer, Tagged
<1>3. ASSUME NEW o \in Ops[type][t], NEW k \in Keys, Begin(t, o, k)
      PROVE  OneResizer'
  BY <1>3, <1>1, <1>2 DEF Begin, Offered
<1>4. CASE Load(t)
  BY <1>4, <1>1, <1>2 DEF Load, Allocate, Fresh, NotFound, Reserves
<1>5. CASE LoadOld(t)
  BY <1>5, <1>1, <1>2 DEF LoadOld, Work, Reserves
<1>6. CASE Claim(t)
  BY <1>6, <1>1, <1>2 DEF Claim, Claimable
<1>7. CASE LockOld(t)
  BY <1>7, <1>1, <1>2 DEF LockOld, NextBucket, GiveUp
<1>8. ASSUME NEW k \in Keys, LockTarget(t, k)
      PROVE  OneResizer'
  BY <1>8, <1>1, <1>2 DEF LockTarget, GiveUp
<1>9. ASSUME NEW k \in Keys, MoveEntry(t, k)
      PROVE  OneResizer'
  BY <1>9, <1>1, <1>2 DEF MoveEntry
<1>10. CASE EraseOld(t)
  BY <1>10, <1>1, <1>2 DEF EraseOld
<1>11. CASE Emptied(t)
  BY <1>11, <1>1, <1>2 DEF Emptied
<1>12. CASE Kill(t)
  BY <1>12, <1>1, <1>2 DEF Kill, NextBucket
<1>13. CASE Success(t)
  BY <1>13, <1>1, <1>2 DEF Success
<1>14. CASE DropOld(t)
  BY <1>14, <1>1, <1>2 DEF DropOld
<1>15. CASE Fail(t)
  BY <1>15, <1>1, <1>2 DEF Fail
<1>16. CASE Check(t)
  BY <1>16, <1>1, <1>2 DEF Check, AfterRehash, Work
<1>17. CASE LockFails(t)
  BY <1>17, <1>1, <1>2 DEF LockFails, Lookup
<1>18. CASE InsertEntry(t)
  BY <1>18, <1>1, <1>2 DEF InsertEntry, Hold, Lockable
<1>19. CASE ReserveEntry(t)
  BY <1>19, <1>1, <1>2 DEF ReserveEntry, Hold, Lockable
<1>20. CASE RemoveEntry(t)
  BY <1>20, <1>1, <1>2 DEF RemoveEntry, Hold, Gone, Lockable
<1>21. CASE GetEntry(t)
  BY <1>21, <1>1, <1>2 DEF GetEntry, Hold, Lockable
<1>22. CASE ReadEntry(t)
  BY <1>22, <1>1, <1>2 DEF ReadEntry
<1>23. CASE VacantInsert(t)
  BY <1>23, <1>1, <1>2 DEF VacantInsert
<1>24. ASSUME NEW k \in Keys, OccupiedRemove(t, k)
      PROVE  OneResizer'
  BY <1>24, <1>1, <1>2 DEF OccupiedRemove
<1>25. CASE Release(t)
  BY <1>25, <1>1, <1>2 DEF Release
<1>26. CASE ReleaseReader(t)
  BY <1>26, <1>1, <1>2 DEF ReleaseReader
<1>27. CASE SearchOld(t)
  BY <1>27, <1>1, <1>2 DEF SearchOld
<1>28. CASE Search(t)
  BY <1>28, <1>1, <1>2 DEF Search
<1>29. CASE Reload(t)
  BY <1>29, <1>1, <1>2 DEF Reload, NotFound
<1>30. CASE ResizeLoad(t)
  BY <1>30, <1>1, <1>2 DEF ResizeLoad, AfterResize, Reserves
<1>31. CASE ResizeTag(t)
  BY <1>31, <1>1, <1>2 DEF ResizeTag, AfterResize, Reserves
<1>32. CASE DropLock(t)
  BY <1>32, <1>1, <1>2 DEF DropLock
<1>33. CASE DropSwap(t)
  BY <1>33, <1>1, <1>2 DEF DropSwap
<1>34. CASE DropKill(t)
  BY <1>34, <1>1, <1>2 DEF DropKill, AfterResize, Reserves
<1>35. CASE ResizeAlloc(t)
  BY <1>35, <1>1, <1>2 DEF ResizeAlloc, AfterResize, Allocate, Fresh,
     Reserves
<1>36. CASE ResizeKeep(t)
  BY <1>36, <1>1, <1>2 DEF ResizeKeep, AfterResize, Reserves
<1>37. CASE End(t)
  BY <1>37, <1>1, <1>2 DEF End, Return
<1>38. CASE AnyBucket(t)
  BY <1>38, <1>1, <1>2 DEF AnyBucket, GoOn, Scanning
<1>39. CASE RetainBucket(t)
  BY <1>39, <1>1, <1>2 DEF RetainBucket, GoOn, Scanning
<1>40. CASE PruneBucket(t)
  BY <1>40, <1>1, <1>2 DEF PruneBucket, GoOn, Scanning
<1>41. CASE WalkBucket(t)
  BY <1>41, <1>1, <1>2 DEF WalkBucket, GoOn, Scanning
<1>42. CASE WalkNext(t)
  BY <1>42, <1>1, <1>2 DEF WalkNext, Restarts
<1>43. CASE ScanEnd(t)
  BY <1>43, <1>1, <1>2 DEF ScanEnd
<1>44. CASE TryResize(t)
  BY <1>44, <1>1, <1>2 DEF TryResize
<1>45. CASE IterStart(t)
  BY <1>45, <1>1, <1>2 DEF IterStart, OldFirst
<1>46. CASE IterBucket(t)
  BY <1>46, <1>1, <1>2 DEF IterBucket, GoOn
<1>47. CASE IterEnd(t)
  BY <1>47, <1>1, <1>2 DEF IterEnd
<1>48. CASE IterSwitch(t)
  BY <1>48, <1>1, <1>2 DEF IterSwitch, IterFrom, OldFirst
<1>49. CASE ScanReturn(t)
  BY <1>49, <1>1, <1>2 DEF ScanReturn, Return
<1> QED BY <1>3, <1>4, <1>5, <1>6, <1>7, <1>8, <1>9, <1>10, <1>11, <1>12,
           <1>13, <1>14, <1>15, <1>16, <1>17, <1>18, <1>19, <1>20, <1>21,
           <1>22, <1>23, <1>24, <1>25, <1>26, <1>27, <1>28, <1>29, <1>30,
           <1>31, <1>32, <1>33, <1>34, <1>35, <1>36, <1>37, <1>38, <1>39,
           <1>40, <1>41, <1>42, <1>43, <1>44, <1>45, <1>46, <1>47, <1>48,
           <1>49
        DEF Step, TableStep, ScanStep

\* Every step keeps what is known about the arrays.
LEMMA StructureStep == ASSUME Structure, [Next]_vars PROVE Structure'
<1>1. ASSUME NEW t \in Threads, Step(t) PROVE Structure'
  <2>1. TypeInv'
    BY <1>1, TypeTableOwn, TypeBucketsOwn, TypeCallsOwn, TypeLocalsOwn, TypeTagsOwn
       DEF TypeInv, TypeTable, TypeBuckets, TypeCalls, TypeLocals, TypeTags
  <2>2. ArraysInv' /\ OneResizer'
    BY <1>1, ArraysOwn, OneResizerOwn
  <2>3. ASSUME NEW u \in Threads
        PROVE  OpShape(u)' /\ ArrShape(u)' /\ ResizeShape(u)' /\ PosShape(u)'
    BY <1>1, StructureOther, OpOwn, ArrOwn, ResizeOwn, PosOwn
  <2> QED BY <2>1, <2>2, <2>3 DEF Structure
<1>2. CASE UNCHANGED vars
  <2>1. TypeInv' /\ ArraysInv' /\ OneResizer'
    BY <1>2 DEF Structure, vars, TypeInv, ArraysInv, OneResizer, Allocated
  <2>2. ASSUME NEW u \in Threads
        PROVE  OpShape(u)' /\ ArrShape(u)' /\ ResizeShape(u)' /\ PosShape(u)'
    BY <1>2 DEF Structure, vars, OpShape, ArrShape, ResizeShape, PosShape, Allocated,
                Reserves, Index
  <2> QED BY <2>1, <2>2 DEF Structure
<1> QED BY <1>1, <1>2 DEF Next, Step

\* Whatever threads insert, remove, look up, scan and resize: arrays are allocated
\* in order, only the current one has an old array (try_resize), one thread at a
\* time resizes, and the array, bucket and range a thread works on exist.
THEOREM StructureInvariant == Spec => []Structure
<1> QED BY StructureInit, StructureStep, PTL DEF Spec

-----------------------------------------------------------------------------
(* Locks: who has which bucket                                              *)

\* The buckets of array a that entries of bucket p of array o can go to.
Span(a, o, p) ==
  {i \in 0 .. size[a] - 1 :
     IF size[a] <= size[o] THEN i = (p * size[a]) \div size[o]
     ELSE i \div (size[a] \div size[o]) = p}

Moving == {"relocate", "erase", "kill"}

HeldShape(t) ==
  /\ pc[t] \in {"relocate", "erase"} =>
       /\ From(t) \in held[t]
       /\ \A b \in held[t] \ {From(t)} :
            b[1] = arr[t] /\ b[2] \in Span(arr[t], oldArr[t], pos[t])
  /\ pc[t] = "kill" => held[t] = {From(t)}
  /\ pc[t] = "hold" => held[t] = {Home(t)}
  /\ pc[t] = "occupied" => held[t] = {At(t)}
  /\ pc[t] \notin Moving \cup {"hold", "occupied"} => held[t] = {}

SharedShape(t) ==
  /\ pc[t] = "holdS" => shared[t] = {Home(t)}
  /\ pc[t] = "rdrop" => shared[t] = {rarr[t]} \X (0 .. pos[t] - 1)
  /\ pc[t] = "rswap" => shared[t] = BucketsOf(rarr[t])
  /\ pc[t] = "rkill" => shared[t] = {rarr[t]} \X (pos[t] .. size[rarr[t]] - 1)
  /\ pc[t] \notin {"holdS", "rdrop", "rswap", "rkill"} => shared[t] = {}

Exclusion ==
  \A t, u \in Threads : t # u =>
    held[t] \cap held[u] = {} /\ held[t] \cap shared[u] = {}

Locks == Exclusion /\ \A t \in Threads : HeldShape(t) /\ SharedShape(t)

-----------------------------------------------------------------------------
(* Buckets: what is in them, which are killed, and who has to do that       *)

\* A key is only in the bucket of its hash; a killed bucket is empty and not
\* locked, and none is in the current array; the thread that drops an empty
\* array keeps it empty.
BucketsInv ==
  /\ \A b \in Buckets, k \in Keys :
       k \in entries[b] => Allocated(b[1]) /\ b = BucketOf(b[1], k)
  /\ \A b \in killed : entries[b] = {} /\ b[1] # array /\ Allocated(b[1])
  /\ \A t \in Threads : held[t] \cap killed = {}
  /\ \A t \in Threads : pc[t] \in {"rdrop", "rswap", "rkill"} =>
       \A b \in shared[t] : entries[b] = {}

\* A claimed range is killed from its start on; a bucket is killed when it is
\* empty, and the old array is dropped when all of its buckets are killed.
Progress(t) ==
  /\ range[t] # 0 /\ pc[t] \in AtBucket =>
       \A i \in Nat : (range[t] - 1) * RangeLen <= i /\ i < pos[t] =>
         <<oldArr[t], i>> \in killed
  /\ pc[t] = "success" =>
       \A i \in Nat : (range[t] - 1) * RangeLen <= i /\ i < range[t] * RangeLen
                      /\ i < size[oldArr[t]] => <<oldArr[t], i>> \in killed
  /\ pc[t] = "drop" => BucketsOf(oldArr[t]) \subseteq killed
  /\ pc[t] = "kill" => entries[From(t)] = {}

ProgressInv == \A t \in Threads : Progress(t)

\* An array is let go of when its buckets are killed, or about to be.
Detached ==
  \A a \in Arrays : a \notin Reachable => \A b \in BucketsOf(a) :
    b \in killed \/ \E t \in Threads : pc[t] = "rkill" /\ b \in shared[t]

-----------------------------------------------------------------------------
(* Homes: where a key is                                                    *)

\* Whoever works on the bucket of its key has made sure that nothing is left
\* for it in the old array.
Past(t) ==
  pc[t] \in {"lock", "hold", "holdS"} /\ old[arr[t]] # Null =>
    BucketOf(old[arr[t]], key[t]) \in killed

MovedFirst == \A t \in Threads : Past(t)

\* The thread moves the entries of bucket b and has done so with k.
Moves(t, k, b) ==
  /\ pc[t] \in Moving /\ From(t) = b
  /\ \/ pc[t] = "kill"
     \/ BucketOf(array, k) \in held[t] /\ (k \in entries[b] => k \in copied[t])

\* A key that has got into the current array has left its old bucket, or is
\* just being moved by a thread that has both locked.
MovedOnce ==
  array # Null /\ old[array] # Null =>
    \A k \in Keys :
      k \in entries[BucketOf(array, k)] =>
        \/ BucketOf(old[array], k) \in killed
        \/ \E t \in Threads : Moves(t, k, BucketOf(old[array], k))

-----------------------------------------------------------------------------
(* Where the entries of a bucket go                                         *)

\* Dividing twice is dividing by the product: how a bucket index of an array
\* follows from that of a larger one.
LEMMA NestedDivision ==
  ASSUME NEW h \in Nat, NEW q \in Nat, q > 0, NEW m \in Nat, m > 0
  PROVE  (h \div q) \div m = h \div (q * m)
<1> DEFINE x == h \div q
           y == x \div m
           d == q * m
<1>1. x \in Nat /\ q * x <= h /\ h < q * x + q
  BY Division
<1>2. y \in Nat /\ m * y <= x /\ x < m * y + m
  BY <1>1, Division
<1>3. d \in Nat /\ d > 0 /\ d * y = q * (m * y) /\ q * (m * y + m) = d * y + d
      /\ q * x + q = q * (x + 1) /\ m * y \in Nat
  BY <1>2
<1>4. q * (m * y) <= q * x /\ q * (x + 1) <= q * (m * y + m)
  <2> DEFINE z == m * y
  <2>1. z \in Nat /\ z <= x /\ x + 1 <= z + m
    BY <1>1, <1>2, <1>3
  <2> HIDE DEF x, z
  <2>2. q * z <= q * x /\ q * (x + 1) <= q * (z + m)
    BY <1>1, <2>1
  <2> QED BY <2>2 DEF z
<1>5. d * y <= h /\ h < d * y + d
  <2> HIDE DEF x, y, d
  <2>1. q * x \in Nat /\ d * y \in Nat
    BY <1>1, <1>2, <1>3
  <2> QED BY <1>1, <1>3, <1>4, <2>1
<1> QED BY <1>2, <1>3, <1>5, DivisionUnique

\* Of two sizes one is a multiple of the other.
LEMMA SizesDivide ==
  ASSUME NEW r \in Sizes, NEW s \in Sizes, r <= s
  PROVE  /\ s \div r \in Nat /\ s \div r > 0 /\ s = r * (s \div r)
         /\ HashRange \div r = (HashRange \div s) * (s \div r)
<1> DEFINE m == s \div r
           qr == HashRange \div r
           qs == HashRange \div s
<1>1. /\ r \in Nat /\ r > 0 /\ qr \in Nat /\ HashRange = r * qr
      /\ s \in Nat /\ s > 0 /\ qs \in Nat /\ HashRange = s * qs
  BY SizeFacts
<1>2. s % r = 0
  BY TableAssumption
<1>3. m \in Nat /\ s = r * m
  BY <1>1, <1>2, Division
<1>4. m > 0
  BY <1>1, <1>3
<1>5. r * qr = r * (qs * m)
  <2> HIDE DEF m, qr, qs
  <2>1. (r * m) * qs = r * (qs * m)
    BY <1>1, <1>3
  <2> QED BY <1>1, <1>3, <2>1
<1>6. qr = qs * m
  <2> DEFINE z == qs * m
  <2>1. z \in Nat
    BY <1>1, <1>3
  <2> HIDE DEF z, qr
  <2> QED BY <1>1, <1>5, <2>1 DEF z
<1> QED BY <1>3, <1>4, <1>6

\* The index in the smaller array is that in the larger one, divided.
LEMMA IndexDivides ==
  ASSUME TypeInv, NEW a, NEW o, Allocated(a), Allocated(o), size[o] <= size[a],
         NEW k \in Keys
  PROVE  Index(o, k) = Index(a, k) \div (size[a] \div size[o])
<1>1. size[a] \in Sizes /\ size[o] \in Sizes
  BY DEF TypeInv, Allocated
<1>2. /\ size[a] \div size[o] \in Nat /\ size[a] \div size[o] > 0
      /\ HashRange \div size[o] = (HashRange \div size[a]) * (size[a] \div size[o])
  BY <1>1, SizesDivide
<1>3. HashRange \div size[a] \in Nat /\ HashRange \div size[a] > 0
  BY <1>1, SizeFacts
<1> QED BY <1>2, <1>3, HashBound, NestedDivision DEF Index

\* relocate_bucket: the first target, which is the only one when buckets are
\* merged, and is not behind that of any entry.
LEMMA SpanFirst ==
  ASSUME TypeInv, NEW a, NEW o, Allocated(a), Allocated(o), NEW k \in Keys
  PROVE  LET first == (Index(o, k) * size[a]) \div size[o] IN
         /\ first \in Nat /\ first <= Index(a, k)
         /\ size[a] <= size[o] => first = Index(a, k)
         /\ size[a] > size[o] => first = (size[a] \div size[o]) * Index(o, k)
<1> DEFINE s == size[a]
           r == size[o]
           p == Index(o, k)
           x == Index(a, k)
<1>1. /\ s \in Nat /\ r \in Nat /\ s > 0 /\ r > 0 /\ p \in Nat /\ x \in Nat
      /\ s \in Sizes /\ r \in Sizes
  BY IndexBound, SizeFacts DEF TypeInv, Allocated
<1>2. p * s \in Nat
  BY <1>1
<1>3. CASE s <= r
  <2> DEFINE m == r \div s
  <2>1. m \in Nat /\ m > 0 /\ r = s * m
    BY <1>1, <1>3, SizesDivide
  <2>2. x = p \div m
    BY <1>3, IndexDivides
  <2>3. (p * s) \div s = p
    <3> HIDE DEF p, s
    <3>1. s * p <= p * s /\ p * s < s * p + s
      BY <1>1
    <3> QED BY <1>1, <1>2, <3>1, DivisionUnique
  <2>4. ((p * s) \div s) \div m = (p * s) \div (s * m)
    <3> HIDE DEF p, s, m
    <3> QED BY <1>1, <1>2, <2>1, NestedDivision
  <2> QED BY <1>1, <2>1, <2>2, <2>3, <2>4
<1>4. CASE s > r
  <2> DEFINE m == s \div r
  <2>1. m \in Nat /\ m > 0 /\ s = r * m
    BY <1>1, <1>4, SizesDivide
  <2>2. p = x \div m
    BY <1>1, <1>4, IndexDivides
  <2>3. m * p <= x
    BY <1>1, <2>1, <2>2, Division
  <2>4. (p * s) \div r = m * p /\ m * p \in Nat
    <3> HIDE DEF p, s, r, m
    <3>1. m * p \in Nat /\ r * (m * p) = p * s
      BY <1>1, <2>1
    <3>2. r * (m * p) <= p * s /\ p * s < r * (m * p) + r
      BY <1>1, <3>1
    <3> QED BY <1>1, <1>2, <3>1, <3>2, DivisionUnique
  <2> QED BY <1>1, <1>4, <2>3, <2>4
<1> QED BY <1>1, <1>3, <1>4

\* The buckets locked for an entry are in the span of its bucket.
LEMMA SpanTargets ==
  ASSUME TypeInv, NEW a, NEW o, Allocated(a), Allocated(o), NEW k \in Keys,
         NEW i \in Nat, i <= Index(a, k),
         (Index(o, k) * size[a]) \div size[o] <= i
  PROVE  i \in Span(a, o, Index(o, k))
<1> DEFINE s == size[a]
           r == size[o]
           p == Index(o, k)
           x == Index(a, k)
           first == (p * s) \div r
<1>1. /\ s \in Nat /\ r \in Nat /\ s > 0 /\ r > 0 /\ p \in Nat /\ x \in Nat /\ x < s
      /\ s \in Sizes /\ r \in Sizes
  BY IndexBound, SizeFacts DEF TypeInv, Allocated
<1>2. i \in 0 .. s - 1
  <2> HIDE DEF s, x
  <2> QED BY <1>1 DEF x
<1>3. /\ first \in Nat /\ s <= r => first = x
      /\ s > r => first = (s \div r) * p
  BY SpanFirst
<1>4. CASE s <= r
  <2>1. i = first
    <3> HIDE DEF first
    <3> QED BY <1>1, <1>3, <1>4 DEF first
  <2> QED BY <1>2, <1>4, <2>1 DEF Span
<1>5. CASE s > r
  <2> DEFINE m == s \div r
  <2>1. m \in Nat /\ m > 0
    BY <1>1, <1>5, SizesDivide
  <2>2. p = x \div m
    BY <1>1, <1>5, IndexDivides
  <2>3. x < m * p + m
    BY <1>1, <2>1, <2>2, Division
  <2>4. m * p <= i
    BY <1>3, <1>5
  <2>5. i \div m = p
    <3> HIDE DEF p, m, s, r, x
    <3>1. m * p \in Nat /\ i <= x
      BY <1>1, <2>1 DEF x
    <3>2. m * p <= i /\ i < m * p + m
      BY <1>1, <2>1, <2>3, <2>4, <3>1
    <3> QED BY <1>1, <2>1, <3>2, DivisionUnique
  <2> QED BY <1>1, <1>2, <1>5, <2>5 DEF Span
<1> QED BY <1>1, <1>4, <1>5

-----------------------------------------------------------------------------
(* Locks is inductive                                                       *)

\* Sizes of allocated arrays do not change.
LEMMA SizesStay ==
  ASSUME Structure, NEW t \in Threads, Step(t), NEW a, Allocated(a)
  PROVE  /\ size'[a] = size[a] /\ BucketsOf(a)' = BucketsOf(a)
         /\ \A k : Index(a, k)' = Index(a, k) /\ BucketOf(a, k)' = BucketOf(a, k)
<1>1. size'[a] = size[a]
  BY Frame DEF Structure, Monotone, Allocated
<1> QED BY <1>1 DEF BucketsOf, Index, BucketOf

\* What the other threads have locked.
LEMMA LocksOther ==
  ASSUME Structure, Locks, NEW t \in Threads, Step(t), NEW u \in Threads, u # t
  PROVE  HeldShape(u)' /\ SharedShape(u)'
<1>1. /\ pc'[u] = pc[u] /\ op'[u] = op[u] /\ key'[u] = key[u] /\ arr'[u] = arr[u]
      /\ oldArr'[u] = oldArr[u] /\ pos'[u] = pos[u] /\ rarr'[u] = rarr[u]
      /\ held'[u] = held[u] /\ shared'[u] = shared[u]
  BY Frame DEF Structure, OthersKeep
<1>2. /\ pc[u] \in Loaded => Allocated(arr[u])
      /\ pc[u] \in Rehashing => Allocated(oldArr[u])
      /\ pc[u] \in Resize \ {"rload"} => Allocated(rarr[u])
  BY DEF Structure, ArrShape, ResizeShape
<1>3. /\ pc[u] \in Loaded => size'[arr[u]] = size[arr[u]]
      /\ pc[u] \in Rehashing => size'[oldArr[u]] = size[oldArr[u]]
      /\ pc[u] \in Resize \ {"rload"} => size'[rarr[u]] = size[rarr[u]]
  BY <1>2, SizesStay
<1>4. HeldShape(u) /\ SharedShape(u)
  BY DEF Locks
<1>5. HeldShape(u)'
  BY <1>1, <1>3, <1>4 DEF HeldShape, Loaded, Rehashing, From, Home, At, BucketOf, Index,
                          Span, Moving
<1>6. SharedShape(u)'
  BY <1>1, <1>3, <1>4 DEF SharedShape, Loaded, Rehashing, Resize, Home, BucketOf, Index,
                          BucketsOf
<1> QED BY <1>5, <1>6

\* A step of t keeps a locked bucket to one writer, and to no writer and reader at
\* once.
LEMMA ExclusionOwn ==
  ASSUME Structure, Locks, NEW t \in Threads, Step(t)
  PROVE  Exclusion'
<1>1. Exclusion /\ held \in [Threads -> SUBSET Buckets] /\ shared \in [Threads -> SUBSET Buckets]
  BY DEF Locks, Structure, TypeInv
<1>2. pc[t] = "relocate" => From(t) \in held[t]
  BY DEF Locks, HeldShape
<1> USE DEF arrayVars, bucketVars, lockVars, callVars, moveVars, localVars,
          Goto, Exclusion, LockedX, Locked
<1>3. ASSUME NEW o \in Ops[type][t], NEW k \in Keys, Begin(t, o, k)
      PROVE  Exclusion'
  BY <1>3, <1>1, <1>2 DEF Begin, Offered
<1>4. CASE Load(t)
  BY <1>4, <1>1, <1>2 DEF Load, Allocate, Fresh, NotFound, Reserves
<1>5. CASE LoadOld(t)
  BY <1>5, <1>1, <1>2 DEF LoadOld, Work, Reserves
<1>6. CASE Claim(t)
  BY <1>6, <1>1, <1>2 DEF Claim, Claimable
<1>7. CASE LockOld(t)
  BY <1>7, <1>1, <1>2 DEF LockOld, NextBucket, GiveUp
<1>8. ASSUME NEW k \in Keys, LockTarget(t, k)
      PROVE  Exclusion'
  BY <1>8, <1>1, <1>2 DEF LockTarget, GiveUp
<1>9. ASSUME NEW k \in Keys, MoveEntry(t, k)
      PROVE  Exclusion'
  BY <1>9, <1>1, <1>2 DEF MoveEntry
<1>10. CASE EraseOld(t)
  BY <1>10, <1>1, <1>2 DEF EraseOld
<1>11. CASE Emptied(t)
  BY <1>11, <1>1, <1>2 DEF Emptied
<1>12. CASE Kill(t)
  BY <1>12, <1>1, <1>2 DEF Kill, NextBucket
<1>13. CASE Success(t)
  BY <1>13, <1>1, <1>2 DEF Success
<1>14. CASE DropOld(t)
  BY <1>14, <1>1, <1>2 DEF DropOld
<1>15. CASE Fail(t)
  BY <1>15, <1>1, <1>2 DEF Fail
<1>16. CASE Check(t)
  BY <1>16, <1>1, <1>2 DEF Check, AfterRehash, Work
<1>17. CASE LockFails(t)
  BY <1>17, <1>1, <1>2 DEF LockFails, Lookup
<1>18. CASE InsertEntry(t)
  BY <1>18, <1>1, <1>2 DEF InsertEntry, Hold, Lockable, Lockable
<1>19. CASE ReserveEntry(t)
  BY <1>19, <1>1, <1>2 DEF ReserveEntry, Hold, Lockable
<1>20. CASE RemoveEntry(t)
  BY <1>20, <1>1, <1>2 DEF RemoveEntry, Hold, Gone, Lockable
<1>21. CASE GetEntry(t)
  BY <1>21, <1>1, <1>2 DEF GetEntry, Hold, Lockable
<1>22. CASE ReadEntry(t)
  BY <1>22, <1>1, <1>2 DEF ReadEntry
<1>23. CASE VacantInsert(t)
  BY <1>23, <1>1, <1>2 DEF VacantInsert
<1>24. ASSUME NEW k \in Keys, OccupiedRemove(t, k)
      PROVE  Exclusion'
  BY <1>24, <1>1, <1>2 DEF OccupiedRemove
<1>25. CASE Release(t)
  BY <1>25, <1>1, <1>2 DEF Release
<1>26. CASE ReleaseReader(t)
  BY <1>26, <1>1, <1>2 DEF ReleaseReader
<1>27. CASE SearchOld(t)
  BY <1>27, <1>1, <1>2 DEF SearchOld
<1>28. CASE Search(t)
  BY <1>28, <1>1, <1>2 DEF Search
<1>29. CASE Reload(t)
  BY <1>29, <1>1, <1>2 DEF Reload, NotFound
<1>30. CASE ResizeLoad(t)
  BY <1>30, <1>1, <1>2 DEF ResizeLoad, AfterResize, Reserves
<1>31. CASE ResizeTag(t)
  BY <1>31, <1>1, <1>2 DEF ResizeTag, AfterResize, Reserves
<1>32. CASE DropLock(t)
  BY <1>32, <1>1, <1>2 DEF DropLock, DropCheck
<1>33. CASE DropSwap(t)
  BY <1>33, <1>1, <1>2 DEF DropSwap
<1>34. CASE DropKill(t)
  BY <1>34, <1>1, <1>2 DEF DropKill, AfterResize, Reserves
<1>35. CASE ResizeAlloc(t)
  BY <1>35, <1>1, <1>2 DEF ResizeAlloc, AfterResize, Allocate, Fresh,
     Reserves
<1>36. CASE ResizeKeep(t)
  BY <1>36, <1>1, <1>2 DEF ResizeKeep, AfterResize, Reserves
<1>37. CASE End(t)
  BY <1>37, <1>1, <1>2 DEF End, Return
<1>38. CASE AnyBucket(t)
  BY <1>38, <1>1, <1>2 DEF AnyBucket, GoOn, Scanning
<1>39. CASE RetainBucket(t)
  BY <1>39, <1>1, <1>2 DEF RetainBucket, GoOn, Scanning
<1>40. CASE PruneBucket(t)
  BY <1>40, <1>1, <1>2 DEF PruneBucket, GoOn, Scanning
<1>41. CASE WalkBucket(t)
  BY <1>41, <1>1, <1>2 DEF WalkBucket, GoOn, Scanning
<1>42. CASE WalkNext(t)
  BY <1>42, <1>1, <1>2 DEF WalkNext, Restarts
<1>43. CASE ScanEnd(t)
  BY <1>43, <1>1, <1>2 DEF ScanEnd
<1>44. CASE TryResize(t)
  BY <1>44, <1>1, <1>2 DEF TryResize
<1>45. CASE IterStart(t)
  BY <1>45, <1>1, <1>2 DEF IterStart, OldFirst
<1>46. CASE IterBucket(t)
  BY <1>46, <1>1, <1>2 DEF IterBucket, GoOn
<1>47. CASE IterEnd(t)
  BY <1>47, <1>1, <1>2 DEF IterEnd
<1>48. CASE IterSwitch(t)
  BY <1>48, <1>1, <1>2 DEF IterSwitch, IterFrom, OldFirst
<1>49. CASE ScanReturn(t)
  BY <1>49, <1>1, <1>2 DEF ScanReturn, Return
<1> QED BY <1>3, <1>4, <1>5, <1>6, <1>7, <1>8, <1>9, <1>10, <1>11, <1>12,
           <1>13, <1>14, <1>15, <1>16, <1>17, <1>18, <1>19, <1>20, <1>21,
           <1>22, <1>23, <1>24, <1>25, <1>26, <1>27, <1>28, <1>29, <1>30,
           <1>31, <1>32, <1>33, <1>34, <1>35, <1>36, <1>37, <1>38, <1>39,
           <1>40, <1>41, <1>42, <1>43, <1>44, <1>45, <1>46, <1>47, <1>48,
           <1>49
        DEF Step, TableStep, ScanStep

\* A step of t keeps what it holds for writing, by where it is.
LEMMA HeldOwn ==
  ASSUME Structure, Locks, BucketsInv, NEW t \in Threads, Step(t)
  PROVE  HeldShape(t)'
<1>1. /\ HeldShape(t) /\ PosShape(t) /\ OpShape(t)
      /\ held \in [Threads -> SUBSET Buckets] /\ pc \in [Threads -> PCs]
      /\ arr \in [Threads -> Pointers] /\ oldArr \in [Threads -> Pointers]
      /\ pos \in [Threads -> Nat] /\ key \in [Threads -> Keys \cup {Null}]
  BY DEF Locks, Structure, TypeInv
<1> USE DEF arrayVars, bucketVars, lockVars, callVars, moveVars, localVars,
          Goto, HeldShape, From, Home, At, BucketOf, Index, Span, Moving
<1>2. ASSUME NEW o \in Ops[type][t], NEW k \in Keys, Begin(t, o, k)
      PROVE  HeldShape(t)'
  BY <1>2, <1>1 DEF Begin, Offered
<1>3. CASE Load(t)
  BY <1>3, <1>1 DEF Load, Allocate, Fresh, NotFound, Reserves
<1>4. CASE LoadOld(t)
  BY <1>4, <1>1 DEF LoadOld, Work, Reserves
<1>5. CASE Claim(t)
  BY <1>5, <1>1 DEF Claim, Claimable
<1>6. CASE LockOld(t)
  BY <1>6, <1>1 DEF LockOld, NextBucket, GiveUp, PosShape, Rehashing
<1>7. ASSUME NEW k \in Keys, LockTarget(t, k)
      PROVE  HeldShape(t)'
  <2>1. /\ Allocated(arr[t]) /\ Allocated(oldArr[t]) /\ pos[t] < size[oldArr[t]]
        /\ From(t) \in Buckets
    BY <1>7, BucketsFacts DEF Structure, ArrShape, PosShape, TypeInv, LockTarget, Loaded,
                            Rehashing, AtBucket, From, Allocated
  <2>2. Index(oldArr[t], k) = pos[t] /\ TypeInv
    BY <1>7, <2>1 DEF LockTarget, BucketsInv, BucketOf, From, Structure
  <2>3. \A b \in Targets(t, k) : b[1] = arr[t] /\ b[2] \in Span(arr[t], oldArr[t], pos[t])
    <3> SUFFICES ASSUME NEW i \in (pos[t] * size[arr[t]]) \div size[oldArr[t]] .. Index(arr[t], k)
                 PROVE  i \in Span(arr[t], oldArr[t], pos[t])
      BY DEF Targets
    <3>1. (pos[t] * size[arr[t]]) \div size[oldArr[t]] \in Nat /\ Index(arr[t], k) \in Nat
      BY <2>1, <2>2, SpanFirst, IndexBound
    <3>2. i \in Nat /\ i <= Index(arr[t], k) /\ (pos[t] * size[arr[t]]) \div size[oldArr[t]] <= i
      BY <3>1
    <3> QED BY <2>1, <2>2, <3>2, SpanTargets
  <2> HIDE DEF Index, BucketOf
  <2> QED BY <1>7, <1>1, <2>3 DEF LockTarget, GiveUp
<1>8. ASSUME NEW k \in Keys, MoveEntry(t, k)
      PROVE  HeldShape(t)'
  BY <1>8, <1>1 DEF MoveEntry
<1>9. CASE EraseOld(t)
  BY <1>9, <1>1 DEF EraseOld
<1>10. CASE Emptied(t)
  BY <1>10, <1>1 DEF Emptied
<1>11. CASE Kill(t)
  BY <1>11, <1>1 DEF Kill, NextBucket
<1>12. CASE Success(t)
  BY <1>12, <1>1 DEF Success
<1>13. CASE DropOld(t)
  BY <1>13, <1>1 DEF DropOld
<1>14. CASE Fail(t)
  BY <1>14, <1>1 DEF Fail
<1>15. CASE Check(t)
  BY <1>15, <1>1 DEF Check, AfterRehash, Work
<1>16. CASE LockFails(t)
  BY <1>16, <1>1 DEF LockFails, Lookup
<1>17. CASE InsertEntry(t)
  BY <1>17, <1>1 DEF InsertEntry, Hold, Lockable
<1>18. CASE ReserveEntry(t)
  BY <1>18, <1>1 DEF ReserveEntry, Hold, Lockable
<1>19. CASE RemoveEntry(t)
  BY <1>19, <1>1 DEF RemoveEntry, Hold, Gone, Lockable
<1>20. CASE GetEntry(t)
  BY <1>20, <1>1 DEF GetEntry, Hold, Lockable
<1>21. CASE ReadEntry(t)
  BY <1>21, <1>1 DEF ReadEntry
<1>22. CASE VacantInsert(t)
  BY <1>22, <1>1 DEF VacantInsert
<1>23. ASSUME NEW k \in Keys, OccupiedRemove(t, k)
      PROVE  HeldShape(t)'
  <2>1. pc[t] = "occupied" => At(t) = BucketOf(arr[t], k)
    BY <1>23, <1>1 DEF OccupiedRemove, BucketsInv
  <2>2. held'[t] = held[t] /\ arr'[t] = arr[t] /\ key'[t] = k /\ pc'[t] = "hold" /\ size' = size
        /\ (pc[t] = "hold" => k = key[t]) /\ pc[t] \in {"hold", "occupied"}
    BY <1>23, <1>1 DEF OccupiedRemove
  <2> QED BY <1>1, <2>1, <2>2
<1>24. CASE Release(t)
  BY <1>24, <1>1 DEF Release
<1>25. CASE ReleaseReader(t)
  BY <1>25, <1>1 DEF ReleaseReader
<1>26. CASE SearchOld(t)
  BY <1>26, <1>1 DEF SearchOld
<1>27. CASE Search(t)
  BY <1>27, <1>1 DEF Search
<1>28. CASE Reload(t)
  BY <1>28, <1>1 DEF Reload, NotFound
<1>29. CASE ResizeLoad(t)
  BY <1>29, <1>1 DEF ResizeLoad, AfterResize, Reserves
<1>30. CASE ResizeTag(t)
  BY <1>30, <1>1 DEF ResizeTag, AfterResize, Reserves
<1>31. CASE DropLock(t)
  BY <1>31, <1>1 DEF DropLock
<1>32. CASE DropSwap(t)
  BY <1>32, <1>1 DEF DropSwap
<1>33. CASE DropKill(t)
  BY <1>33, <1>1 DEF DropKill, AfterResize, Reserves
<1>34. CASE ResizeAlloc(t)
  BY <1>34, <1>1 DEF ResizeAlloc, AfterResize, Allocate, Fresh, Reserves
<1>35. CASE ResizeKeep(t)
  BY <1>35, <1>1 DEF ResizeKeep, AfterResize, Reserves
<1>36. CASE End(t)
  BY <1>36, <1>1 DEF End, Return
<1>37. CASE AnyBucket(t)
  BY <1>37, <1>1 DEF AnyBucket, GoOn, Scanning
<1>38. CASE RetainBucket(t)
  BY <1>38, <1>1 DEF RetainBucket, GoOn, Scanning
<1>39. CASE PruneBucket(t)
  BY <1>39, <1>1 DEF PruneBucket, GoOn, Scanning
<1>40. CASE WalkBucket(t)
  BY <1>40, <1>1 DEF WalkBucket, GoOn, Scanning
<1>41. CASE WalkNext(t)
  BY <1>41, <1>1 DEF WalkNext, Restarts
<1>42. CASE ScanEnd(t)
  BY <1>42, <1>1 DEF ScanEnd
<1>43. CASE TryResize(t)
  BY <1>43, <1>1 DEF TryResize
<1>44. CASE IterStart(t)
  BY <1>44, <1>1 DEF IterStart, OldFirst
<1>45. CASE IterBucket(t)
  BY <1>45, <1>1 DEF IterBucket, GoOn
<1>46. CASE IterEnd(t)
  BY <1>46, <1>1 DEF IterEnd
<1>47. CASE IterSwitch(t)
  BY <1>47, <1>1 DEF IterSwitch, IterFrom, OldFirst
<1>48. CASE ScanReturn(t)
  BY <1>48, <1>1 DEF ScanReturn, Return
<1> QED BY <1>2, <1>3, <1>4, <1>5, <1>6, <1>7, <1>8, <1>9, <1>10, <1>11,
           <1>12, <1>13, <1>14, <1>15, <1>16, <1>17, <1>18, <1>19, <1>20,
           <1>21, <1>22, <1>23, <1>24, <1>25, <1>26, <1>27, <1>28, <1>29,
           <1>30, <1>31, <1>32, <1>33, <1>34, <1>35, <1>36, <1>37, <1>38,
           <1>39, <1>40, <1>41, <1>42, <1>43, <1>44, <1>45, <1>46, <1>47,
           <1>48
        DEF Step, TableStep, ScanStep

\* A step of t keeps what it holds for reading, by where it is.
LEMMA SharedOwn ==
  ASSUME Structure, Locks, NEW t \in Threads, Step(t)
  PROVE  SharedShape(t)'
<1>1. /\ SharedShape(t) /\ PosShape(t) /\ OpShape(t)
      /\ shared \in [Threads -> SUBSET Buckets] /\ pc \in [Threads -> PCs]
      /\ arr \in [Threads -> Pointers] /\ rarr \in [Threads -> Pointers]
      /\ pos \in [Threads -> Nat] /\ key \in [Threads -> Keys \cup {Null}]
      /\ pos[t] \in Nat /\ \A a \in Arrays : size[a] \in Nat
  BY OwnFacts DEF Locks, Structure, TypeInv
<1>2. pc[t] \in {"rdrop", "rswap", "rkill"} => size[rarr[t]] \in Nat /\ size[rarr[t]] # 0
  BY <1>1 DEF Structure, ResizeShape, ArrShape, Resize, Allocated
<1> USE DEF arrayVars, bucketVars, lockVars, callVars, moveVars, localVars,
          Goto, SharedShape, Home, BucketOf, Index, BucketsOf
<1>3. ASSUME NEW o \in Ops[type][t], NEW k \in Keys, Begin(t, o, k)
      PROVE  SharedShape(t)'
  BY <1>3, <1>1, <1>2 DEF Begin, Offered
<1>4. CASE Load(t)
  BY <1>4, <1>1, <1>2 DEF Load, Allocate, Fresh, NotFound, Reserves
<1>5. CASE LoadOld(t)
  BY <1>5, <1>1, <1>2 DEF LoadOld, Work, Reserves
<1>6. CASE Claim(t)
  BY <1>6, <1>1, <1>2 DEF Claim, Claimable
<1>7. CASE LockOld(t)
  BY <1>7, <1>1, <1>2 DEF LockOld, NextBucket, GiveUp
<1>8. ASSUME NEW k \in Keys, LockTarget(t, k)
      PROVE  SharedShape(t)'
  BY <1>8, <1>1, <1>2 DEF LockTarget, GiveUp
<1>9. ASSUME NEW k \in Keys, MoveEntry(t, k)
      PROVE  SharedShape(t)'
  BY <1>9, <1>1, <1>2 DEF MoveEntry
<1>10. CASE EraseOld(t)
  BY <1>10, <1>1, <1>2 DEF EraseOld
<1>11. CASE Emptied(t)
  BY <1>11, <1>1, <1>2 DEF Emptied
<1>12. CASE Kill(t)
  BY <1>12, <1>1, <1>2 DEF Kill, NextBucket
<1>13. CASE Success(t)
  BY <1>13, <1>1, <1>2 DEF Success
<1>14. CASE DropOld(t)
  BY <1>14, <1>1, <1>2 DEF DropOld
<1>15. CASE Fail(t)
  BY <1>15, <1>1, <1>2 DEF Fail
<1>16. CASE Check(t)
  BY <1>16, <1>1, <1>2 DEF Check, AfterRehash, Work
<1>17. CASE LockFails(t)
  BY <1>17, <1>1, <1>2 DEF LockFails, Lookup
<1>18. CASE InsertEntry(t)
  BY <1>18, <1>1, <1>2 DEF InsertEntry, Hold, Lockable
<1>19. CASE ReserveEntry(t)
  BY <1>19, <1>1, <1>2 DEF ReserveEntry, Hold, Lockable
<1>20. CASE RemoveEntry(t)
  BY <1>20, <1>1, <1>2 DEF RemoveEntry, Hold, Gone, Lockable
<1>21. CASE GetEntry(t)
  BY <1>21, <1>1, <1>2 DEF GetEntry, Hold, Lockable
<1>22. CASE ReadEntry(t)
  BY <1>22, <1>1, <1>2 DEF ReadEntry
<1>23. CASE VacantInsert(t)
  BY <1>23, <1>1, <1>2 DEF VacantInsert
<1>24. ASSUME NEW k \in Keys, OccupiedRemove(t, k)
      PROVE  SharedShape(t)'
  BY <1>24, <1>1, <1>2 DEF OccupiedRemove
<1>25. CASE Release(t)
  BY <1>25, <1>1, <1>2 DEF Release
<1>26. CASE ReleaseReader(t)
  BY <1>26, <1>1, <1>2 DEF ReleaseReader
<1>27. CASE SearchOld(t)
  BY <1>27, <1>1, <1>2 DEF SearchOld
<1>28. CASE Search(t)
  BY <1>28, <1>1, <1>2 DEF Search
<1>29. CASE Reload(t)
  BY <1>29, <1>1, <1>2 DEF Reload, NotFound
<1>30. CASE ResizeLoad(t)
  BY <1>30, <1>1, <1>2 DEF ResizeLoad, AfterResize, Reserves
<1>31. CASE ResizeTag(t)
  BY <1>31, <1>1, <1>2 DEF ResizeTag, AfterResize, Reserves, PosShape,
     AtStart
<1>32. CASE DropLock(t)
  BY <1>32, <1>1, <1>2 DEF DropLock, PosShape, AtStart
<1>33. CASE DropSwap(t)
  BY <1>33, <1>1, <1>2 DEF DropSwap
<1>34. CASE DropKill(t)
  BY <1>34, <1>1, <1>2 DEF DropKill, AfterResize, Reserves, PosShape
<1>35. CASE ResizeAlloc(t)
  BY <1>35, <1>1, <1>2 DEF ResizeAlloc, AfterResize, Allocate, Fresh,
     Reserves
<1>36. CASE ResizeKeep(t)
  BY <1>36, <1>1, <1>2 DEF ResizeKeep, AfterResize, Reserves
<1>37. CASE End(t)
  BY <1>37, <1>1, <1>2 DEF End, Return
<1>38. CASE AnyBucket(t)
  BY <1>38, <1>1, <1>2 DEF AnyBucket, GoOn, Scanning
<1>39. CASE RetainBucket(t)
  BY <1>39, <1>1, <1>2 DEF RetainBucket, GoOn, Scanning
<1>40. CASE PruneBucket(t)
  BY <1>40, <1>1, <1>2 DEF PruneBucket, GoOn, Scanning
<1>41. CASE WalkBucket(t)
  BY <1>41, <1>1, <1>2 DEF WalkBucket, GoOn, Scanning
<1>42. CASE WalkNext(t)
  BY <1>42, <1>1, <1>2 DEF WalkNext, Restarts
<1>43. CASE ScanEnd(t)
  BY <1>43, <1>1, <1>2 DEF ScanEnd
<1>44. CASE TryResize(t)
  BY <1>44, <1>1, <1>2 DEF TryResize
<1>45. CASE IterStart(t)
  BY <1>45, <1>1, <1>2 DEF IterStart, OldFirst
<1>46. CASE IterBucket(t)
  BY <1>46, <1>1, <1>2 DEF IterBucket, GoOn
<1>47. CASE IterEnd(t)
  BY <1>47, <1>1, <1>2 DEF IterEnd
<1>48. CASE IterSwitch(t)
  BY <1>48, <1>1, <1>2 DEF IterSwitch, IterFrom, OldFirst
<1>49. CASE ScanReturn(t)
  BY <1>49, <1>1, <1>2 DEF ScanReturn, Return
<1> QED BY <1>3, <1>4, <1>5, <1>6, <1>7, <1>8, <1>9, <1>10, <1>11, <1>12,
           <1>13, <1>14, <1>15, <1>16, <1>17, <1>18, <1>19, <1>20, <1>21,
           <1>22, <1>23, <1>24, <1>25, <1>26, <1>27, <1>28, <1>29, <1>30,
           <1>31, <1>32, <1>33, <1>34, <1>35, <1>36, <1>37, <1>38, <1>39,
           <1>40, <1>41, <1>42, <1>43, <1>44, <1>45, <1>46, <1>47, <1>48,
           <1>49
        DEF Step, TableStep, ScanStep

\* Every step keeps the invariant of the locks.
LEMMA LocksStep == ASSUME Structure, Locks, BucketsInv, [Next]_vars PROVE Locks'
<1>1. ASSUME NEW t \in Threads, Step(t) PROVE Locks'
  BY <1>1, ExclusionOwn, HeldOwn, SharedOwn, LocksOther DEF Locks
<1>2. CASE UNCHANGED vars
  BY <1>2 DEF vars, Locks, Exclusion, HeldShape, SharedShape, From, Home, At, BucketOf, Index,
              BucketsOf, Span
<1> QED BY <1>1, <1>2 DEF Next, Step

-----------------------------------------------------------------------------
(* Who writes what                                                          *)

\* The steps that move, erase, insert or remove entries.
LEMMA EntriesSteps ==
  ASSUME NEW t \in Threads, Step(t)
  PROVE  \/ entries' = entries
         \/ \E k \in Keys : MoveEntry(t, k)
         \/ EraseOld(t)
         \/ InsertEntry(t)
         \/ RemoveEntry(t)
         \/ VacantInsert(t)
         \/ \E k \in Keys : OccupiedRemove(t, k)
         \/ RetainBucket(t)
         \/ PruneBucket(t)
<1> USE DEF arrayVars, bucketVars, lockVars, callVars, moveVars, localVars
<1> QED BY DEF Step, TableStep, ScanStep, Begin, Load, LoadOld, Claim,
           LockOld, LockTarget, Emptied, Kill, Success, DropOld, Fail, Check,
           LockFails, ReserveEntry, GetEntry, ReadEntry, Release,
           ReleaseReader, SearchOld, Search, Reload, ResizeLoad, ResizeTag,
           DropLock, DropSwap, DropKill, ResizeAlloc, ResizeKeep, End,
           AnyBucket, WalkBucket, WalkNext, ScanEnd, TryResize, IterStart,
           IterBucket, IterEnd, IterSwitch, ScanReturn

\* The steps that kill a bucket.
LEMMA KilledSteps ==
  ASSUME NEW t \in Threads, Step(t)
  PROVE  \/ killed' = killed
         \/ Kill(t) /\ killed' = killed \cup {From(t)}
         \/ DropKill(t) /\ killed' = killed \cup {<<rarr[t], pos[t]>>}
<1> USE DEF arrayVars, bucketVars, lockVars, callVars, moveVars, localVars
<1> QED BY ZenonT(60) DEF Step, TableStep, ScanStep, Begin, Load, LoadOld, Claim,
           LockOld, LockTarget, MoveEntry, EraseOld, Emptied, Kill, Success,
           DropOld, Fail, Check, LockFails, InsertEntry, ReserveEntry,
           RemoveEntry, GetEntry, ReadEntry, VacantInsert, OccupiedRemove,
           Release, ReleaseReader, SearchOld, Search, Reload, ResizeLoad,
           ResizeTag, DropLock, DropSwap, DropKill, ResizeAlloc, ResizeKeep,
           End, AnyBucket, RetainBucket, PruneBucket, WalkBucket, WalkNext,
           ScanEnd, TryResize, IterStart, IterBucket, IterEnd, IterSwitch,
           ScanReturn

\* The steps that change the arrays.
LEMMA ArraySteps ==
  ASSUME NEW t \in Threads, Step(t)
  PROVE  \/ array' = array /\ old' = old /\ size' = size
         \/ Load(t) /\ array = Null
         \/ DropOld(t) \/ DropSwap(t) \/ ResizeAlloc(t)
<1> USE DEF arrayVars, bucketVars, lockVars, callVars, moveVars, localVars
<1> QED BY DEF Step, TableStep, ScanStep, Begin, Load, LoadOld, Claim,
           LockOld, LockTarget, MoveEntry, EraseOld, Emptied, Kill, Success,
           Fail, Check, LockFails, InsertEntry, ReserveEntry, RemoveEntry,
           GetEntry, ReadEntry, VacantInsert, OccupiedRemove, Release,
           ReleaseReader, SearchOld, Search, Reload, ResizeLoad, ResizeTag,
           DropLock, DropKill, ResizeKeep, End, AnyBucket, RetainBucket,
           PruneBucket, WalkBucket, WalkNext, ScanEnd, TryResize, IterStart,
           IterBucket, IterEnd, IterSwitch, ScanReturn

-----------------------------------------------------------------------------
(* BucketsInv is inductive                                                  *)

\* Whoever has an old array at hand does not take the current one for it.
LEMMA OldIsNotCurrent ==
  ASSUME Structure, NEW t \in Threads, pc[t] \in Rehashing
  PROVE  /\ arr[t] \in Arrays /\ oldArr[t] \in Arrays
         /\ Allocated(arr[t]) /\ Allocated(oldArr[t]) /\ oldArr[t] # array
         /\ oldArr[t] # arr[t]
<1>1. arr[t] \in Arrays /\ oldArr[t] \in Arrays /\ Allocated(arr[t]) /\ Allocated(oldArr[t])
      /\ oldArr[t] < arr[t]
  BY DEF Structure, TypeInv, ArrShape, Pointers, Loaded
<1>2. array # Null => array \in Nat /\ arr[t] <= array
  BY <1>1 DEF Structure, TypeInv, ArraysInv, Pointers, Arrays
<1> QED BY <1>1, <1>2 DEF Arrays, Null

\* The bucket of a thread's key and the old bucket it is at are buckets.
LEMMA BucketsAtHand ==
  ASSUME Structure, NEW t \in Threads
  PROVE  /\ pc[t] \in AtBucket => From(t) \in Buckets /\ From(t) \in BucketsOf(oldArr[t])
         /\ pc[t] \in {"lock", "hold", "holdS"} =>
              Allocated(arr[t]) /\ Home(t) \in Buckets /\ key[t] \in Keys
              /\ Home(t) \in BucketsOf(arr[t])
         /\ pc[t] \in {"rdrop", "rkill"} =>
              Allocated(rarr[t]) /\ <<rarr[t], pos[t]>> \in Buckets
         /\ Scanning(t) \/ pc[t] = "occupied" => Allocated(arr[t]) /\ At(t) \in Buckets
<1>1. /\ OpShape(t) /\ ArrShape(t) /\ ResizeShape(t) /\ PosShape(t) /\ TypeInv
      /\ arr[t] \in Pointers /\ oldArr[t] \in Pointers /\ rarr[t] \in Pointers
      /\ pos[t] \in Nat
  BY OwnFacts DEF Structure
<1>2. \A a \in Arrays, i \in Nat : i < size[a] => <<a, i>> \in Buckets /\ <<a, i>> \in BucketsOf(a)
  BY <1>1, BucketsFacts
<1>3. \A a \in Arrays, k \in Keys : Allocated(a) => BucketOf(a, k) \in Buckets /\ BucketOf(a, k) \in BucketsOf(a)
  BY <1>1, IndexBound
<1>4. pc[t] \in AtBucket => From(t) \in Buckets /\ From(t) \in BucketsOf(oldArr[t])
  BY <1>1, <1>2 DEF From, AtBucket, ArrShape, PosShape, Rehashing, Loaded, Pointers
<1>5. pc[t] \in {"lock", "hold", "holdS"} =>
        Allocated(arr[t]) /\ Home(t) \in Buckets /\ key[t] \in Keys
        /\ Home(t) \in BucketsOf(arr[t])
  BY <1>1, <1>3 DEF Home, OpShape, ArrShape, Loaded, Pointers
<1>6. pc[t] \in {"rdrop", "rkill"} => Allocated(rarr[t]) /\ <<rarr[t], pos[t]>> \in Buckets
  BY <1>1, <1>2 DEF PosShape, ArrShape, ResizeShape, Resize, Pointers
<1>7. Scanning(t) \/ pc[t] = "occupied" => Allocated(arr[t]) /\ At(t) \in Buckets
  BY <1>1, <1>2 DEF Scanning, PosShape, ArrShape, Loaded, Pointers, At
<1> QED BY <1>4, <1>5, <1>6, <1>7

\* The target of an entry is among those locked for it.
LEMMA TargetOfEntry ==
  ASSUME Structure, BucketsInv, NEW t \in Threads, pc[t] = "relocate",
         NEW k \in Keys, k \in entries[From(t)]
  PROVE  /\ Index(oldArr[t], k) = pos[t] /\ From(t) = BucketOf(oldArr[t], k)
         /\ BucketOf(arr[t], k) \in Targets(t, k) /\ BucketOf(arr[t], k) \in Buckets
<1>1. /\ Allocated(arr[t]) /\ Allocated(oldArr[t]) /\ From(t) \in Buckets /\ TypeInv
  BY OldIsNotCurrent, BucketsAtHand DEF Rehashing, AtBucket, Structure
<1>2. Index(oldArr[t], k) = pos[t] /\ From(t) = BucketOf(oldArr[t], k)
  BY <1>1 DEF BucketsInv, BucketOf, From
<1>3. /\ (pos[t] * size[arr[t]]) \div size[oldArr[t]] \in Nat
      /\ (pos[t] * size[arr[t]]) \div size[oldArr[t]] <= Index(arr[t], k)
      /\ Index(arr[t], k) \in Nat /\ BucketOf(arr[t], k) \in Buckets
  BY <1>1, <1>2, SpanFirst, IndexBound
<1>4. Index(arr[t], k) \in (pos[t] * size[arr[t]]) \div size[oldArr[t]] .. Index(arr[t], k)
  BY <1>3
<1> QED BY <1>2, <1>3, <1>4 DEF Targets, BucketOf

\* Buckets are written by whoever has them locked, and what is added goes to
\* the bucket of its hash, which is not killed.
LEMMA Writes ==
  ASSUME Structure, Locks, BucketsInv, NEW t \in Threads, Step(t), NEW b \in Buckets
  PROVE  /\ entries'[b] # entries[b] => b \in held[t] \/ ~Locked(b)
         /\ \A k \in Keys : k \in entries'[b] /\ k \notin entries[b] =>
              /\ b \in held'[t] /\ b \notin killed /\ Allocated(b[1])
              /\ b = BucketOf(b[1], k)
              /\ pc[t] \in {"relocate", "lock", "hold"}
<1> DEFINE P == /\ entries'[b] # entries[b] => b \in held[t] \/ ~Locked(b)
                /\ \A k \in Keys : k \in entries'[b] /\ k \notin entries[b] =>
                     /\ b \in held'[t] /\ b \notin killed /\ Allocated(b[1])
                     /\ b = BucketOf(b[1], k)
                     /\ pc[t] \in {"relocate", "lock", "hold"}
<1>1. /\ entries \in [Buckets -> SUBSET Keys] /\ held \in [Threads -> SUBSET Buckets]
      /\ HeldShape(t) /\ held[t] \cap killed = {} /\ TypeInv
  BY DEF Structure, TypeInv, Locks, BucketsInv
<1> USE DEF arrayVars, bucketVars, lockVars, callVars, moveVars, localVars, Goto
<1>2. CASE entries' = entries
  BY <1>2
<1>3. ASSUME NEW k \in Keys, MoveEntry(t, k) PROVE P
  <2>1. Allocated(arr[t]) /\ From(t) \in held[t]
    BY <1>1, <1>3, OldIsNotCurrent DEF MoveEntry, Rehashing, HeldShape
  <2>2. BucketOf(arr[t], k) \in held[t] /\ BucketOf(arr[t], k) \in Buckets
    BY <1>3, TargetOfEntry DEF MoveEntry
  <2> QED BY <1>1, <1>3, <2>1, <2>2 DEF MoveEntry, BucketOf
<1>4. CASE EraseOld(t)
  BY <1>1, <1>4 DEF EraseOld, HeldShape
<1>5. CASE InsertEntry(t) \/ RemoveEntry(t) \/ VacantInsert(t)
  <2>1. pc[t] \in {"lock", "hold"}
    BY <1>5 DEF InsertEntry, RemoveEntry, VacantInsert, Lockable
  <2>2. /\ Allocated(arr[t]) /\ Home(t) \in Buckets /\ key[t] \in Keys
        /\ Home(t)[1] = arr[t] /\ Home(t) = BucketOf(Home(t)[1], key[t])
    BY <2>1, BucketsAtHand DEF Home, BucketOf
  <2> QED BY <1>1, <1>5, <2>1, <2>2
          DEF InsertEntry, RemoveEntry, VacantInsert, Lockable, Hold, Killed, HeldShape
<1>6. ASSUME NEW k \in Keys, OccupiedRemove(t, k) PROVE P
  BY <1>1, <1>6 DEF OccupiedRemove
<1>7. CASE RetainBucket(t) \/ PruneBucket(t)
  BY ZenonT(60), <1>1, <1>7 DEF RetainBucket, PruneBucket
<1> QED BY <1>2, <1>3, <1>4, <1>5, <1>6, <1>7, EntriesSteps

\* Entries are moved from the old array into the current one.
LEMMA Current ==
  ASSUME Structure, Locks, BucketsInv, Detached, NEW t \in Threads, pc[t] \in Moving
  PROVE  arr[t] = array /\ oldArr[t] = old[array] /\ array # Null
<1>1. From(t) \in held[t] /\ From(t) \in BucketsOf(oldArr[t])
  BY BucketsAtHand DEF Locks, HeldShape, Moving, AtBucket
<1>2. From(t) \notin killed /\ \A u \in Threads : From(t) \notin shared[u] \/ pc[u] # "rkill"
  BY <1>1 DEF BucketsInv, Locks, Exclusion, Moving
<1>3. /\ oldArr[t] \in Arrays /\ oldArr[t] # array /\ oldArr[t] # Null
      /\ \A a \in Arrays : old[a] = oldArr[t] => a = arr[t]
  BY OldIsNotCurrent DEF Structure, ArrShape, Moving, Rehashing
<1>4. oldArr[t] \in Reachable
  BY <1>1, <1>2, <1>3 DEF Detached
<1>5. array \in Arrays /\ oldArr[t] = old[array]
  BY <1>3, <1>4 DEF Reachable, Structure, TypeInv, Pointers
<1> QED BY <1>3, <1>5 DEF Arrays, Null

\* No target is killed.
LEMMA TargetNotKilled ==
  ASSUME Structure, Locks, BucketsInv, Detached, NEW t \in Threads, pc[t] \in Moving,
         NEW k, NEW b \in Targets(t, k)
  PROVE  b \notin killed
<1>1. b[1] = arr[t]
  BY DEF Targets
<1> QED BY <1>1, Current DEF BucketsInv

\* What a thread locks is not killed.
LEMMA HeldGrows ==
  ASSUME Structure, Locks, BucketsInv, Detached, NEW t \in Threads, Step(t)
  PROVE  held'[t] \cap killed = {}
<1>1. held[t] \cap killed = {} /\ held \in [Threads -> SUBSET Buckets] /\ HeldShape(t)
  BY DEF BucketsInv, Structure, TypeInv, Locks
<1>2. ASSUME pc[t] = "relocate", NEW k \in Keys, NEW b \in Targets(t, k) PROVE b \notin killed
  BY <1>2, TargetNotKilled DEF Moving
<1> USE DEF arrayVars, bucketVars, lockVars, callVars, moveVars, localVars,
          Goto
<1>3. ASSUME NEW o \in Ops[type][t], NEW k \in Keys, Begin(t, o, k)
      PROVE  held'[t] \cap killed = {}
  BY <1>3, <1>1 DEF Begin, Offered
<1>4. CASE Load(t)
  BY <1>4, <1>1 DEF Load, Allocate, Fresh, NotFound, Reserves
<1>5. CASE LoadOld(t)
  BY <1>5, <1>1 DEF LoadOld, Work, Reserves
<1>6. CASE Claim(t)
  BY <1>6, <1>1 DEF Claim, Claimable
<1>7. CASE LockOld(t)
  BY <1>7, <1>1 DEF LockOld, NextBucket, GiveUp, Killed
<1>8. ASSUME NEW k \in Keys, LockTarget(t, k)
      PROVE  held'[t] \cap killed = {}
  BY <1>8, <1>1, <1>2 DEF LockTarget, GiveUp
<1>9. ASSUME NEW k \in Keys, MoveEntry(t, k)
      PROVE  held'[t] \cap killed = {}
  BY <1>9, <1>1 DEF MoveEntry
<1>10. CASE EraseOld(t)
  BY <1>10, <1>1 DEF EraseOld
<1>11. CASE Emptied(t)
  BY <1>11, <1>1 DEF Emptied, HeldShape
<1>12. CASE Kill(t)
  BY <1>12, <1>1 DEF Kill, NextBucket
<1>13. CASE Success(t)
  BY <1>13, <1>1 DEF Success
<1>14. CASE DropOld(t)
  BY <1>14, <1>1 DEF DropOld
<1>15. CASE Fail(t)
  BY <1>15, <1>1 DEF Fail
<1>16. CASE Check(t)
  BY <1>16, <1>1 DEF Check, AfterRehash, Work
<1>17. CASE LockFails(t)
  BY <1>17, <1>1 DEF LockFails, Lookup
<1>18. CASE InsertEntry(t)
  BY <1>18, <1>1 DEF InsertEntry, Hold, Lockable, Killed
<1>19. CASE ReserveEntry(t)
  BY <1>19, <1>1 DEF ReserveEntry, Hold, Lockable, Killed
<1>20. CASE RemoveEntry(t)
  BY <1>20, <1>1 DEF RemoveEntry, Hold, Gone, Lockable, Killed
<1>21. CASE GetEntry(t)
  BY <1>21, <1>1 DEF GetEntry, Hold, Lockable, Killed
<1>22. CASE ReadEntry(t)
  BY <1>22, <1>1 DEF ReadEntry
<1>23. CASE VacantInsert(t)
  BY <1>23, <1>1 DEF VacantInsert
<1>24. ASSUME NEW k \in Keys, OccupiedRemove(t, k)
      PROVE  held'[t] \cap killed = {}
  BY <1>24, <1>1 DEF OccupiedRemove
<1>25. CASE Release(t)
  BY <1>25, <1>1 DEF Release
<1>26. CASE ReleaseReader(t)
  BY <1>26, <1>1 DEF ReleaseReader
<1>27. CASE SearchOld(t)
  BY <1>27, <1>1 DEF SearchOld
<1>28. CASE Search(t)
  BY <1>28, <1>1 DEF Search
<1>29. CASE Reload(t)
  BY <1>29, <1>1 DEF Reload, NotFound
<1>30. CASE ResizeLoad(t)
  BY <1>30, <1>1 DEF ResizeLoad, AfterResize, Reserves
<1>31. CASE ResizeTag(t)
  BY <1>31, <1>1 DEF ResizeTag, AfterResize, Reserves
<1>32. CASE DropLock(t)
  BY <1>32, <1>1 DEF DropLock
<1>33. CASE DropSwap(t)
  BY <1>33, <1>1 DEF DropSwap
<1>34. CASE DropKill(t)
  BY <1>34, <1>1 DEF DropKill, AfterResize, Reserves
<1>35. CASE ResizeAlloc(t)
  BY <1>35, <1>1 DEF ResizeAlloc, AfterResize, Allocate, Fresh, Reserves
<1>36. CASE ResizeKeep(t)
  BY <1>36, <1>1 DEF ResizeKeep, AfterResize, Reserves
<1>37. CASE End(t)
  BY <1>37, <1>1 DEF End, Return
<1>38. CASE AnyBucket(t)
  BY <1>38, <1>1 DEF AnyBucket, GoOn, Scanning
<1>39. CASE RetainBucket(t)
  BY <1>39, <1>1 DEF RetainBucket, GoOn, Scanning
<1>40. CASE PruneBucket(t)
  BY <1>40, <1>1 DEF PruneBucket, GoOn, Scanning
<1>41. CASE WalkBucket(t)
  BY <1>41, <1>1 DEF WalkBucket, GoOn, Scanning, Killed
<1>42. CASE WalkNext(t)
  BY <1>42, <1>1 DEF WalkNext, Restarts
<1>43. CASE ScanEnd(t)
  BY <1>43, <1>1 DEF ScanEnd
<1>44. CASE TryResize(t)
  BY <1>44, <1>1 DEF TryResize
<1>45. CASE IterStart(t)
  BY <1>45, <1>1 DEF IterStart, OldFirst
<1>46. CASE IterBucket(t)
  BY <1>46, <1>1 DEF IterBucket, GoOn
<1>47. CASE IterEnd(t)
  BY <1>47, <1>1 DEF IterEnd
<1>48. CASE IterSwitch(t)
  BY <1>48, <1>1 DEF IterSwitch, IterFrom, OldFirst
<1>49. CASE ScanReturn(t)
  BY <1>49, <1>1 DEF ScanReturn, Return
<1> QED BY <1>3, <1>4, <1>5, <1>6, <1>7, <1>8, <1>9, <1>10, <1>11, <1>12,
           <1>13, <1>14, <1>15, <1>16, <1>17, <1>18, <1>19, <1>20, <1>21,
           <1>22, <1>23, <1>24, <1>25, <1>26, <1>27, <1>28, <1>29, <1>30,
           <1>31, <1>32, <1>33, <1>34, <1>35, <1>36, <1>37, <1>38, <1>39,
           <1>40, <1>41, <1>42, <1>43, <1>44, <1>45, <1>46, <1>47, <1>48,
           <1>49
        DEF Step, TableStep, ScanStep

\* How try_resize comes to drop the array: it locks all of its buckets for reading
\* first.
LEMMA DropSteps ==
  ASSUME Structure, NEW t \in Threads, Step(t), pc'[t] \in {"rdrop", "rswap", "rkill"}
  PROVE  ResizeTag(t) \/ DropLock(t) \/ DropSwap(t) \/ DropKill(t)
<1>1. pc \in [Threads -> PCs]
  BY DEF Structure, TypeInv
<1> USE DEF arrayVars, bucketVars, lockVars, callVars, moveVars, localVars
<1> QED BY <1>1 DEF Step, TableStep, ScanStep, Begin, Goto, Offered, Load,
           Allocate, Fresh, NotFound, Reserves, LoadOld, Work, Claim,
           Claimable, LockOld, NextBucket, GiveUp, LockTarget, MoveEntry,
           EraseOld, Emptied, Kill, Success, DropOld, Fail, Check,
           AfterRehash, LockFails, Lookup, InsertEntry, Hold, Lockable,
           ReserveEntry, RemoveEntry, Gone, GetEntry, ReadEntry,
           VacantInsert, OccupiedRemove, Release, ReleaseReader, SearchOld,
           Search, Reload, ResizeLoad, AfterResize, ResizeAlloc, ResizeKeep,
           End, Return, AnyBucket, GoOn, Scanning, RetainBucket, PruneBucket,
           WalkBucket, WalkNext, Restarts, ScanEnd, TryResize, IterStart,
           OldFirst, IterBucket, IterEnd, IterSwitch, IterFrom, ScanReturn

\* A step keeps dead buckets empty and the others' entries at home.
LEMMA BucketsOwn ==
  ASSUME Structure, Locks, BucketsInv, Detached, ProgressInv, NEW t \in Threads, Step(t),
         Structure', Locks'
  PROVE  BucketsInv'
<1>1. ASSUME NEW b \in Buckets, NEW k \in Keys, k \in entries'[b]
      PROVE  Allocated(b[1])' /\ b = BucketOf(b[1], k)'
  <2>1. Allocated(b[1]) /\ b = BucketOf(b[1], k)
    BY <1>1, Writes DEF BucketsInv
  <2>2. size'[b[1]] = size[b[1]] /\ BucketOf(b[1], k)' = BucketOf(b[1], k)
    BY <2>1, SizesStay
  <2> QED BY <2>1, <2>2 DEF Allocated
<1>2. ASSUME NEW b \in killed'
      PROVE  entries'[b] = {} /\ b[1] # array' /\ Allocated(b[1])'
  <2>1. b \in Buckets /\ entries'[b] \in SUBSET Keys
    BY DEF Structure, TypeInv
  <2>2. CASE b \in killed
    <3>1. entries[b] = {} /\ b[1] # array /\ Allocated(b[1])
      BY <2>2 DEF BucketsInv
    <3>2. entries'[b] = {}
      BY <2>1, <2>2, <3>1, Writes
    <3>3. Monotone /\ b[1] # Null
      BY <3>1, Frame DEF Structure, Allocated, Arrays, Null
    <3> QED BY <3>1, <3>2, <3>3 DEF Monotone, Allocated
  <2>3. CASE Kill(t) /\ b = From(t)
    <3>1. /\ pc[t] = "kill" /\ entries' = entries /\ array' = array /\ size' = size
          /\ b[1] = oldArr[t]
      BY <2>3 DEF Kill, arrayVars, From
    <3>2. entries[b] = {} /\ oldArr[t] # array /\ Allocated(oldArr[t])
      BY <2>3, <3>1, OldIsNotCurrent DEF ProgressInv, Progress, Rehashing
    <3> QED BY <3>1, <3>2 DEF Allocated
  <2>4. CASE DropKill(t) /\ b = <<rarr[t], pos[t]>>
    <3>1. /\ pc[t] = "rkill" /\ entries' = entries /\ array' = array /\ size' = size
          /\ b[1] = rarr[t]
      BY <2>4 DEF DropKill, arrayVars
    <3>2. Allocated(rarr[t]) /\ rarr[t] # array /\ pos[t] \in Nat /\ pos[t] < size[rarr[t]]
          /\ size[rarr[t]] \in Nat
      BY <3>1, BucketsAtHand, OwnFacts DEF ResizeShape, PosShape, Allocated
    <3>3. b \in shared[t]
      BY <2>4, <3>1, <3>2 DEF Locks, SharedShape
    <3>4. entries[b] = {}
      BY <3>1, <3>3 DEF BucketsInv
    <3> QED BY <3>1, <3>2, <3>4 DEF Allocated
  <2> QED BY <2>2, <2>3, <2>4, KilledSteps
<1>3. ASSUME NEW u \in Threads PROVE held'[u] \cap killed' = {}
  <2>1. held'[u] \cap killed = {}
    BY HeldGrows, Frame DEF OthersKeep, Structure, BucketsInv
  <2>2. CASE Kill(t)
    <3>1. From(t) \in held[t] /\ held'[t] = {} /\ killed' = killed \cup {From(t)}
      BY <2>2 DEF Kill, Locks, HeldShape, Structure, TypeInv
    <3>2. u # t => held'[u] = held[u] /\ From(t) \notin held[u]
      BY <3>1, Frame DEF OthersKeep, Structure, Locks, Exclusion
    <3> QED BY <2>1, <3>1, <3>2
  <2>3. CASE DropKill(t)
    <3> DEFINE b == <<rarr[t], pos[t]>>
    <3>1. pc[t] = "rkill" /\ killed' = killed \cup {b} /\ held' = held
      BY <2>3 DEF DropKill
    <3>2. pos[t] \in Nat /\ pos[t] < size[rarr[t]] /\ size[rarr[t]] \in Nat
      BY <3>1, BucketsAtHand, OwnFacts DEF PosShape, Allocated
    <3>3. b \in shared[t] /\ held[t] = {}
      BY <3>1, <3>2 DEF Locks, SharedShape, HeldShape, Moving
    <3>4. b \notin held[u]
      BY <3>3 DEF Locks, Exclusion
    <3> HIDE DEF b
    <3> QED BY <2>1, <3>1, <3>4
  <2> QED BY <2>1, <2>2, <2>3, KilledSteps
<1>4. ASSUME NEW u \in Threads, pc'[u] \in {"rdrop", "rswap", "rkill"}, NEW b \in shared'[u]
      PROVE  entries'[b] = {}
  <2>1. b \in Buckets /\ entries'[b] \in SUBSET Keys
    BY DEF Structure, TypeInv
  <2>2. entries[b] = {}
    <3>1. CASE u # t
      BY <1>4, <3>1, Frame DEF OthersKeep, Structure, BucketsInv
    <3>2. CASE u = t
      <4>1. /\ pc[t] = "rtag" => shared[t] = {}
            /\ pc[t] \in {"rdrop", "rswap", "rkill"} => \A c \in shared[t] : entries[c] = {}
            /\ pc \in [Threads -> PCs] /\ shared \in [Threads -> SUBSET Buckets]
        BY DEF Locks, SharedShape, BucketsInv, Structure, TypeInv
      <4>2. ResizeTag(t) \/ DropLock(t) \/ DropSwap(t) \/ DropKill(t)
        BY <1>4, <3>2, DropSteps
      <4> QED BY <1>4, <3>2, <4>1, <4>2
              DEF ResizeTag, DropLock, DropSwap, DropKill, DropCheck, AfterResize, Goto, lockVars
    <3> QED BY <3>1, <3>2
  <2>3. b \notin held'[t]
    BY <1>4 DEF Locks, Exclusion, HeldShape, Moving
  <2> QED BY <2>1, <2>2, <2>3, Writes
<1> QED BY <1>1, <1>2, <1>3, <1>4 DEF BucketsInv

-----------------------------------------------------------------------------
(* ProgressInv, Detached and ClaimsExact are inductive                      *)

Claimers(a) == {t \in Threads : range[t] # 0 /\ oldArr[t] = a}

\* There are finitely many claims on an array.
LEMMA ClaimersFinite ==
  ASSUME NEW a PROVE IsFiniteSet(Claimers(a)) /\ Cardinality(Claimers(a)) \in Nat
  BY FS_Subset, FS_CardinalityType, TableAssumption DEF Claimers

\* The last one to succeed leaves an array with killed buckets only.
LEMMA LastClears ==
  ASSUME Structure, ClaimsExact, NEW t \in Threads, Progress(t), pc[t] = "success",
         Last(oldArr[t])
  PROVE  BucketsOf(oldArr[t]) \subseteq killed
<1> DEFINE a == oldArr[t]
<1>1. a \in Arrays /\ range[t] # 0 /\ TypeInv
  BY OldIsNotCurrent DEF Rehashing, Structure, PosShape
<1>2. Cardinality(Claimers(a)) = 1
  BY <1>1 DEF ClaimsExact, Claimers, Last
<1>3. PICK x : Claimers(a) = {x}
  BY <1>2, ClaimersFinite, FS_Singleton
<1>4. Claimers(a) = {t}
  BY <1>1, <1>3 DEF Claimers
<1>5. size[a] \in Nat /\ next[a] \in Nat /\ size[a] <= next[a] * RangeLen
      /\ next[a] * RangeLen \in Nat /\ RangeLen \in Nat /\ range[t] \in Nat
      /\ range[t] * RangeLen \in Nat /\ (range[t] - 1) * RangeLen \in Int
  <2>1. next[a] \in Nat /\ size[a] \in Nat /\ RangeLen \in Nat /\ range[t] \in Nat
    BY <1>1, OwnFacts
  <2>2. size[a] <= next[a] * RangeLen
    BY <1>1, <2>1, RangesCover DEF Last
  <2> HIDE DEF a
  <2> QED BY <2>1, <2>2
<1> SUFFICES ASSUME NEW i \in 0 .. size[a] - 1 PROVE <<a, i>> \in killed
  BY DEF BucketsOf
<1>6. i \in Nat /\ i < size[a] /\ i < next[a] * RangeLen
  <2> HIDE DEF a
  <2> QED BY <1>5
<1>7. \/ <<a, i>> \in killed
      \/ \E u \in Threads : /\ u \in Claimers(a)
                            /\ i \in (range[u] - 1) * RangeLen .. range[u] * RangeLen - 1
  BY <1>1, <1>6 DEF ClaimsExact, Claimers
<1>8. i \in (range[t] - 1) * RangeLen .. range[t] * RangeLen - 1 => <<a, i>> \in killed
  BY <1>5, <1>6 DEF Progress
<1> QED BY <1>4, <1>7, <1>8

\* A step of t keeps what another thread has cleared of its range.
LEMMA ProgressOther ==
  ASSUME Structure, Locks, BucketsInv, NEW t \in Threads, Step(t), Structure', Locks',
         NEW u \in Threads, u # t, Progress(u)
  PROVE  Progress(u)'
<1>1. /\ pc'[u] = pc[u] /\ range'[u] = range[u] /\ pos'[u] = pos[u] /\ oldArr'[u] = oldArr[u]
      /\ killed \subseteq killed'
  BY Frame DEF Structure, OthersKeep, Monotone
<1>2. pc[u] \in Rehashing =>
        size'[oldArr[u]] = size[oldArr[u]] /\ BucketsOf(oldArr[u])' = BucketsOf(oldArr[u])
  BY <1>1, OldIsNotCurrent, SizesStay DEF BucketsOf
<1>3. pc[u] = "kill" => entries'[From(u)] = {}
  <2> SUFFICES ASSUME pc[u] = "kill" PROVE entries'[From(u)] = {}
    OBVIOUS
  <2>1. From(u) \in Buckets /\ entries[From(u)] = {} /\ From(u) \in held[u]
    BY BucketsAtHand DEF AtBucket, Progress, Locks, HeldShape
  <2>2. From(u) \notin held'[t] /\ entries'[From(u)] \in SUBSET Keys
    BY <2>1, Frame DEF OthersKeep, Structure, Locks, Exclusion, TypeInv
  <2> QED BY <2>1, <2>2, Writes
<1>4. From(u)' = From(u)
  BY <1>1 DEF From
<1>5. (entries[From(u)])' = entries'[From(u)]
  BY <1>4
<1>6. pc[u] = "drop" => BucketsOf(oldArr[u])' \subseteq killed'
  BY <1>1, <1>2 DEF Progress, Rehashing
<1> QED BY <1>1, <1>2, <1>3, <1>5, <1>6 DEF Progress, Rehashing

\* The steps that lead to and through a bucket of a claimed range.
LEMMA ProgressSteps ==
  ASSUME Structure, NEW t \in Threads, Step(t),
         pc'[t] \in AtBucket \cup {"success", "drop"}
  PROVE  \/ Claim(t) \/ LockOld(t) \/ EraseOld(t) \/ Emptied(t) \/ Kill(t) \/ Success(t)
         \/ \E k \in Keys : LockTarget(t, k) \/ MoveEntry(t, k)
         \/ Check(t) /\ pc'[t] = "own"
<1>1. pc \in [Threads -> PCs]
  BY DEF Structure, TypeInv
<1> USE DEF arrayVars, bucketVars, lockVars, callVars, moveVars, localVars, AtBucket
<1> QED BY <1>1 DEF Step, TableStep, ScanStep, Begin, Goto, Offered, Load,
           Allocate, Fresh, NotFound, Reserves, LoadOld, Work, DropOld, Fail,
           Check, AfterRehash, LockFails, Lookup, InsertEntry, Hold,
           Lockable, ReserveEntry, RemoveEntry, Gone, GetEntry, ReadEntry,
           VacantInsert, OccupiedRemove, Release, ReleaseReader, SearchOld,
           Search, Reload, ResizeLoad, AfterResize, ResizeTag, DropLock,
           DropSwap, DropKill, ResizeAlloc, ResizeKeep, End, Return,
           AnyBucket, GoOn, Scanning, RetainBucket, PruneBucket, WalkBucket,
           WalkNext, Restarts, ScanEnd, TryResize, IterStart, OldFirst,
           IterBucket, IterEnd, IterSwitch, IterFrom, ScanReturn

\* The range is killed up to the bucket at hand, so it is up to the next one.
LEMMA ProgressNext ==
  ASSUME Structure, NEW t \in Threads, Progress(t), pc[t] \in AtBucket, range[t] # 0,
         From(t) \in killed', NextBucket(t), killed \subseteq killed',
         range' = range, oldArr' = oldArr, size' = size
  PROVE  Progress(t)'
<1>1. /\ range[t] \in Nat /\ pos[t] \in Nat /\ RangeLen \in Nat
      /\ oldArr[t] \in Arrays /\ size[oldArr[t]] \in Nat /\ pos[t] < size[oldArr[t]]
  BY OwnFacts, OldIsNotCurrent DEF AtBucket, Rehashing, PosShape
<1>2. pc \in [Threads -> PCs] /\ pos \in [Threads -> Nat]
  BY DEF Structure, TypeInv
<1> DEFINE lo == (range[t] - 1) * RangeLen
           hi == range[t] * RangeLen
<1>3. hi \in Nat
  BY <1>1
<1>4. \A i \in Nat : lo <= i /\ i < pos[t] + 1 => <<oldArr[t], i>> \in killed'
  <2> SUFFICES ASSUME NEW i \in Nat, lo <= i, i < pos[t] + 1
               PROVE  <<oldArr[t], i>> \in killed'
    OBVIOUS
  <2>1. CASE i < pos[t]
    BY <2>1 DEF Progress
  <2>2. CASE i = pos[t]
    BY <2>2 DEF From
  <2> QED BY <1>1, <2>1, <2>2
<1>5. CASE pos[t] + 1 < hi /\ pos[t] + 1 < size[oldArr[t]]
  <2>1. pc'[t] = "bucket" /\ pos'[t] = pos[t] + 1
    BY <1>2, <1>5 DEF NextBucket, Goto
  <2> QED BY <1>4, <2>1 DEF Progress
<1>6. CASE ~(pos[t] + 1 < hi /\ pos[t] + 1 < size[oldArr[t]])
  <2>1. pc'[t] = "success"
    BY <1>2, <1>6 DEF NextBucket, Goto
  <2>2. \A i \in Nat : i < hi /\ i < size[oldArr[t]] => i < pos[t] + 1
    <3> HIDE DEF hi
    <3> QED BY <1>1, <1>3, <1>6
  <2>3. \A i \in Nat : lo <= i /\ i < hi /\ i < size[oldArr[t]] => <<oldArr[t], i>> \in killed'
    BY <1>4, <2>2
  <2> QED BY <2>1, <2>3 DEF Progress, AtBucket
<1> QED BY <1>5, <1>6

\* A step of t keeps what it has cleared of its range.
LEMMA ProgressOwn ==
  ASSUME Structure, Locks, BucketsInv, ClaimsExact, NEW t \in Threads, Step(t), Progress(t)
  PROVE  Progress(t)'
<1>1. CASE pc'[t] \notin AtBucket \cup {"success", "drop"}
  BY <1>1 DEF Progress, AtBucket
<1>2. /\ pc \in [Threads -> PCs] /\ held \in [Threads -> SUBSET Buckets]
      /\ entries \in [Buckets -> SUBSET Keys] /\ range \in [Threads -> Nat]
      /\ pos \in [Threads -> Nat] /\ copied \in [Threads -> SUBSET Keys]
  BY DEF Structure, TypeInv
<1> USE DEF arrayVars, bucketVars, lockVars, callVars, moveVars, localVars, Goto
<1>3. CASE Claim(t)
  <2>1. oldArr[t] \in Arrays /\ next[oldArr[t]] \in Nat /\ RangeLen \in Nat
    BY <1>3, OldIsNotCurrent, OwnFacts DEF Claim, Rehashing
  <2>2. pc'[t] = "bucket" => range'[t] = next[oldArr[t]] + 1 /\ pos'[t] = next[oldArr[t]] * RangeLen
    BY <1>2, <1>3 DEF Claim
  <2>3. \A n \in Nat : (n + 1 - 1) * RangeLen = n * RangeLen /\ n * RangeLen \in Nat
    BY <2>1
  <2>4. pc'[t] \in {"bucket", "check"}
    BY <1>2, <1>3 DEF Claim
  <2>5. pc'[t] = "bucket" => \A i \in Nat : ~((range'[t] - 1) * RangeLen <= i /\ i < pos'[t])
    <3> SUFFICES ASSUME pc'[t] = "bucket", NEW i \in Nat, (range'[t] - 1) * RangeLen <= i, i < pos'[t]
                 PROVE  FALSE
      OBVIOUS
    <3>1. (range'[t] - 1) * RangeLen = pos'[t] /\ pos'[t] \in Nat
      BY <2>1, <2>2, <2>3
    <3> QED BY <3>1
  <2> QED BY <2>4, <2>5 DEF Progress, AtBucket
<1>4. CASE LockOld(t)
  <2>1. /\ pc[t] \in AtBucket /\ killed' = killed /\ range' = range /\ oldArr' = oldArr
        /\ size' = size /\ entries' = entries
    BY <1>4 DEF LockOld, AtBucket
  <2>2. CASE Killed(From(t)) /\ range[t] # 0
    <3>1. NextBucket(t) /\ From(t) \in killed'
      BY <1>4, <2>1, <2>2 DEF LockOld, Killed
    <3> QED BY <2>1, <2>2, <3>1, ProgressNext
  <2>3. CASE ~(Killed(From(t)) /\ range[t] # 0)
    <3>1. pc'[t] \in {"lock", "relocate", "fail", "load"} /\ (pc'[t] = "relocate" => pos' = pos)
      BY <1>2, <1>4, <2>3 DEF LockOld, GiveUp
    <3> QED BY <2>1, <3>1 DEF Progress, AtBucket
  <2> QED BY <2>2, <2>3
<1>5. ASSUME NEW k \in Keys, LockTarget(t, k) PROVE Progress(t)'
  <2>1. /\ pc[t] \in AtBucket /\ killed' = killed /\ range' = range /\ oldArr' = oldArr
        /\ (pc'[t] = "relocate" => pos' = pos) /\ pc'[t] \in {"relocate", "fail", "load"}
    BY <1>2, <1>5 DEF LockTarget, GiveUp, AtBucket
  <2> QED BY <2>1 DEF Progress, AtBucket
<1>6. ASSUME NEW k \in Keys, MoveEntry(t, k) PROVE Progress(t)'
  BY <1>2, <1>6 DEF MoveEntry, Progress, AtBucket
<1>7. CASE EraseOld(t)
  BY <1>2, <1>7 DEF EraseOld, Progress, AtBucket
<1>8. CASE Emptied(t)
  BY <1>2, <1>8 DEF Emptied, Progress, AtBucket, From
<1>9. CASE Kill(t)
  <2>1. /\ pc[t] \in AtBucket /\ killed' = killed \cup {From(t)} /\ range' = range
        /\ oldArr' = oldArr /\ size' = size
    BY <1>9 DEF Kill, AtBucket
  <2>2. CASE range[t] # 0
    <3>1. NextBucket(t)
      BY <1>9, <2>2 DEF Kill
    <3> QED BY <2>1, <2>2, <3>1, ProgressNext
  <2>3. CASE range[t] = 0
    <3>1. pc'[t] = "lock"
      BY <1>2, <1>9, <2>3 DEF Kill
    <3> QED BY <3>1 DEF Progress, AtBucket
  <2> QED BY <2>2, <2>3
<1>10. CASE Success(t)
  <2>1. /\ pc[t] = "success" /\ pc'[t] \in {"drop", "check"} /\ killed' = killed
        /\ oldArr' = oldArr /\ size' = size /\ (pc'[t] = "drop" => Last(oldArr[t]))
    BY <1>2, <1>10 DEF Success
  <2>2. pc'[t] = "drop" => BucketsOf(oldArr[t]) \subseteq killed
    BY <2>1, LastClears
  <2> QED BY <2>1, <2>2 DEF Progress, AtBucket, BucketsOf
<1>11. CASE Check(t) /\ pc'[t] = "own"
  <2>1. range'[t] = 0
    BY <1>11, OwnFacts DEF Check, PosShape
  <2> QED BY <1>11, <2>1 DEF Progress
<1> QED BY <1>1, <1>3, <1>4, <1>5, <1>6, <1>7, <1>8, <1>9, <1>10, <1>11, ProgressSteps

\* What a thread may do that kills the buckets of a dropped array.
LEMMA KillSteps ==
  ASSUME NEW t \in Threads, Step(t), pc[t] = "rkill"
  PROVE  DropKill(t)
  BY DEF Step, TableStep, ScanStep, Scanning, Lockable, Begin, Load, LoadOld,
         Claim, LockOld, LockTarget, MoveEntry, EraseOld, Emptied, Kill,
         Success, DropOld, Fail, Check, LockFails, InsertEntry, ReserveEntry,
         RemoveEntry, GetEntry, ReadEntry, VacantInsert, OccupiedRemove,
         Release, ReleaseReader, SearchOld, Search, Reload, ResizeLoad,
         ResizeTag, DropLock, DropSwap, ResizeAlloc, ResizeKeep, End,
         AnyBucket, RetainBucket, PruneBucket, WalkBucket, WalkNext, ScanEnd,
         TryResize, IterStart, IterBucket, IterEnd, IterSwitch, ScanReturn

\* A step keeps a detached array cleared.
LEMMA DetachedOwn ==
  ASSUME Structure, Locks, BucketsInv, Detached, ProgressInv, NEW t \in Threads, Step(t)
  PROVE  Detached'
<1> SUFFICES ASSUME NEW a \in Arrays, a \notin Reachable', NEW b \in BucketsOf(a)'
             PROVE  b \in killed' \/ \E u \in Threads : pc'[u] = "rkill" /\ b \in shared'[u]
  BY DEF Detached
<1> USE DEF arrayVars, bucketVars, lockVars, callVars, moveVars, localVars, Goto
<1>1. killed \subseteq killed' /\ Monotone /\ OthersKeep(t)
  BY Frame DEF Structure, Monotone
<1>2. /\ array \in Pointers /\ arr[t] \in Pointers /\ oldArr[t] \in Pointers /\ rarr[t] \in Pointers
      /\ size \in [Arrays -> Sizes \cup {0}] /\ old \in [Arrays -> Pointers] /\ ArraysInv
      /\ pc \in [Threads -> PCs]  /\ ResizeShape(t) /\ ArrShape(t)
  BY DEF Structure, TypeInv
<1>3. \A c \in Arrays : c # Null
  BY DEF Arrays, Null
\* What was about to be killed is, or still is about to be.
<1>4. ASSUME a \notin Reachable, size'[a] = size[a]
      PROVE  b \in killed' \/ \E u \in Threads : pc'[u] = "rkill" /\ b \in shared'[u]
  <2>1. b \in BucketsOf(a)
    BY <1>4 DEF BucketsOf
  <2>2. CASE b \in killed
    BY <1>1, <2>2
  <2>3. ASSUME NEW u \in Threads, pc[u] = "rkill", b \in shared[u]
        PROVE  b \in killed' \/ \E v \in Threads : pc'[v] = "rkill" /\ b \in shared'[v]
    <3>1. CASE u # t
      BY <1>1, <2>3, <3>1 DEF OthersKeep
    <3>2. CASE u = t
      <4>1. DropKill(t)
        BY <2>3, <3>2, KillSteps
      <4>2. pos[t] \in Nat /\ size[rarr[t]] \in Nat /\ shared \in [Threads -> SUBSET Buckets]
        BY <1>2, <2>3, <3>2, OwnFacts DEF Structure, TypeInv, Resize, ResizeShape, Pointers
      <4>3. shared[t] = {rarr[t]} \X (pos[t] .. size[rarr[t]] - 1)
        BY <2>3, <3>2 DEF Locks, SharedShape
      <4>4. CASE pos[t] + 1 < size[rarr[t]]
        BY <1>2, <2>3, <3>2, <4>1, <4>2, <4>4 DEF DropKill
      <4>5. CASE ~(pos[t] + 1 < size[rarr[t]])
        <5>1. b = <<rarr[t], pos[t]>>
          BY <2>3, <3>2, <4>2, <4>3, <4>5
        <5> QED BY <4>1, <5>1 DEF DropKill
      <4> QED BY <4>4, <4>5
    <3> QED BY <3>1, <3>2
  <2> QED BY <1>4, <2>1, <2>2, <2>3 DEF Detached
<1>5. CASE array' = array /\ old' = old /\ size' = size
  BY <1>4, <1>5 DEF Reachable
<1>6. CASE Load(t) /\ array = Null
  <2>1. a \notin Reachable
    BY <1>6 DEF Reachable
  <2>2. size'[a] = size[a]
    BY <1>2, <1>3, <1>6 DEF Load, Allocate, Reachable
  <2> QED BY <1>4, <2>1, <2>2
<1>7. CASE DropOld(t)
  <2>1. pc[t] = "drop" /\ size' = size /\ array' = array /\ old' = [old EXCEPT ![arr[t]] = Null]
    BY <1>7 DEF DropOld
  <2>2. CASE a \notin Reachable
    BY <1>4, <2>1, <2>2
  <2>3. CASE a \in Reachable
    <3>1. a = old[array] /\ array = arr[t] /\ a # Null
      BY <1>2, <1>3, <2>1, <2>3 DEF Reachable, Pointers
    <3>2. a = oldArr[t]
      BY <1>2, <2>1, <3>1 DEF ArrShape, Rehashing
    <3>3. BucketsOf(a) \subseteq killed /\ BucketsOf(a)' = BucketsOf(a)
      BY <2>1, <3>2 DEF ProgressInv, Progress, BucketsOf
    <3> QED BY <1>1, <3>3
  <2> QED BY <2>2, <2>3
<1>8. CASE DropSwap(t)
  <2>1. pc[t] = "rswap" /\ size' = size /\ pc'[t] = "rkill" /\ shared' = shared
    BY <1>2, <1>8 DEF DropSwap
  <2>2. CASE a \notin Reachable
    BY <1>4, <2>1, <2>2
  <2>3. CASE a \in Reachable
    <3>1. a = rarr[t]
      BY <1>2, <2>1, <2>3 DEF Reachable, ResizeShape, Resize, Tagged
    <3>2. b \in shared[t]
      BY <2>1, <3>1 DEF Locks, SharedShape, BucketsOf
    <3> QED BY <2>1, <3>2
  <2> QED BY <2>2, <2>3
<1>9. CASE ResizeAlloc(t)
  <2>1. pc[t] = "ralloc" /\ rarr[t] = array /\ old[array] = Null /\ array # Null
    BY <1>2, <1>9 DEF ResizeAlloc, ResizeShape, Resize, Tagged
  <2>2. PICK n \in Arrays, z \in Sizes : Allocate(n, z, array)
    BY <1>9 DEF ResizeAlloc
  <2>3. Reachable' = {n, array}
    BY <1>2, <1>3, <2>1, <2>2 DEF Allocate, Reachable, Pointers
  <2>4. a \notin Reachable /\ size'[a] = size[a]
    BY <1>2, <2>1, <2>2, <2>3 DEF Allocate, Reachable
  <2> QED BY <1>4, <2>4
<1> QED BY <1>5, <1>6, <1>7, <1>8, <1>9, ArraySteps

\* The steps that take or give up a range of buckets.
LEMMA ClaimSteps ==
  ASSUME Structure, NEW t \in Threads, Step(t)
  PROVE  \/ Claim(t) /\ pc'[t] = "bucket"
         \/ Success(t) \/ Fail(t)
         \/ /\ next' = next /\ refs' = refs /\ range' = range
            /\ \A u \in Threads : range[u] # 0 => oldArr'[u] = oldArr[u]
<1>1. /\ PosShape(t) /\ pc \in [Threads -> PCs] /\ range \in [Threads -> Nat]
      /\ oldArr \in [Threads -> Pointers]
  BY DEF Structure, TypeInv
<1> USE DEF arrayVars, bucketVars, lockVars, callVars, moveVars, localVars, PosShape, Goto
<1> DEFINE Q == /\ next' = next /\ refs' = refs /\ range' = range
                /\ \A u \in Threads : range[u] # 0 => oldArr'[u] = oldArr[u]
<1>2. ASSUME NEW o \in Ops[type][t], NEW k \in Keys, Begin(t, o, k)
      PROVE  Q
  BY <1>2, <1>1 DEF Begin, Offered
<1>3. CASE Load(t)
  BY <1>3, <1>1 DEF Load, Allocate, Fresh, NotFound, Reserves
<1>4. CASE LoadOld(t)
  BY <1>4, <1>1 DEF LoadOld, Work, Reserves
<1>5. CASE LockOld(t)
  BY <1>5, <1>1 DEF LockOld, NextBucket, GiveUp
<1>6. ASSUME NEW k \in Keys, LockTarget(t, k)
      PROVE  Q
  BY <1>6, <1>1 DEF LockTarget, GiveUp
<1>7. ASSUME NEW k \in Keys, MoveEntry(t, k)
      PROVE  Q
  BY <1>7, <1>1 DEF MoveEntry
<1>8. CASE EraseOld(t)
  BY <1>8, <1>1 DEF EraseOld
<1>9. CASE Emptied(t)
  BY <1>9, <1>1 DEF Emptied
<1>10. CASE Kill(t)
  BY <1>10, <1>1 DEF Kill, NextBucket
<1>11. CASE DropOld(t)
  BY <1>11, <1>1 DEF DropOld
<1>12. CASE Check(t)
  BY <1>12, <1>1 DEF Check, AfterRehash, Work
<1>13. CASE LockFails(t)
  BY <1>13, <1>1 DEF LockFails, Lookup
<1>14. CASE InsertEntry(t)
  BY <1>14, <1>1 DEF InsertEntry, Hold, Lockable
<1>15. CASE ReserveEntry(t)
  BY <1>15, <1>1 DEF ReserveEntry, Hold, Lockable
<1>16. CASE RemoveEntry(t)
  BY <1>16, <1>1 DEF RemoveEntry, Hold, Gone, Lockable
<1>17. CASE GetEntry(t)
  BY <1>17, <1>1 DEF GetEntry, Hold, Lockable
<1>18. CASE ReadEntry(t)
  BY <1>18, <1>1 DEF ReadEntry
<1>19. CASE VacantInsert(t)
  BY <1>19, <1>1 DEF VacantInsert
<1>20. ASSUME NEW k \in Keys, OccupiedRemove(t, k)
      PROVE  Q
  BY <1>20, <1>1 DEF OccupiedRemove
<1>21. CASE Release(t)
  BY <1>21, <1>1 DEF Release
<1>22. CASE ReleaseReader(t)
  BY <1>22, <1>1 DEF ReleaseReader
<1>23. CASE SearchOld(t)
  BY <1>23, <1>1 DEF SearchOld
<1>24. CASE Search(t)
  BY <1>24, <1>1 DEF Search
<1>25. CASE Reload(t)
  BY <1>25, <1>1 DEF Reload, NotFound
<1>26. CASE ResizeLoad(t)
  BY <1>26, <1>1 DEF ResizeLoad, AfterResize, Reserves
<1>27. CASE ResizeTag(t)
  BY <1>27, <1>1 DEF ResizeTag, AfterResize, Reserves
<1>28. CASE DropLock(t)
  BY <1>28, <1>1 DEF DropLock
<1>29. CASE DropSwap(t)
  BY <1>29, <1>1 DEF DropSwap
<1>30. CASE DropKill(t)
  BY <1>30, <1>1 DEF DropKill, AfterResize, Reserves
<1>31. CASE ResizeAlloc(t)
  BY <1>31, <1>1 DEF ResizeAlloc, AfterResize, Allocate, Fresh,
     Reserves
<1>32. CASE ResizeKeep(t)
  BY <1>32, <1>1 DEF ResizeKeep, AfterResize, Reserves
<1>33. CASE End(t)
  BY <1>33, <1>1 DEF End, Return
<1>34. CASE AnyBucket(t)
  BY <1>34, <1>1 DEF AnyBucket, GoOn, Scanning
<1>35. CASE RetainBucket(t)
  BY <1>35, <1>1 DEF RetainBucket, GoOn, Scanning
<1>36. CASE PruneBucket(t)
  BY <1>36, <1>1 DEF PruneBucket, GoOn, Scanning
<1>37. CASE WalkBucket(t)
  BY <1>37, <1>1 DEF WalkBucket, GoOn, Scanning
<1>38. CASE WalkNext(t)
  BY <1>38, <1>1 DEF WalkNext, Restarts
<1>39. CASE ScanEnd(t)
  BY <1>39, <1>1 DEF ScanEnd
<1>40. CASE TryResize(t)
  BY <1>40, <1>1 DEF TryResize
<1>41. CASE IterStart(t)
  BY <1>41, <1>1 DEF IterStart, OldFirst
<1>42. CASE IterBucket(t)
  BY <1>42, <1>1 DEF IterBucket, GoOn
<1>43. CASE IterEnd(t)
  BY <1>43, <1>1 DEF IterEnd
<1>44. CASE IterSwitch(t)
  BY <1>44, <1>1 DEF IterSwitch, IterFrom, OldFirst
<1>45. CASE ScanReturn(t)
  BY <1>45, <1>1 DEF ScanReturn, Return
<1>46. CASE Claim(t)
  BY <1>1, <1>46 DEF Claim
<1> QED BY <1>2, <1>3, <1>4, <1>5, <1>6, <1>7, <1>8, <1>9, <1>10, <1>11,
           <1>12, <1>13, <1>14, <1>15, <1>16, <1>17, <1>18, <1>19, <1>20,
           <1>21, <1>22, <1>23, <1>24, <1>25, <1>26, <1>27, <1>28, <1>29,
           <1>30, <1>31, <1>32, <1>33, <1>34, <1>35, <1>36, <1>37, <1>38,
           <1>39, <1>40, <1>41, <1>42, <1>43, <1>44, <1>45, <1>46
        DEF Step, TableStep, ScanStep

\* The references and the index after a step.
LEMMA ClaimsOwn ==
  ASSUME Structure, BucketsInv, ProgressInv, ClaimsExact, NEW t \in Threads, Step(t)
  PROVE  ClaimsExact'
<1> USE DEF arrayVars, bucketVars, lockVars, callVars, moveVars, localVars, Goto
<1>1. /\ killed \subseteq killed' /\ Monotone /\ OthersKeep(t) /\ TypeInv /\ TypeInv'
  BY Frame, StructureStep DEF Structure, Monotone, Next, Step
<1>2. /\ next \in [Arrays -> Nat] /\ refs \in [Arrays -> Int] /\ range \in [Threads -> Nat]
      /\ oldArr \in [Threads -> Pointers] /\ RangeLen \in Nat /\ RangeLen > 0
      /\ MaxRehashers \in Nat /\ pc \in [Threads -> PCs]
  BY TableAssumption DEF Structure, TypeInv
<1>3. ASSUME NEW a \in Arrays
      PROVE  /\ Cardinality(Claimers(a)) = refs[a] /\ refs[a] <= MaxRehashers
             /\ next[a] <= Ranges(a) /\ Ranges(a) \in Nat /\ next[a] \in Nat
             /\ Allocated(a) => size'[a] = size[a] /\ Ranges(a)' = Ranges(a)
             /\ ~Allocated(a) => next[a] = 0
  <2>1. Cardinality(Claimers(a)) = refs[a] /\ refs[a] <= MaxRehashers /\ next[a] <= Ranges(a)
    BY DEF ClaimsExact, Claimers
  <2>2. Ranges(a) \in Nat /\ next[a] \in Nat
    BY <1>1, <1>2, RangesCover
  <2>3. Allocated(a) => size'[a] = size[a] /\ Ranges(a)' = Ranges(a)
    BY <1>1 DEF Monotone, Ranges
  <2>4. ~Allocated(a) => Ranges(a) = 0
    <3>1. 0 < Ranges(a) => 0 * RangeLen < size[a]
      BY <1>1, RangesCover
    <3> QED BY <1>2, <2>2, <3>1 DEF Allocated
  <2> QED BY <2>1, <2>2, <2>3, <2>4
<1> DEFINE Covered(a, i) ==
             \/ <<a, i>> \in killed
             \/ \E u \in Threads :
                  /\ oldArr[u] = a /\ range[u] # 0
                  /\ i \in (range[u] - 1) * RangeLen .. range[u] * RangeLen - 1
<1>4. \A a \in Arrays : \A i \in 0 .. size[a] - 1 : i < next[a] * RangeLen => Covered(a, i)
  BY DEF ClaimsExact
<1>5. SUFFICES ASSUME NEW a \in Arrays
               PROVE  /\ Cardinality(Claimers(a)') = refs'[a] /\ refs'[a] <= MaxRehashers
                      /\ next'[a] <= Ranges(a)'
                      /\ \A i \in 0 .. size'[a] - 1 : i < next'[a] * RangeLen => Covered(a, i)'
  BY DEF ClaimsExact, Claimers
<1>6. IsFiniteSet(Claimers(a)) /\ Cardinality(Claimers(a)) \in Nat
  BY ClaimersFinite
\* A step that leaves the claims alone.
<1>7. CASE /\ next' = next /\ refs' = refs /\ range' = range
           /\ \A u \in Threads : range[u] # 0 => oldArr'[u] = oldArr[u]
  <2>1. Claimers(a)' = Claimers(a)
    BY <1>1, <1>7 DEF Claimers, OthersKeep
  <2>2. CASE Allocated(a)
    <3>1. \A i \in 0 .. size[a] - 1 : Covered(a, i) => Covered(a, i)'
      BY <1>1, <1>7
    <3> HIDE DEF Covered
    <3> QED BY <1>3, <1>4, <1>7, <2>1, <2>2, <3>1
  <2>3. CASE ~Allocated(a)
    <3>1. size'[a] \in Nat
      <4>1. size'[a] \in Sizes \cup {0}
        BY <1>1 DEF TypeInv
      <4> QED BY <4>1, SizeFacts
    <3>2. Ranges(a)' \in Nat
      BY <1>2, <3>1, Division DEF Ranges
    <3>3. next'[a] = 0 /\ \A i \in 0 .. size'[a] - 1 : ~(i < next'[a] * RangeLen)
      BY <1>2, <1>3, <1>7, <2>3, <3>1
    <3> QED BY <1>3, <1>7, <2>1, <3>2, <3>3
  <2> QED BY <2>2, <2>3
<1>8. CASE Claim(t) /\ pc'[t] = "bucket"
  <2> DEFINE o == oldArr[t]
  <2>1. /\ o \in Arrays /\ range[t] = 0 /\ next[o] < Ranges(o) /\ refs[o] < MaxRehashers
        /\ next' = [next EXCEPT ![o] = @ + 1] /\ refs' = [refs EXCEPT ![o] = @ + 1]
        /\ range' = [range EXCEPT ![t] = next[o] + 1]
        /\ oldArr' = oldArr /\ size' = size /\ killed' = killed
    BY <1>2, <1>8, OldIsNotCurrent, OwnFacts DEF Claim, Claimable, Rehashing, PosShape
  <2>2. next[o] + 1 # 0 /\ Ranges(a)' = Ranges(a)
    BY <1>2, <2>1 DEF Ranges
  <2>3. CASE a # o
    <3>1. Claimers(a)' = Claimers(a)
      BY <1>2, <2>1, <2>3 DEF Claimers
    <3>2. \A i \in 0 .. size[a] - 1 : Covered(a, i) => Covered(a, i)'
      BY <1>2, <2>1, <2>3
    <3> HIDE DEF Covered
    <3> QED BY <1>3, <1>4, <2>1, <2>2, <2>3, <3>1, <3>2
  <2>4. CASE a = o
    <3>1. Claimers(a)' = Claimers(a) \cup {t} /\ t \notin Claimers(a)
      BY <1>2, <2>1, <2>2, <2>4 DEF Claimers
    <3>2. Cardinality(Claimers(a)') = refs'[a]
      <4>1. Cardinality(Claimers(a) \cup {t}) = Cardinality(Claimers(a)) + 1
        BY <1>6, <3>1, FS_AddElement
      <4> QED BY <1>2, <1>3, <2>1, <2>4, <3>1, <4>1
    <3>3. \A i \in 0 .. size[a] - 1 : Covered(a, i) => Covered(a, i)'
      BY <1>2, <2>1
    <3>4. ASSUME NEW i \in 0 .. size[a] - 1, i < (next[a] + 1) * RangeLen,
                 ~(i < next[a] * RangeLen)
          PROVE  Covered(a, i)'
      <4>1. i \in Nat /\ next[a] \in Nat /\ next[a] * RangeLen \in Nat
            /\ (next[a] + 1) * RangeLen \in Nat /\ (next[a] + 1 - 1) * RangeLen = next[a] * RangeLen
        BY <1>2
      <4>2. range'[t] = next[a] + 1 /\ range'[t] # 0 /\ oldArr'[t] = a
        BY <1>2, <2>1, <2>2, <2>4
      <4>3. i \in (range'[t] - 1) * RangeLen .. range'[t] * RangeLen - 1
        BY <3>4, <4>1, <4>2
      <4> QED BY <4>2, <4>3
    <3>5. next'[a] = next[a] + 1 /\ refs'[a] = refs[a] + 1
      BY <1>2, <2>1, <2>4
    <3> HIDE DEF Covered
    <3>6. \A i \in 0 .. size'[a] - 1 : i < next'[a] * RangeLen => Covered(a, i)'
      BY <1>4, <2>1, <3>3, <3>4, <3>5
    <3> QED BY <1>2, <1>3, <2>1, <2>2, <2>4, <3>2, <3>5, <3>6
  <2> QED BY <2>3, <2>4
\* A claim ends.
<1>9. CASE Success(t) \/ Fail(t)
  <2> DEFINE o == oldArr[t]
  <2>1. /\ o \in Arrays /\ range[t] # 0
        /\ refs' = [refs EXCEPT ![o] = @ - 1] /\ range' = [range EXCEPT ![t] = 0]
        /\ oldArr' = oldArr /\ size' = size /\ killed' = killed
    BY <1>2, <1>9, OldIsNotCurrent, OwnFacts DEF Success, Fail, Rehashing, PosShape
  <2>2. Ranges(a)' = Ranges(a)
    BY <2>1 DEF Ranges
  <2>3. Cardinality(Claimers(a)') = refs'[a] /\ refs'[a] <= MaxRehashers
    <3>1. CASE a = o
      <4>1. Claimers(a)' = Claimers(a) \ {t} /\ t \in Claimers(a)
        BY <1>2, <2>1, <3>1 DEF Claimers
      <4>2. Cardinality(Claimers(a) \ {t}) = Cardinality(Claimers(a)) - 1
        BY <1>6, <4>1, FS_RemoveElement
      <4>3. refs'[a] = refs[a] - 1
        BY <1>2, <2>1, <3>1
      <4> QED BY <1>2, <1>3, <4>1, <4>2, <4>3
    <3>2. CASE a # o
      <4>1. Claimers(a)' = Claimers(a)
        BY <1>2, <2>1, <3>2 DEF Claimers
      <4> QED BY <1>2, <1>3, <2>1, <3>2, <4>1
    <3> QED BY <3>1, <3>2
  <2>4. next'[a] \in Nat /\ next'[a] <= next[a]
        /\ (Fail(t) /\ a = o => next'[a] <= range[t] - 1)
    BY <1>2, <1>9, <2>1 DEF Success, Fail, Reverted
  <2>5. ASSUME NEW i \in 0 .. size'[a] - 1, i < next'[a] * RangeLen PROVE Covered(a, i)'
    <3>1. i \in Nat /\ i < next[a] * RangeLen
      <4>1. next'[a] * RangeLen <= next[a] * RangeLen /\ next'[a] * RangeLen \in Nat
            /\ next[a] * RangeLen \in Nat
        BY <1>2, <2>4
      <4> QED BY <2>5, <4>1
    <3>2. Covered(a, i)
      <4> HIDE DEF Covered
      <4> QED BY <1>4, <2>1, <3>1
    <3>3. ASSUME a = o, i \in (range[t] - 1) * RangeLen .. range[t] * RangeLen - 1
          PROVE  <<a, i>> \in killed
      <4>1. range[t] \in Nat /\ size[a] \in Nat /\ range[t] * RangeLen \in Nat
            /\ (range[t] - 1) * RangeLen \in Int
        BY <1>2, OwnFacts
      <4>2. CASE Success(t)
        <5>1. (range[t] - 1) * RangeLen <= i /\ i < range[t] * RangeLen /\ i < size[o]
          BY <2>1, <3>1, <3>3, <4>1
        <5> QED BY <3>1, <3>3, <4>2, <5>1 DEF ProgressInv, Progress, Success
      <4>3. CASE Fail(t)
        <5>1. next'[a] * RangeLen <= (range[t] - 1) * RangeLen
          BY <1>2, <2>1, <2>4, <3>3, <4>1, <4>3
        <5> QED BY <1>2, <2>4, <2>5, <3>1, <3>3, <4>1, <5>1
      <4> QED BY <1>9, <4>2, <4>3
    <3>4. ASSUME NEW u \in Threads, u # t, oldArr[u] = a, range[u] # 0,
                 i \in (range[u] - 1) * RangeLen .. range[u] * RangeLen - 1
          PROVE  Covered(a, i)'
      BY <1>2, <2>1, <3>4
    <3> QED BY <2>1, <3>2, <3>3, <3>4
  <2> HIDE DEF Covered
  <2> QED BY <1>3, <2>2, <2>3, <2>4, <2>5
<1> HIDE DEF Covered
<1> QED BY <1>7, <1>8, <1>9, ClaimSteps

-----------------------------------------------------------------------------
(* An array is cleared before it is let go of                               *)

Clearing == Structure /\ Locks /\ BucketsInv /\ ProgressInv /\ Detached /\ ClaimsExact

\* The invariant of the clearing, at first.
LEMMA ClearingInit == Init => Clearing
<1> SUFFICES ASSUME Init PROVE Clearing
  OBVIOUS
<1>1. Structure
  BY StructureInit
<1>2. Locks
  BY DEF Init, Locks, Exclusion, HeldShape, SharedShape, Moving
<1>3. BucketsInv /\ ProgressInv /\ Detached
  BY DEF Init, BucketsInv, ProgressInv, Progress, AtBucket, Detached, BucketsOf
<1>4. ClaimsExact
  <2>1. \A a \in Arrays : {t \in Threads : range[t] # 0 /\ oldArr[t] = a} = {}
    BY DEF Init
  <2>2. RangeLen \in Nat /\ RangeLen > 0 /\ MaxRehashers \in Nat
    BY TableAssumption
  <2>3. \A a \in Arrays : Ranges(a) \in Nat /\ next[a] = 0 /\ refs[a] = 0 /\ size[a] = 0
    BY <1>1, RangesCover DEF Init, Structure
  <2>4. \A a \in Arrays : Cardinality({t \in Threads : range[t] # 0 /\ oldArr[t] = a}) = 0
    BY <2>1, FS_EmptySet
  <2>5. \A a \in Arrays : 0 .. size[a] - 1 = {}
    BY <2>3
  <2> QED BY <2>2, <2>3, <2>4, <2>5 DEF ClaimsExact
<1> QED BY <1>1, <1>2, <1>3, <1>4 DEF Clearing

\* Every step keeps the invariant of the clearing.
LEMMA ClearingStep == ASSUME Clearing, [Next]_vars PROVE Clearing'
<1>1. Structure' /\ Locks'
  BY StructureStep, LocksStep DEF Clearing
<1>2. ASSUME NEW t \in Threads, Step(t) PROVE Clearing'
  <2>1. BucketsInv' /\ Detached' /\ ClaimsExact'
    BY <1>1, <1>2, BucketsOwn, DetachedOwn, ClaimsOwn DEF Clearing
  <2>2. ASSUME NEW u \in Threads PROVE Progress(u)'
    BY <1>1, <1>2, ProgressOwn, ProgressOther DEF Clearing, ProgressInv
  <2> QED BY <1>1, <2>1, <2>2 DEF Clearing, ProgressInv
<1>3. CASE UNCHANGED vars
  <2>1. BucketsInv' /\ ProgressInv'
    BY <1>3 DEF vars, Clearing, BucketsInv, ProgressInv, Progress, Allocated, BucketOf, Index,
                BucketsOf, From
  <2>2. Detached'
    BY <1>3 DEF vars, Clearing, Detached, Reachable, BucketsOf
  <2>3. ClaimsExact'
    <3>1. \A a \in Arrays : Claimers(a)' = Claimers(a) /\ Ranges(a)' = Ranges(a)
      BY <1>3 DEF vars, Claimers, Ranges
    <3>2. ClaimsExact /\ size' = size /\ refs' = refs /\ next' = next /\ killed' = killed
          /\ oldArr' = oldArr /\ range' = range
      BY <1>3 DEF vars, Clearing
    <3> QED BY <3>1, <3>2 DEF ClaimsExact, Claimers
  <2> QED BY <1>1, <2>1, <2>2, <2>3 DEF Clearing
<1> QED BY <1>2, <1>3 DEF Next, Step

\* Clearing is an inductive invariant: bucket locks exclude each other, a killed
\* bucket is empty, claims and the rehashing word agree (incremental_rehash),
\* and what is detached has been cleared.
THEOREM ClearingInvariant == Spec => []Clearing
<1> QED BY ClearingInit, ClearingStep, PTL DEF Spec

\* The references of the rehashing word are the claims, and every range below
\* its index is cleared or claimed, also after others have failed and gone
\* back: what drop_old_array takes for granted.
THEOREM ClaimsExactHolds == Spec => []ClaimsExact
<1>1. Clearing => ClaimsExact
  BY DEF Clearing
<1> QED BY <1>1, ClearingInvariant, PTL

\* An array the table has let go of is empty, and its buckets are killed or
\* about to be by the thread that has dropped the table.
THEOREM DetachedIsClearedHolds == Spec => []DetachedIsCleared
<1>1. ASSUME Clearing PROVE DetachedIsCleared
  <2> SUFFICES ASSUME NEW a \in Arrays, a \notin Reachable, NEW b \in BucketsOf(a)
               PROVE  /\ entries[b] = {}
                      /\ \/ b \in killed
                         \/ \E t \in Threads : pc[t] = "rkill" /\ b \in shared[t]
    BY DEF DetachedIsCleared
  <2> QED BY <1>1 DEF Clearing, Detached, BucketsInv
<1> QED BY <1>1, ClearingInvariant, PTL

\* relocate_bucket never meets a killed target.
THEOREM TargetsAliveHolds == Spec => []TargetsAlive
<1>1. ASSUME Clearing PROVE TargetsAlive
  <2> SUFFICES ASSUME NEW t \in Threads, pc[t] = "relocate", NEW k \in entries[From(t)]
               PROVE  Targets(t, k) \cap killed = {}
    BY DEF TargetsAlive
  <2> QED BY <1>1, TargetNotKilled DEF Clearing, Moving
<1> QED BY <1>1, ClearingInvariant, PTL

-----------------------------------------------------------------------------
(* MovedFirst is inductive                                                  *)

\* How a thread comes to the bucket of its key.
LEMMA WorkSteps ==
  ASSUME Structure, NEW t \in Threads, Step(t), pc'[t] \in {"lock", "hold", "holdS"}
  PROVE  \/ pc[t] \in {"lock", "hold", "holdS"} /\ key'[t] = key[t] /\ arr'[t] = arr[t]
         \/ LoadOld(t) \/ LockOld(t) \/ Kill(t) \/ Check(t)
         \/ \E k \in Keys : OccupiedRemove(t, k)
         \/ pc[t] \in Resize /\ Reserves(t) /\ key'[t] = key[t] /\ arr'[t] = arr[t]
<1>1. pc \in [Threads -> PCs]
  BY DEF Structure, TypeInv
<1> USE DEF arrayVars, bucketVars, lockVars, callVars, moveVars, localVars, Resize
<1> QED BY <1>1 DEF Step, TableStep, ScanStep, Begin, Goto, Offered, Load,
           Allocate, Fresh, NotFound, Reserves, Claim, Claimable, LockTarget,
           GiveUp, MoveEntry, EraseOld, Emptied, Success, DropOld, Fail,
           LockFails, Lookup, InsertEntry, Hold, Lockable, ReserveEntry,
           RemoveEntry, Gone, GetEntry, ReadEntry, VacantInsert, Release,
           ReleaseReader, SearchOld, Search, Reload, ResizeLoad, AfterResize,
           ResizeTag, DropLock, DropSwap, DropKill, ResizeAlloc, ResizeKeep,
           End, Return, AnyBucket, GoOn, Scanning, RetainBucket, PruneBucket,
           WalkBucket, WalkNext, Restarts, ScanEnd, TryResize, IterStart,
           OldFirst, IterBucket, IterEnd, IterSwitch, IterFrom, ScanReturn,
           Reserves

\* The bucket of the old array that a thread has found dead stays dead.
LEMMA PastOther ==
  ASSUME Structure, NEW t \in Threads, Step(t), NEW u \in Threads, Past(u),
         pc'[u] \in {"lock", "hold", "holdS"}, pc[u] \in {"lock", "hold", "holdS"},
         key'[u] = key[u], arr'[u] = arr[u]
  PROVE  Past(u)'
<1>1. Monotone /\ Allocated(arr[u]) /\ arr[u] \in Arrays
  BY Frame, BucketsAtHand DEF Structure, Allocated
<1>2. old'[arr[u]] \in {old[arr[u]], Null}
  BY <1>1 DEF Monotone
<1>3. old[arr[u]] # Null =>
        BucketOf(old[arr[u]], key[u])' = <<old'[arr[u]], Index(old[arr[u]], key[u])>>
        \/ old'[arr[u]] = Null
  <2>1. old[arr[u]] # Null => Allocated(old[arr[u]])
    BY <1>1 DEF Structure, ArraysInv
  <2>2. old[arr[u]] # Null => size'[old[arr[u]]] = size[old[arr[u]]]
    BY <2>1, SizesStay
  <2> QED BY <1>2, <2>2 DEF BucketOf, Index
<1>4. killed \subseteq killed'
  BY <1>1 DEF Monotone
<1> QED BY <1>2, <1>3, <1>4 DEF Past, BucketOf, Index

\* Every step keeps the bucket of the old array dead before that of the new one is
\* used.
LEMMA MovedFirstStep == ASSUME Structure, MovedFirst, [Next]_vars PROVE MovedFirst'
<1> SUFFICES ASSUME NEW u \in Threads PROVE Past(u)'
  BY DEF MovedFirst, Past
<1>1. Past(u)
  BY DEF MovedFirst, Past
<1>2. CASE UNCHANGED vars
  BY <1>1, <1>2 DEF vars, Past, BucketOf, Index
<1>3. ASSUME NEW t \in Threads, Step(t) PROVE Past(u)'
  <2>1. CASE u # t
    BY <1>1, <1>3, <2>1, Frame, PastOther DEF Structure, OthersKeep, Past
  <2>2. CASE u = t
    <3> SUFFICES ASSUME pc'[t] \in {"lock", "hold", "holdS"}, old'[arr'[t]] # Null
                 PROVE  Past(t)'
      BY <2>2 DEF Past
    <3>1. pc \in [Threads -> PCs] /\ PosShape(t) /\ ArrShape(t) /\ ResizeShape(t) /\ OpShape(t)
      BY DEF Structure, TypeInv
    <3> USE DEF arrayVars, bucketVars, lockVars, callVars, moveVars, localVars, Goto
    <3>2. CASE pc[t] \in {"lock", "hold", "holdS"} /\ key'[t] = key[t] /\ arr'[t] = arr[t]
      BY <1>1, <1>3, <2>2, <3>2, PastOther
    <3>3. CASE LoadOld(t) \/ Check(t)
      BY <3>1, <3>3 DEF LoadOld, Check, AfterRehash, Work
    <3>4. CASE LockOld(t) \/ Kill(t)
      <4>1. /\ pc[t] \in AtBucket /\ range[t] = 0 /\ From(t) \in killed'
            /\ arr' = arr /\ old' = old /\ key' = key /\ size' = size
        BY <3>1, <3>4 DEF LockOld, Kill, NextBucket, GiveUp, Killed, AtBucket
      <4>2. old[arr[t]] = oldArr[t] /\ pos[t] = Index(oldArr[t], key[t])
        BY <3>1, <4>1 DEF ArrShape, PosShape, AtBucket, Rehashing
      <4> QED BY <4>1, <4>2 DEF Past, From, BucketOf, Index
    <3>5. ASSUME NEW k \in Keys, OccupiedRemove(t, k) PROVE Past(t)'
      <4>1. pc[t] = "hold" /\ k = key[t]
        BY <3>1, <3>5 DEF OccupiedRemove, ArrShape, OpShape
      <4>2. key'[t] = key[t] /\ arr'[t] = arr[t]
        BY <3>5, <4>1 DEF OccupiedRemove, Structure, TypeInv
      <4> QED BY <1>1, <1>3, <2>2, <4>1, <4>2, PastOther
    <3>6. CASE pc[t] \in Resize /\ Reserves(t) /\ key'[t] = key[t] /\ arr'[t] = arr[t]
      <4>1. arr[t] \in Arrays /\ old[arr[t]] = Null /\ Allocated(arr[t])
        BY <3>1, <3>6 DEF ResizeShape, ArrShape, Allocated
      <4>2. old'[arr[t]] = Null
        BY <1>3, <4>1, Frame DEF Structure, Monotone
      <4> QED BY <3>6, <4>2
    <3> QED BY <1>3, <3>2, <3>3, <3>4, <3>5, <3>6, WorkSteps
  <2> QED BY <2>1, <2>2
<1> QED BY <1>2, <1>3 DEF Next, Step

-----------------------------------------------------------------------------
(* MovedOnce is inductive                                                   *)

\* When a bucket is divided, the mover alone has the targets locked.
LEMMA SpanFree ==
  ASSUME Structure, Locks, BucketsInv, Detached, MovedFirst, NEW t \in Threads,
         pc[t] = "relocate", size[arr[t]] > size[oldArr[t]],
         NEW i \in Span(arr[t], oldArr[t], pos[t]), <<arr[t], i>> \notin held[t]
  PROVE  ~Locked(<<arr[t], i>>)
<1> DEFINE b == <<arr[t], i>>
           m == size[array] \div size[old[array]]
<1>1. /\ arr[t] = array /\ oldArr[t] = old[array] /\ array # Null /\ old[array] # Null
      /\ Allocated(array) /\ Allocated(old[array]) /\ array \in Arrays
  BY Current, OldIsNotCurrent DEF Moving, Structure, ArrShape, Rehashing
<1>2. /\ i \div m = pos[t] /\ size[old[array]] <= size[array]
      /\ ~(size[array] <= size[old[array]])
  <2>1. size[array] \in Nat /\ size[old[array]] \in Nat
    BY <1>1, BucketsFacts DEF Structure, Allocated
  <2> QED BY <1>1, <2>1 DEF Span
<1>3. From(t) \in held[t] /\ From(t) \notin killed /\ From(t) = <<old[array], pos[t]>>
      /\ shared[t] = {}
  BY <1>1 DEF Locks, HeldShape, SharedShape, BucketsInv, From
<1>4. \A k \in Keys : Index(old[array], k) = Index(array, k) \div m
  BY <1>1, <1>2, IndexDivides DEF Structure
<1>5. ASSUME NEW u \in Threads, b \in held[u] \/ b \in shared[u] PROVE FALSE
  <2>1. u # t /\ HeldShape(u) /\ SharedShape(u)
    BY <1>3, <1>5 DEF Locks
  <2>2. ASSUME pc[u] \in {"hold", "holdS"}, b = Home(u) PROVE FALSE
    <3>1. arr[u] = array /\ i = Index(array, key[u]) /\ key[u] \in Keys
      BY <1>1, <2>2, BucketsAtHand DEF Home, BucketOf
    <3>2. BucketOf(old[array], key[u]) \in killed
      BY <1>1, <2>2, <3>1 DEF MovedFirst, Past
    <3>3. Index(old[array], key[u]) = pos[t]
      BY <1>2, <1>4, <3>1
    <3> QED BY <1>3, <3>2, <3>3 DEF BucketOf
  <2>3. CASE b \in shared[u]
    <3>1. pc[u] \in {"rdrop", "rswap", "rkill"} => FALSE
      <4> SUFFICES ASSUME pc[u] \in {"rdrop", "rswap", "rkill"} PROVE FALSE
        OBVIOUS
      <4>1. rarr[u] = array
        BY <1>1, <2>1, <2>3 DEF SharedShape, BucketsOf
      <4> QED BY <1>1, <4>1 DEF Structure, ResizeShape, Resize, Tagged
    <3> QED BY <2>1, <2>2, <2>3, <3>1 DEF SharedShape
  <2>4. CASE b \in held[u]
    <3>1. pc[u] \in Moving => FALSE
      <4> SUFFICES ASSUME pc[u] \in Moving PROVE FALSE
        OBVIOUS
      <4>1. arr[u] = array /\ oldArr[u] = old[array] /\ oldArr[u] # array
        BY Current, OldIsNotCurrent DEF Moving, Rehashing
      <4>2. b # From(u) /\ From(u) \in held[u]
        BY <1>1, <2>1, <4>1 DEF From, HeldShape, Moving
      <4>3. i \in Span(array, old[array], pos[u])
        BY <2>1, <2>4, <4>1, <4>2 DEF HeldShape, Moving
      <4>4. pos[u] = pos[t]
        BY <1>1, <1>2, <4>3 DEF Span
      <4>5. From(u) = From(t)
        BY <1>1, <4>1, <4>4 DEF From
      <4> QED BY <1>3, <2>1, <4>2, <4>5 DEF Locks, Exclusion
    <3>2. pc[u] = "occupied" => FALSE
      <4> SUFFICES ASSUME pc[u] = "occupied" PROVE FALSE
        OBVIOUS
      <4>1. arr[u] = array
        BY <1>1, <2>1, <2>4 DEF HeldShape, At
      <4> QED BY <1>1, <4>1 DEF Structure, ArrShape, OpShape
    <3> QED BY <2>1, <2>2, <2>4, <3>1, <3>2 DEF HeldShape
  <2> QED BY <1>5, <2>3, <2>4
<1> QED BY <1>5 DEF Locked, LockedX

\* So an attempt is not given up after an entry has been moved: with one target
\* the lock is held already, and with several of them they are free.
LEMMA NoRetreat ==
  ASSUME Structure, Locks, BucketsInv, Detached, MovedFirst, NEW t \in Threads,
         pc[t] = "relocate", NEW k \in Keys, k \in entries[From(t)],
         NEW c \in Targets(t, k) \ held[t], Locked(c),
         NEW d \in held[t], d[1] = array
  PROVE  FALSE
<1>1. /\ arr[t] = array /\ Allocated(arr[t]) /\ Allocated(oldArr[t]) /\ oldArr[t] # array
  BY Current, OldIsNotCurrent DEF Moving, Rehashing
<1>2. Index(oldArr[t], k) = pos[t] /\ TypeInv
  BY TargetOfEntry DEF Structure
<1>3. PICK i \in (pos[t] * size[arr[t]]) \div size[oldArr[t]] .. Index(arr[t], k) : c = <<arr[t], i>>
  BY DEF Targets
<1>4. /\ (pos[t] * size[arr[t]]) \div size[oldArr[t]] \in Nat /\ Index(arr[t], k) \in Nat
  BY <1>1, <1>2, SpanFirst, IndexBound
<1>5. i \in Span(arr[t], oldArr[t], pos[t])
  <2>1. i \in Nat /\ i <= Index(arr[t], k) /\ (pos[t] * size[arr[t]]) \div size[oldArr[t]] <= i
    BY <1>3, <1>4
  <2> QED BY <1>1, <1>2, <2>1, SpanTargets
<1>6. CASE size[arr[t]] > size[oldArr[t]]
  BY <1>3, <1>5, <1>6, SpanFree
<1>7. CASE size[arr[t]] <= size[oldArr[t]]
  <2>1. d[1] = arr[t] /\ d[2] \in Span(arr[t], oldArr[t], pos[t])
    BY <1>1 DEF Locks, HeldShape, From
  <2>2. d[2] = i
    BY <1>5, <1>7, <2>1 DEF Span
  <2>3. d = <<d[1], d[2]>>
    BY DEF Structure, TypeInv, Buckets
  <2> QED BY <1>3, <2>1, <2>2, <2>3
<1>8. size[arr[t]] \in Nat /\ size[oldArr[t]] \in Nat
  BY <1>1, <1>2, BucketsFacts DEF Allocated
<1> QED BY <1>6, <1>7, <1>8

\* The steps of a thread that moves the entries of a bucket.
LEMMA MovingSteps ==
  ASSUME NEW t \in Threads, Step(t), pc[t] \in Moving
  PROVE  \/ EraseOld(t) \/ Emptied(t) \/ Kill(t)
         \/ \E k \in Keys : LockTarget(t, k) \/ MoveEntry(t, k)
  BY DEF Moving, Step, TableStep, ScanStep, Scanning, Lockable, Begin, Load,
         LoadOld, Claim, LockOld, Success, DropOld, Fail, Check, LockFails,
         InsertEntry, ReserveEntry, RemoveEntry, GetEntry, ReadEntry,
         VacantInsert, OccupiedRemove, Release, ReleaseReader, SearchOld,
         Search, Reload, ResizeLoad, ResizeTag, DropLock, DropSwap, DropKill,
         ResizeAlloc, ResizeKeep, End, AnyBucket, RetainBucket, PruneBucket,
         WalkBucket, WalkNext, ScanEnd, TryResize, IterStart, IterBucket,
         IterEnd, IterSwitch, ScanReturn

\* A mover goes on until the bucket is killed.
LEMMA MovesOwn ==
  ASSUME Clearing, MovedFirst, NEW t \in Threads, Step(t), NEW k \in Keys, NEW b,
         Moves(t, k, b)
  PROVE  b \in killed' \/ Moves(t, k, b)'
<1> USE DEF arrayVars, bucketVars, lockVars, callVars, moveVars, localVars, Goto
<1>1. /\ Structure /\ Locks /\ BucketsInv /\ Detached /\ pc[t] \in Moving /\ From(t) = b
      /\ pc \in [Threads -> PCs] /\ held \in [Threads -> SUBSET Buckets]
      /\ entries \in [Buckets -> SUBSET Keys] /\ copied \in [Threads -> SUBSET Keys]
      /\ PosShape(t) /\ From(t) \in Buckets
  BY BucketsAtHand DEF Clearing, Structure, TypeInv, Moves, Moving, AtBucket
<1>2. CASE Kill(t)
  BY <1>1, <1>2 DEF Kill
<1>3. ASSUME pc[t] # "kill"
      PROVE  /\ BucketOf(array, k) \in held[t] /\ (k \in entries[b] => k \in copied[t])
             /\ array \in Arrays /\ Allocated(array) /\ arr[t] = array /\ oldArr[t] # array
             /\ From(t) # BucketOf(array, k)
  BY <1>1, <1>3, Current, OldIsNotCurrent DEF Moves, Moving, Rehashing, From, BucketOf
<1>4. ASSUME pc[t] # "kill", array' = array, size' = size PROVE BucketOf(array, k)' = BucketOf(array, k)
  BY <1>4 DEF BucketOf, Index
<1>5. ASSUME NEW j \in Keys, LockTarget(t, j) PROVE Moves(t, k, b)'
  <2>1. /\ pc[t] = "relocate" /\ array' = array /\ size' = size /\ oldArr' = oldArr
        /\ entries' = entries /\ copied' = copied
    BY <1>5 DEF LockTarget
  <2>2. PICK c \in Targets(t, j) \ held[t] :
          \/ /\ held' = [held EXCEPT ![t] = @ \cup {c}] /\ UNCHANGED <<pc, pos>>
          \/ Locked(c)
    BY <1>5 DEF LockTarget
  <2>3. j \in entries[From(t)]
    BY <1>5 DEF LockTarget
  <2>4. ~Locked(c)
    <3>1. BucketOf(array, k) \in held[t] /\ BucketOf(array, k)[1] = array
      BY <1>3, <2>1 DEF BucketOf
    <3> QED BY <1>1, <2>1, <2>2, <2>3, <3>1, NoRetreat
  <2> QED BY <1>1, <1>3, <1>4, <2>1, <2>2, <2>4 DEF Moves, From
<1>6. ASSUME NEW j \in Keys, MoveEntry(t, j) PROVE Moves(t, k, b)'
  <2>1. /\ pc[t] = "relocate" /\ array' = array /\ size' = size /\ oldArr' = oldArr
        /\ pos' = pos /\ held' = held /\ j \in entries[From(t)]
    BY <1>6 DEF MoveEntry
  <2>2. copied[t] = {} /\ k \notin entries[b] /\ j # k
    BY <1>1, <1>3, <2>1 DEF PosShape
  <2>3. BucketOf(arr[t], j) # From(t) /\ BucketOf(arr[t], j) \in Buckets
    BY <1>1, <1>3, <2>1, TargetOfEntry DEF BucketOf, From
  <2>4. k \notin entries'[b]
    BY <1>1, <1>6, <2>2, <2>3 DEF MoveEntry
  <2>5. pc'[t] \in {"relocate", "erase"}
    BY <1>1, <1>6 DEF MoveEntry
  <2> QED BY <1>1, <1>3, <1>4, <2>1, <2>4, <2>5 DEF Moves, From, Moving
<1>7. CASE EraseOld(t)
  <2>1. /\ pc[t] = "erase" /\ pc'[t] = "relocate" /\ array' = array /\ size' = size
        /\ oldArr' = oldArr /\ pos' = pos /\ held' = held
        /\ entries'[b] = entries[b] \ copied[t]
    BY <1>1, <1>7 DEF EraseOld
  <2> QED BY <1>1, <1>3, <1>4, <2>1 DEF Moves, From, Moving
<1>8. CASE Emptied(t)
  BY <1>1, <1>8 DEF Emptied, Moves, From, Moving
<1> QED BY <1>1, <1>2, <1>5, <1>6, <1>7, <1>8, MovingSteps

\* A step of t does not interfere with an entry that another thread moves.
LEMMA MovesOther ==
  ASSUME Clearing, Locks', NEW t \in Threads, Step(t), NEW u \in Threads, u # t,
         NEW k \in Keys, NEW b, Moves(u, k, b), array' = array
  PROVE  Moves(u, k, b)'
<1>1. /\ Structure /\ Locks /\ BucketsInv /\ Detached /\ pc[u] \in Moving /\ From(u) = b
      /\ b \in Buckets /\ b \in held[u]
  BY BucketsAtHand DEF Clearing, Moves, Moving, AtBucket, Locks, HeldShape
<1>2. /\ pc'[u] = pc[u] /\ oldArr'[u] = oldArr[u] /\ pos'[u] = pos[u] /\ held'[u] = held[u]
      /\ copied'[u] = copied[u]
  BY <1>1, Frame DEF Structure, OthersKeep
<1>3. BucketOf(array, k)' = BucketOf(array, k)
  <2>1. Allocated(array)
    BY <1>1, Current, OldIsNotCurrent DEF Moving, Rehashing
  <2>2. size'[array] = size[array]
    BY <1>1, <2>1, SizesStay
  <2> QED BY <2>2 DEF BucketOf, Index
<1>4. k \in entries'[b] => k \in entries[b]
  <2>1. b \notin held'[t]
    BY <1>1, <1>2 DEF Locks, Exclusion
  <2> QED BY <1>1, <2>1, Writes
<1> QED BY <1>1, <1>2, <1>3, <1>4 DEF Moves, From

\* A step keeps a key in two buckets only while its entry is being moved.
LEMMA MovedOnceOwn ==
  ASSUME Clearing, Clearing', MovedFirst, MovedOnce, NEW t \in Threads, Step(t)
  PROVE  MovedOnce'
<1> SUFFICES ASSUME array' # Null, old'[array'] # Null, NEW k \in Keys,
                    NEW b, b = BucketOf(old[array], k)',
                    NEW c, c = BucketOf(array, k)', k \in entries'[c]
             PROVE  b \in killed' \/ \E u \in Threads : Moves(u, k, b)'
  BY DEF MovedOnce, Moves
<1> USE DEF arrayVars, bucketVars, lockVars, callVars, moveVars, localVars, Goto
<1>1. /\ Structure /\ Locks /\ BucketsInv /\ Detached /\ Locks' /\ ArraysInv
      /\ array \in Pointers /\ old \in [Arrays -> Pointers] /\ size \in [Arrays -> Sizes \cup {0}]
      /\ arr[t] \in Pointers /\ ResizeShape(t) /\ ArrShape(t)
  BY DEF Clearing, Structure, TypeInv
<1>2. CASE ResizeAlloc(t) \/ (Load(t) /\ array = Null)
  <2>1. PICK n \in Fresh : array' = n /\ entries' = entries
    BY <1>2 DEF ResizeAlloc, Load, Allocate
  <2>2. ~Allocated(n) /\ n \in Arrays
    BY <1>1, <2>1, FreshIsLast
  <2>3. c \in Buckets /\ c[1] = n
    <3>1. size'[n] \in Sizes
      BY <2>1 DEF Clearing, Structure, TypeInv, ArraysInv, Allocated
    <3>2. c = <<n, Hash[k] \div (HashRange \div size'[n])>>
      BY <2>1 DEF BucketOf, Index
    <3> QED BY <2>2, <3>1, <3>2, IndexOfSize DEF Buckets
  <2> QED BY <1>1, <2>1, <2>2, <2>3 DEF BucketsInv
<1>3. CASE DropSwap(t)
  BY <1>3 DEF DropSwap
<1>4. CASE array' = array /\ old'[array] = old[array]
  <2>1. Allocated(array) /\ Allocated(old[array]) /\ array \in Arrays /\ array # old[array]
    BY <1>1, <1>4 DEF ArraysInv, Pointers, Allocated, Arrays
  <2>2. size'[array] = size[array] /\ size'[old[array]] = size[old[array]]
    BY <1>1, <2>1, SizesStay
  <2>3. b = BucketOf(old[array], k) /\ c = BucketOf(array, k) /\ c \in Buckets
    BY <1>1, <1>4, <2>1, <2>2, IndexBound DEF BucketOf, Index, Structure
  <2>4. killed \subseteq killed'
    BY <1>1, Frame DEF Structure, Monotone
  <2>5. CASE k \in entries[c]
    <3>1. b \in killed \/ \E u \in Threads : Moves(u, k, b)
      BY <1>4, <2>3, <2>5 DEF MovedOnce, Moves
    <3>2. ASSUME NEW u \in Threads, Moves(u, k, b)
          PROVE  b \in killed' \/ \E v \in Threads : Moves(v, k, b)'
      <4>1. CASE u = t
        BY <3>2, <4>1, MovesOwn
      <4>2. CASE u # t
        BY <1>1, <1>4, <3>2, <4>2, MovesOther
      <4> QED BY <4>1, <4>2
    <3> QED BY <2>3, <2>4, <3>1, <3>2
  <2>6. CASE k \notin entries[c]
    <3>1. c[1] = array /\ c = BucketOf(array, k)
      BY <2>3 DEF BucketOf
    <3>2. entries \in [Buckets -> SUBSET Keys]
      BY <1>1 DEF Structure, TypeInv
    <3>3. ASSUME InsertEntry(t) \/ VacantInsert(t) PROVE b \in killed
      <4>1. c = Home(t) /\ k = key[t] /\ pc[t] \in {"lock", "hold"}
        BY <2>3, <2>6, <3>2, <3>3 DEF InsertEntry, VacantInsert, Lockable
      <4>2. arr[t] = array
        BY <3>1, <4>1 DEF Home, BucketOf
      <4> QED BY <1>4, <2>3, <4>1, <4>2 DEF MovedFirst, Past
    <3>4. ASSUME NEW j \in Keys, MoveEntry(t, j) PROVE Moves(t, k, b)'
      <4>1. /\ pc[t] = "relocate" /\ oldArr' = oldArr /\ pos' = pos /\ held' = held
            /\ j \in entries[From(t)] /\ Targets(t, j) \subseteq held[t]
        BY <3>4 DEF MoveEntry
      <4>2. /\ From(t) = BucketOf(oldArr[t], j) /\ BucketOf(arr[t], j) \in held[t]
            /\ From(t) \in Buckets /\ BucketOf(arr[t], j) \in Buckets
        BY <1>1, <4>1, TargetOfEntry, BucketsAtHand DEF AtBucket
      <4>3. arr[t] = array /\ oldArr[t] = old[array]
        BY <1>1, <4>1, Current DEF Moving
      <4>4. From(t)[1] # c[1] /\ BucketOf(arr[t], j)[1] = array
        BY <2>1, <3>1, <4>3 DEF From, BucketOf
      <4>5. j = k /\ BucketOf(arr[t], j) = c
        BY <2>3, <2>6, <3>2, <3>4, <4>2, <4>4 DEF MoveEntry
      <4>6. From(t) = b /\ c \in held[t]
        BY <2>3, <4>2, <4>3, <4>5
      <4>7. \/ pc'[t] = "relocate" /\ k \notin entries'[b]
            \/ pc'[t] = "erase" /\ k \in copied'[t]
        <5>1. pc \in [Threads -> PCs] /\ copied \in [Threads -> SUBSET Keys]
          BY <1>1 DEF Structure, TypeInv
        <5>2. CASE Optimistic
          BY <3>4, <4>5, <5>1, <5>2 DEF MoveEntry
        <5>3. CASE ~Optimistic
          <6>1. entries'[b] = entries[b] \ {k}
            BY <3>1, <3>2, <3>4, <4>2, <4>4, <4>5, <4>6, <5>3 DEF MoveEntry
          <6> QED BY <3>4, <4>1, <5>3, <6>1 DEF MoveEntry
        <5> QED BY <5>2, <5>3
      <4> QED BY <2>3, <4>1, <4>6, <4>7 DEF Moves, Moving, From
    <3>5. \/ InsertEntry(t) \/ VacantInsert(t) \/ \E j \in Keys : MoveEntry(t, j)
      <4>1. ~EraseOld(t) /\ ~RemoveEntry(t)
        BY <2>3, <2>6, <3>2 DEF EraseOld, RemoveEntry
      <4>2. ASSUME NEW j \in Keys, OccupiedRemove(t, j) PROVE FALSE
        BY <2>3, <2>6, <3>2, <4>2 DEF OccupiedRemove
      <4>3. ~RetainBucket(t) /\ ~PruneBucket(t)
        BY <2>3, <2>6, <3>2 DEF RetainBucket, PruneBucket
      <4> QED BY <2>3, <2>6, <4>1, <4>2, <4>3, EntriesSteps
    <3> QED BY <2>3, <2>4, <3>3, <3>4, <3>5
  <2> QED BY <2>5, <2>6
<1>5. CASE DropOld(t)
  BY <1>1, <1>4, <1>5 DEF DropOld, ArraysInv, Pointers
<1> QED BY <1>2, <1>3, <1>4, <1>5, ArraySteps

-----------------------------------------------------------------------------
(* A key is in one place                                                    *)

HomeInv == Clearing /\ MovedFirst /\ MovedOnce

\* Whoever locks the bucket of its key has moved it out of the old array before
\* (move_entry), and what has got into the current array has left the old one;
\* with Clearing this is inductive.
THEOREM HomeInvariant == Spec => []HomeInv
<1>1. Init => HomeInv
  <2>1. ASSUME Init PROVE MovedFirst /\ MovedOnce
    BY <2>1 DEF Init, MovedFirst, Past, MovedOnce
  <2> QED BY <2>1, ClearingInit DEF HomeInv
<1>2. HomeInv /\ [Next]_vars => HomeInv'
  <2> SUFFICES ASSUME HomeInv, [Next]_vars PROVE HomeInv'
    OBVIOUS
  <2>1. Clearing' /\ MovedFirst'
    BY ClearingStep, MovedFirstStep DEF HomeInv, Clearing
  <2>2. ASSUME NEW t \in Threads, Step(t) PROVE MovedOnce'
    BY <2>1, <2>2, MovedOnceOwn DEF HomeInv
  <2>3. ASSUME UNCHANGED vars PROVE MovedOnce'
    <3>1. \A k : /\ BucketOf(array, k)' = BucketOf(array, k)
                /\ BucketOf(old[array], k)' = BucketOf(old[array], k)
      BY <2>3 DEF vars, BucketOf, Index
    <3>2. /\ MovedOnce /\ array' = array /\ old' = old /\ entries' = entries
          /\ killed' = killed /\ pc' = pc /\ held' = held /\ copied' = copied
          /\ \A t : From(t)' = From(t)
      BY <2>3 DEF vars, HomeInv, From
    <3> QED BY <3>1, <3>2 DEF MovedOnce, Moves
  <2> QED BY <2>1, <2>2, <2>3 DEF HomeInv, Next, Step
<1> QED BY <1>1, <1>2, PTL DEF Spec

\* What is in a bucket of a reachable array is in the one of its hash.
LEMMA ReachableFacts ==
  ASSUME Structure, BucketsInv, NEW a \in Reachable
  PROVE  /\ a \in Arrays /\ Allocated(a) /\ array # Null /\ BucketsOf(a) \subseteq Buckets
         /\ \A b \in BucketsOf(a) : b[1] = a /\ \A k \in entries[b] : k \in Keys /\ b = BucketOf(a, k)
<1>1. a \in Arrays /\ Allocated(a) /\ array # Null
  BY DEF Reachable, Structure, ArraysInv, TypeInv, Allocated, Pointers
<1>2. BucketsOf(a) \subseteq Buckets /\ \A b \in BucketsOf(a) : b[1] = a
  BY <1>1, BucketsFacts DEF Structure, BucketsOf
<1> QED BY <1>1, <1>2 DEF BucketsInv, Structure, TypeInv

\* A key is never in two buckets, but for the moment in which the thread that
\* moves it has both locked; and it is in the bucket for its hash.
THEOREM OneHomeHolds == Spec => []OneHome
<1>1. ASSUME HomeInv PROVE OneHome
  <2> SUFFICES ASSUME NEW a \in Reachable, NEW c \in Reachable, NEW k \in Keys,
                      NEW b \in BucketsOf(a), NEW d \in BucketsOf(c),
                      k \in entries[b], k \in entries[d]
               PROVE  /\ b = BucketOf(a, k)
                      /\ \/ b = d
                         \/ \E t \in Threads : k \in copied[t] /\ {b, d} \subseteq held[t]
    BY DEF OneHome
  <2>1. /\ Structure /\ Locks /\ BucketsInv /\ ProgressInv /\ MovedOnce
    BY <1>1 DEF HomeInv, Clearing
  <2>2. b = BucketOf(a, k) /\ d = BucketOf(c, k) /\ array # Null
    BY <2>1, ReachableFacts
  <2>3. CASE a = c
    BY <2>2, <2>3
  <2>4. CASE a # c
    <3>1. old[array] # Null /\ {a, c} = {array, old[array]}
      BY <2>4 DEF Reachable
    <3> DEFINE x == BucketOf(old[array], k)
               y == BucketOf(array, k)
    <3>2. {b, d} = {x, y} /\ k \in entries[x] /\ k \in entries[y]
      BY <2>2, <3>1
    <3> HIDE DEF x, y
    <3>3. x \notin killed
      BY <2>1, <3>2 DEF BucketsInv
    <3>4. PICK t \in Threads : Moves(t, k, x)
      BY <2>1, <2>2, <3>1, <3>2, <3>3 DEF MovedOnce, x, y
    <3>5. pc[t] # "kill" /\ From(t) = x /\ From(t) \in held[t]
      BY <2>1, <3>2, <3>4 DEF Moves, ProgressInv, Progress, Locks, HeldShape, Moving
    <3>6. y \in held[t] /\ k \in copied[t]
      BY <3>2, <3>4, <3>5 DEF Moves, y
    <3> QED BY <2>2, <3>2, <3>5, <3>6
  <2> QED BY <2>3, <2>4
<1> QED BY <1>1, HomeInvariant, PTL

\* Whoever has the bucket of its key locked sees in it whether the key is in
\* the table, also if the array has become the old one or has an old one.
THEOREM LockIsAuthorityHolds == Spec => []LockIsAuthority
<1>1. ASSUME HomeInv PROVE LockIsAuthority
  <2> SUFFICES ASSUME NEW t \in Threads, pc[t] = "hold"
               PROVE  key[t] \in Contents <=> key[t] \in entries[Home(t)]
    BY DEF LockIsAuthority
  <2>1. /\ Structure /\ Locks /\ BucketsInv /\ Detached /\ MovedFirst /\ MovedOnce
    BY <1>1 DEF HomeInv, Clearing
  <2>2. /\ held[t] = {Home(t)} /\ Home(t) \in BucketsOf(arr[t]) /\ key[t] \in Keys
        /\ arr[t] \in Arrays
    BY <2>1, BucketsAtHand DEF Locks, HeldShape, Allocated
  <2>3. arr[t] \in Reachable
    <3>1. Home(t) \notin killed /\ \A u \in Threads : pc[u] = "rkill" => Home(t) \notin shared[u]
      BY <2>1, <2>2 DEF BucketsInv, Locks, Exclusion
    <3> QED BY <2>1, <2>2, <3>1 DEF Detached
  <2>4. key[t] \in entries[Home(t)] => key[t] \in Contents
    BY <2>2, <2>3 DEF Contents
  <2>5. ASSUME key[t] \in Contents PROVE key[t] \in entries[Home(t)]
    <3>1. PICK c \in Reachable : \E d \in BucketsOf(c) : key[t] \in entries[d]
      BY <2>5 DEF Contents
    <3>2. key[t] \in entries[BucketOf(c, key[t])] /\ array # Null
      BY <2>1, <3>1, ReachableFacts
    <3>3. CASE c = arr[t]
      BY <3>2, <3>3 DEF Home
    <3>4. CASE arr[t] = array /\ c = old[array]
      <4>1. BucketOf(c, key[t]) \in killed
        BY <2>1, <3>1, <3>4 DEF MovedFirst, Past, Reachable
      <4> QED BY <2>1, <3>2, <4>1 DEF BucketsInv
    <3>5. CASE arr[t] = old[array] /\ c = array
      <4>1. Home(t) = BucketOf(old[array], key[t]) /\ old[array] # Null
        BY <2>3, <3>5 DEF Home, Reachable
      <4>2. Home(t) \notin killed
        BY <2>1, <2>2 DEF BucketsInv
      <4>3. PICK u \in Threads : Moves(u, key[t], Home(t))
        BY <2>1, <2>2, <3>2, <3>5, <4>1, <4>2 DEF MovedOnce
      <4>4. Home(t) \in held[u] /\ u # t
        BY <2>1, <4>3 DEF Moves, Locks, HeldShape, Moving
      <4> QED BY <2>1, <2>2, <4>4 DEF Locks, Exclusion
    <3> QED BY <2>3, <3>1, <3>3, <3>4, <3>5 DEF Reachable
  <2> QED BY <2>4, <2>5
<1> QED BY <1>1, HomeInvariant, PTL

-----------------------------------------------------------------------------
(* Lookups and scans: what they have still to find                          *)

\* The key is in the current array; it is in the old one.
InCurrent(k) == array # Null /\ k \in entries[BucketOf(array, k)]
InOld(k) ==
  array # Null /\ old[array] # Null /\ k \in entries[BucketOf(old[array], k)]

\* A key that has been copied is in its new bucket, which is still locked.
Copied(t) ==
  \A k \in copied[t] :
    BucketOf(arr[t], k) \in held[t] /\ k \in entries[BucketOf(arr[t], k)]

\* What a thread has still to find is in the table, and it looks for it.
DueKnown(t) ==
  /\ \A k \in due[t] : InCurrent(k) \/ InOld(k)
  /\ op[t] \notin ScanOps \cup {"read"} => due[t] = {}
  /\ op[t] = "read" => due[t] \subseteq {key[t]}

\* A thread that has come to the end has nothing left to find, unless the array
\* has been replaced, which it will notice.
DueMissed(t) ==
  /\ pc[t] \in {"missing", "scanned"} => due[t] = {}
  /\ pc[t] = "reload" /\ due[t] # {} => array # arr[t]

\* What is left to find is in front of the thread: in the current array, if
\* that is the one it is in, and behind it in the old array there is only what
\* has been moved on to the current one.
DueAhead(t) ==
  /\ pc[t] = "search" /\ arr[t] = array => \A k \in due[t] : InCurrent(k)
  /\ pc[t] = "scan" /\ arr[t] = array =>
       \A k \in due[t] : pos[t] <= Index(array, k) /\ InCurrent(k)
  /\ pc[t] = "occupied" /\ arr[t] = array => \A k \in due[t] : pos[t] < Index(array, k)
  /\ pc[t] = "scan" /\ array # Null /\ arr[t] = old[array] =>
       \A k \in due[t] : Index(old[array], k) < pos[t] => InCurrent(k)
  /\ pc[t] = "switch" /\ arr[t] = array /\ oldArr[t] = old[array] =>
       \A k \in due[t] : InCurrent(k)

LookupInv ==
  \A t \in Threads : Copied(t) /\ DueKnown(t) /\ DueMissed(t) /\ DueAhead(t)

-----------------------------------------------------------------------------
(* The keys of the table                                                    *)

\* A key of the table is in its bucket of the current array or of the old one.
LEMMA WhereKeysAre ==
  ASSUME Structure, BucketsInv, NEW k
  PROVE  k \in Contents <=> k \in Keys /\ (InCurrent(k) \/ InOld(k))
<1>1. ASSUME k \in Contents PROVE k \in Keys /\ (InCurrent(k) \/ InOld(k))
  <2>1. PICK a \in Reachable : \E b \in BucketsOf(a) : k \in entries[b]
    BY <1>1 DEF Contents
  <2>2. /\ Allocated(a) /\ array # Null /\ k \in Keys /\ k \in entries[BucketOf(a, k)]
    BY <2>1, ReachableFacts
  <2>3. a = array \/ (a = old[array] /\ old[array] # Null)
    BY <2>1, <2>2 DEF Reachable
  <2> QED BY <2>2, <2>3 DEF InCurrent, InOld
<1>2. ASSUME NEW a \in Reachable, k \in Keys, k \in entries[BucketOf(a, k)]
      PROVE  k \in Contents
  <2>1. BucketOf(a, k) \in BucketsOf(a)
    BY <1>2, ReachableFacts, IndexBound DEF Structure
  <2> QED BY <1>2, <2>1 DEF Contents
<1>3. ASSUME k \in Keys, InCurrent(k) \/ InOld(k) PROVE k \in Contents
  <2>1. CASE InCurrent(k)
    BY <1>2, <1>3, <2>1 DEF InCurrent, Reachable
  <2>2. CASE InOld(k)
    BY <1>2, <1>3, <2>2 DEF InOld, Reachable
  <2> QED BY <1>3, <2>1, <2>2
<1> QED BY <1>1, <1>3

\* The bucket of a key in an allocated array, before and after a step.
LEMMA BucketStays ==
  ASSUME Structure, NEW t \in Threads, Step(t), NEW a, Allocated(a), NEW k \in Keys
  PROVE  /\ BucketOf(a, k)' = BucketOf(a, k) /\ Index(a, k)' = Index(a, k)
         /\ BucketOf(a, k) \in Buckets /\ BucketOf(a, k) \in BucketsOf(a)
         /\ BucketsOf(a)' = BucketsOf(a)
  BY SizesStay, IndexBound DEF Structure

\* Nothing leaves a bucket but by being moved from it, with the bucket being
\* the old one, or for good.
LEMMA Leaves ==
  ASSUME Structure, Locks, BucketsInv, NEW t \in Threads, Step(t),
         NEW b \in Buckets, NEW k \in entries[b], k \notin entries'[b]
  PROVE  \/ \A u \in Threads : k \notin due'[u]
         \/ MoveEntry(t, k) /\ b = From(t)
         \/ EraseOld(t) /\ b = From(t) /\ k \in copied[t]
<1> USE DEF arrayVars, bucketVars, lockVars, callVars, moveVars, localVars, Goto
<1>1. /\ entries \in [Buckets -> SUBSET Keys] /\ due \in [Threads -> SUBSET Keys]
      /\ HeldShape(t) /\ held \in [Threads -> SUBSET Buckets]
  BY DEF Structure, TypeInv, Locks
<1>2. ASSUME NEW j \in Keys, MoveEntry(t, j) PROVE j = k /\ b = From(t)
  <2>1. From(t) \in Buckets /\ BucketOf(arr[t], j) \in Buckets
    BY <1>2, BucketsAtHand, TargetOfEntry DEF MoveEntry, AtBucket
  <2> QED BY <1>1, <1>2, <2>1 DEF MoveEntry
<1>3. CASE EraseOld(t)
  BY <1>1, <1>3, BucketsAtHand DEF EraseOld, AtBucket
<1>4. CASE InsertEntry(t) \/ VacantInsert(t)
  <2>1. Home(t) \in Buckets
    BY <1>4, BucketsAtHand DEF InsertEntry, VacantInsert, Lockable
  <2> QED BY <1>1, <1>4, <2>1 DEF InsertEntry, VacantInsert
<1>5. CASE RemoveEntry(t)
  BY <1>1, <1>5 DEF RemoveEntry, Gone
<1>6. ASSUME NEW j \in Keys, OccupiedRemove(t, j) PROVE \A u \in Threads : k \notin due'[u]
  BY <1>1, <1>6 DEF OccupiedRemove
<1>7. CASE RetainBucket(t)
  BY <1>1, <1>7 DEF RetainBucket, GoOn
<1>8. CASE PruneBucket(t)
  BY <1>1, <1>8 DEF PruneBucket, GoOn
<1> QED BY <1>2, <1>3, <1>4, <1>5, <1>6, <1>7, <1>8, EntriesSteps

\* What is in the current array stays there.
LEMMA CurrentStays ==
  ASSUME Structure, Locks, BucketsInv, NEW t \in Threads, Step(t), array' = array,
         NEW k \in Keys, InCurrent(k), NEW u \in Threads, k \in due'[u]
  PROVE  InCurrent(k)'
<1>1. /\ Allocated(array) /\ BucketOf(array, k) \in Buckets /\ BucketOf(array, k)[1] = array
      /\ k \in entries[BucketOf(array, k)] /\ array # Null
  BY IndexBound DEF Structure, ArraysInv, BucketOf, InCurrent
<1>2. k \in entries'[BucketOf(array, k)]
  <2> SUFFICES ASSUME k \notin entries'[BucketOf(array, k)] PROVE FALSE
    OBVIOUS
  <2>1. pc[t] \in {"relocate", "erase"} /\ BucketOf(array, k) = From(t)
    BY <1>1, Leaves DEF MoveEntry, EraseOld
  <2> QED BY <1>1, <2>1, OldIsNotCurrent DEF Rehashing, From
<1>3. BucketOf(array, k)' = BucketOf(array, k)
  BY <1>1, SizesStay DEF BucketOf, Index
<1> QED BY <1>1, <1>2, <1>3 DEF InCurrent

\* The steps that change the record of what has been copied.
LEMMA CopiedSteps ==
  ASSUME Structure, NEW t \in Threads, Step(t)
  PROVE  \/ copied' = copied \/ copied'[t] = {} \/ EraseOld(t)
         \/ \E j \in Keys : MoveEntry(t, j)
<1>1. copied \in [Threads -> SUBSET Keys]
  BY DEF Structure, TypeInv
<1> USE DEF arrayVars, bucketVars, lockVars, callVars, moveVars, localVars,
          Goto
<1>2. ASSUME NEW o \in Ops[type][t], NEW k \in Keys, Begin(t, o, k)
      PROVE  copied' = copied \/ copied'[t] = {} \/ EraseOld(t) \/ \E j \in Keys : MoveEntry(t, j)
  BY <1>2, <1>1 DEF Begin, Offered
<1>3. CASE Load(t)
  BY <1>3, <1>1 DEF Load, Allocate, Fresh, NotFound, Reserves
<1>4. CASE LoadOld(t)
  BY <1>4, <1>1 DEF LoadOld, Work, Reserves
<1>5. CASE Claim(t)
  BY <1>5, <1>1 DEF Claim, Claimable
<1>6. CASE LockOld(t)
  BY <1>6, <1>1 DEF LockOld, NextBucket, GiveUp
<1>7. ASSUME NEW k \in Keys, LockTarget(t, k)
      PROVE  copied' = copied \/ copied'[t] = {} \/ EraseOld(t) \/ \E j \in Keys : MoveEntry(t, j)
  BY <1>7, <1>1 DEF LockTarget, GiveUp
<1>8. ASSUME NEW k \in Keys, MoveEntry(t, k)
      PROVE  copied' = copied \/ copied'[t] = {} \/ EraseOld(t) \/ \E j \in Keys : MoveEntry(t, j)
  BY <1>8
<1>9. CASE EraseOld(t)
  BY <1>9
<1>10. CASE Emptied(t)
  BY <1>10, <1>1 DEF Emptied
<1>11. CASE Kill(t)
  BY <1>11, <1>1 DEF Kill, NextBucket
<1>12. CASE Success(t)
  BY <1>12, <1>1 DEF Success
<1>13. CASE DropOld(t)
  BY <1>13, <1>1 DEF DropOld
<1>14. CASE Fail(t)
  BY <1>14, <1>1 DEF Fail
<1>15. CASE Check(t)
  BY <1>15, <1>1 DEF Check, AfterRehash, Work
<1>16. CASE LockFails(t)
  BY <1>16, <1>1 DEF LockFails, Lookup
<1>17. CASE InsertEntry(t)
  BY <1>17, <1>1 DEF InsertEntry, Hold, Lockable
<1>18. CASE ReserveEntry(t)
  BY <1>18, <1>1 DEF ReserveEntry, Hold, Lockable
<1>19. CASE RemoveEntry(t)
  BY <1>19, <1>1 DEF RemoveEntry, Hold, Gone, Lockable
<1>20. CASE GetEntry(t)
  BY <1>20, <1>1 DEF GetEntry, Hold, Lockable
<1>21. CASE ReadEntry(t)
  BY <1>21, <1>1 DEF ReadEntry
<1>22. CASE VacantInsert(t)
  BY <1>22, <1>1 DEF VacantInsert
<1>23. ASSUME NEW k \in Keys, OccupiedRemove(t, k)
      PROVE  copied' = copied \/ copied'[t] = {} \/ EraseOld(t) \/ \E j \in Keys : MoveEntry(t, j)
  BY <1>23, <1>1 DEF OccupiedRemove
<1>24. CASE Release(t)
  BY <1>24, <1>1 DEF Release
<1>25. CASE ReleaseReader(t)
  BY <1>25, <1>1 DEF ReleaseReader
<1>26. CASE SearchOld(t)
  BY <1>26, <1>1 DEF SearchOld
<1>27. CASE Search(t)
  BY <1>27, <1>1 DEF Search
<1>28. CASE Reload(t)
  BY <1>28, <1>1 DEF Reload, NotFound
<1>29. CASE ResizeLoad(t)
  BY <1>29, <1>1 DEF ResizeLoad, AfterResize, Reserves
<1>30. CASE ResizeTag(t)
  BY <1>30, <1>1 DEF ResizeTag, AfterResize, Reserves
<1>31. CASE DropLock(t)
  BY <1>31, <1>1 DEF DropLock
<1>32. CASE DropSwap(t)
  BY <1>32, <1>1 DEF DropSwap
<1>33. CASE DropKill(t)
  BY <1>33, <1>1 DEF DropKill, AfterResize, Reserves
<1>34. CASE ResizeAlloc(t)
  BY <1>34, <1>1 DEF ResizeAlloc, AfterResize, Allocate, Fresh, Reserves
<1>35. CASE ResizeKeep(t)
  BY <1>35, <1>1 DEF ResizeKeep, AfterResize, Reserves
<1>36. CASE End(t)
  BY <1>36, <1>1 DEF End, Return
<1>37. CASE AnyBucket(t)
  BY <1>37, <1>1 DEF AnyBucket, GoOn, Scanning
<1>38. CASE RetainBucket(t)
  BY <1>38, <1>1 DEF RetainBucket, GoOn, Scanning
<1>39. CASE PruneBucket(t)
  BY <1>39, <1>1 DEF PruneBucket, GoOn, Scanning
<1>40. CASE WalkBucket(t)
  BY <1>40, <1>1 DEF WalkBucket, GoOn, Scanning
<1>41. CASE WalkNext(t)
  BY <1>41, <1>1 DEF WalkNext, Restarts
<1>42. CASE ScanEnd(t)
  BY <1>42, <1>1 DEF ScanEnd
<1>43. CASE TryResize(t)
  BY <1>43, <1>1 DEF TryResize
<1>44. CASE IterStart(t)
  BY <1>44, <1>1 DEF IterStart, OldFirst
<1>45. CASE IterBucket(t)
  BY <1>45, <1>1 DEF IterBucket, GoOn
<1>46. CASE IterEnd(t)
  BY <1>46, <1>1 DEF IterEnd
<1>47. CASE IterSwitch(t)
  BY <1>47, <1>1 DEF IterSwitch, IterFrom, OldFirst
<1>48. CASE ScanReturn(t)
  BY <1>48, <1>1 DEF ScanReturn, Return
<1> QED BY <1>2, <1>3, <1>4, <1>5, <1>6, <1>7, <1>8, <1>9, <1>10, <1>11,
           <1>12, <1>13, <1>14, <1>15, <1>16, <1>17, <1>18, <1>19, <1>20,
           <1>21, <1>22, <1>23, <1>24, <1>25, <1>26, <1>27, <1>28, <1>29,
           <1>30, <1>31, <1>32, <1>33, <1>34, <1>35, <1>36, <1>37, <1>38,
           <1>39, <1>40, <1>41, <1>42, <1>43, <1>44, <1>45, <1>46, <1>47,
           <1>48
        DEF Step, TableStep, ScanStep

\* Copied is inductive.
LEMMA CopiedStep ==
  ASSUME HomeInv, NEW t \in Threads, Step(t), NEW u \in Threads, Copied(u)
  PROVE  Copied(u)'
<1>1. /\ Structure /\ Locks /\ BucketsInv /\ PosShape(t) /\ PosShape(u)
      /\ copied \in [Threads -> SUBSET Keys] /\ entries \in [Buckets -> SUBSET Keys]
  BY DEF HomeInv, Clearing, Structure, TypeInv
<1> USE DEF arrayVars, bucketVars, lockVars, callVars, moveVars, localVars, Goto
<1>2. CASE u # t
  <2> SUFFICES ASSUME NEW k \in copied'[u]
               PROVE  (BucketOf(arr[u], k) \in held[u] /\ k \in entries[BucketOf(arr[u], k)])'
    BY DEF Copied
  <2>1. arr'[u] = arr[u] /\ held'[u] = held[u] /\ k \in copied[u] /\ k \in Keys
    BY <1>1, <1>2, Frame DEF OthersKeep, Structure
  <2>2. Allocated(arr[u])
    BY <1>1, <2>1, OldIsNotCurrent DEF PosShape, Rehashing
  <2>3. BucketOf(arr[u], k)' = BucketOf(arr[u], k) /\ BucketOf(arr[u], k) \in Buckets
    BY <1>1, <2>1, <2>2, SizesStay, IndexBound DEF BucketOf, Index, Structure
  <2>4. BucketOf(arr[u], k) \in held[u] /\ k \in entries[BucketOf(arr[u], k)]
    BY <2>1 DEF Copied
  <2>5. BucketOf(arr[u], k) \notin held[t] /\ Locked(BucketOf(arr[u], k))
    BY <1>1, <1>2, <2>4 DEF Locks, Exclusion, Locked, LockedX
  <2>6. entries'[BucketOf(arr[u], k)] = entries[BucketOf(arr[u], k)]
    BY <1>1, <2>3, <2>5, Writes
  <2> QED BY <2>1, <2>3, <2>4, <2>6
<1>3. CASE u = t
  <2>1. CASE copied'[t] = {}
    BY <1>3, <2>1 DEF Copied
  <2>2. CASE \E j \in Keys : MoveEntry(t, j) /\ copied'[t] # {}
    <3>1. PICK j \in Keys : MoveEntry(t, j) /\ copied'[t] # {}
      BY <2>2
    <3>2. copied'[t] = {j} /\ arr' = arr /\ held' = held /\ size' = size
      BY <1>1, <3>1 DEF MoveEntry, PosShape
    <3>3. BucketOf(arr[t], j) \in held[t] /\ BucketOf(arr[t], j) \in Buckets
          /\ BucketOf(arr[t], j) # From(t)
      BY <1>1, <3>1, TargetOfEntry, OldIsNotCurrent DEF MoveEntry, Rehashing, BucketOf, From
    <3>4. j \in entries'[BucketOf(arr[t], j)]
      BY <1>1, <3>1, <3>3 DEF MoveEntry
    <3> QED BY <1>3, <3>2, <3>3, <3>4 DEF Copied, BucketOf, Index
  <2>3. copied'[t] = {} \/ \E j \in Keys : MoveEntry(t, j)
    <3>1. pc[t] = "erase" => EraseOld(t)
      BY MovingSteps DEF Moving, LockTarget, MoveEntry, Emptied, Kill
    <3>2. pc[t] # "erase" => copied[t] = {}
      BY <1>1 DEF PosShape
    <3>3. EraseOld(t) => copied'[t] = {}
      BY <1>1 DEF EraseOld
    <3>4. pc[t] # "erase" => copied' = copied \/ copied'[t] = {} \/ \E j \in Keys : MoveEntry(t, j)
      BY <1>1, CopiedSteps DEF EraseOld
    <3> QED BY <3>1, <3>2, <3>3, <3>4
  <2> QED BY <2>1, <2>2, <2>3
<1> QED BY <1>2, <1>3

-----------------------------------------------------------------------------
(* What is due stays in the table                                           *)

\* A key that a lookup must find is not lost by a step of any thread.
LEMMA NotLost ==
  ASSUME HomeInv, NEW t \in Threads, Step(t), Copied(t), NEW k \in Keys,
         InCurrent(k) \/ InOld(k), NEW u \in Threads, k \in due'[u]
  PROVE  (InCurrent(k) \/ InOld(k))'
<1>1. /\ Structure /\ Locks /\ BucketsInv /\ Detached /\ ProgressInv
      /\ entries \in [Buckets -> SUBSET Keys] /\ old \in [Arrays -> Pointers]
      /\ size \in [Arrays -> Sizes \cup {0}]
  BY DEF HomeInv, Clearing, Structure, TypeInv
<1>2. array \in Arrays /\ array # Null /\ Allocated(array)
  BY <1>1 DEF InCurrent, InOld, Structure, ArraysInv, Allocated
<1>3. old[array] # Null => Allocated(old[array])
  BY <1>1, <1>2 DEF Structure, ArraysInv
<1> USE DEF arrayVars, bucketVars, lockVars, callVars, moveVars, localVars
<1>4. CASE array' = array /\ old' = old /\ size' = size
  <2>1. CASE InCurrent(k)
    BY <1>1, <1>4, <2>1, CurrentStays
  <2>2. CASE InOld(k)
    <3> DEFINE b == BucketOf(old[array], k)
    <3>1. b \in Buckets /\ k \in entries[b] /\ old[array] # Null
      BY <1>1, <1>3, <2>2, IndexBound DEF InOld, Structure
    <3>2. BucketOf(old[array], k)' = b
      BY <1>4 DEF BucketOf, Index
    <3>3. CASE k \in entries'[b]
      BY <1>2, <1>4, <3>1, <3>2, <3>3 DEF InOld
    <3>4. CASE k \notin entries'[b] /\ MoveEntry(t, k)
      <4>1. arr[t] = array /\ pc[t] = "relocate" /\ k \in entries[From(t)]
        BY <1>1, <3>4, Current DEF MoveEntry, Moving
      <4>2. BucketOf(array, k) \in Buckets /\ BucketOf(array, k) # From(t)
        BY <1>1, <4>1, TargetOfEntry, OldIsNotCurrent DEF Rehashing, From, BucketOf
      <4>3. k \in entries'[BucketOf(array, k)]
        BY <1>1, <3>4, <4>1, <4>2 DEF MoveEntry
      <4> QED BY <1>2, <1>4, <4>3 DEF InCurrent, BucketOf, Index
    <3>5. CASE k \notin entries'[b] /\ EraseOld(t) /\ k \in copied[t]
      <4>1. arr[t] = array
        BY <1>1, <3>5, Current DEF EraseOld, Moving
      <4>2. InCurrent(k)
        BY <1>2, <3>5, <4>1 DEF Copied, InCurrent
      <4> QED BY <1>1, <1>4, <4>2, CurrentStays
    <3> HIDE DEF b
    <3> QED BY <1>1, <3>1, <3>3, <3>4, <3>5, Leaves
  <2> QED BY <2>1, <2>2
<1>5. CASE DropOld(t)
  <2>1. array' = array /\ size' = size /\ entries' = entries /\ pc[t] = "drop"
        /\ old' = [old EXCEPT ![arr[t]] = Null]
    BY <1>5 DEF DropOld
  <2>2. CASE InCurrent(k)
    BY <1>1, <2>1, <2>2, CurrentStays
  <2>3. CASE InOld(k) /\ arr[t] # array
    BY <1>1, <1>2, <2>1, <2>3 DEF InOld, BucketOf, Index
  <2>4. CASE InOld(k) /\ arr[t] = array
    <3>1. oldArr[t] = old[array] /\ Progress(t)
      BY <1>1, <2>1, <2>4 DEF InOld, Structure, ArrShape, Rehashing, ProgressInv
    <3>2. BucketOf(old[array], k) \in killed
      BY <1>1, <1>3, <2>1, <2>4, <3>1, IndexBound DEF Progress, InOld, Structure
    <3> QED BY <1>1, <2>4, <3>2 DEF BucketsInv, InOld
  <2> QED BY <2>2, <2>3, <2>4
<1>6. CASE DropSwap(t)
  <2>1. pc[t] = "rswap" /\ rarr[t] = array /\ old[array] = Null /\ shared[t] = BucketsOf(array)
    BY <1>1, <1>6 DEF DropSwap, Structure, ResizeShape, Tagged, Resize, Locks, SharedShape
  <2>2. BucketOf(array, k) \in shared[t] /\ InCurrent(k)
    BY <1>1, <1>2, <2>1, IndexBound DEF Structure, InOld
  <2> QED BY <1>1, <2>1, <2>2 DEF BucketsInv, InCurrent
<1>7. CASE ResizeAlloc(t)
  <2>1. pc[t] = "ralloc" /\ old[array] = Null
    BY <1>1, <1>7 DEF ResizeAlloc, Structure, ResizeShape, Tagged, Resize
  <2>2. PICK a \in Arrays, s \in Sizes : Allocate(a, s, array)
    BY <1>7 DEF ResizeAlloc
  <2>3. a # Null /\ a # array
    BY <1>1, <2>2, FreshIsLast DEF Allocate
  <2>4. array' = a /\ old'[a] = array /\ size'[array] = size[array] /\ entries' = entries
    BY <1>1, <1>2, <1>7, <2>2, <2>3 DEF Allocate, ResizeAlloc
  <2>5. k \in entries[BucketOf(array, k)]
    BY <2>1 DEF InCurrent, InOld
  <2> QED BY <1>2, <2>3, <2>4, <2>5 DEF InOld, BucketOf, Index
<1> QED BY <1>2, <1>4, <1>5, <1>6, <1>7, ArraySteps

-----------------------------------------------------------------------------
(* What a thread looks for                                                  *)

\* The steps that change what a lookup must find.
LEMMA DueSteps ==
  ASSUME Structure, NEW t \in Threads, Step(t)
  PROVE  \/ due'[t] = {}
         \/ due'[t] \subseteq due[t] /\ op' = op /\ key' = key
         \/ \E o \in Ops[type][t], k \in Keys : Begin(t, o, k)
<1>1. due \in [Threads -> SUBSET Keys]
  BY DEF Structure, TypeInv
<1> USE DEF arrayVars, bucketVars, lockVars, callVars, moveVars, localVars,
          Goto
<1>2. CASE Load(t)
  BY <1>2, <1>1 DEF Load, Allocate, Fresh, NotFound, Reserves
<1>3. CASE LoadOld(t)
  BY <1>3, <1>1 DEF LoadOld, Work, Reserves
<1>4. CASE Claim(t)
  BY <1>4, <1>1 DEF Claim, Claimable
<1>5. CASE LockOld(t)
  BY <1>5, <1>1 DEF LockOld, NextBucket, GiveUp
<1>6. ASSUME NEW k \in Keys, LockTarget(t, k)
      PROVE  due'[t] = {} \/ (due'[t] \subseteq due[t] /\ op' = op /\ key' = key)
  BY <1>6, <1>1 DEF LockTarget, GiveUp
<1>7. ASSUME NEW k \in Keys, MoveEntry(t, k)
      PROVE  due'[t] = {} \/ (due'[t] \subseteq due[t] /\ op' = op /\ key' = key)
  BY <1>7, <1>1 DEF MoveEntry
<1>8. CASE EraseOld(t)
  BY <1>8, <1>1 DEF EraseOld
<1>9. CASE Emptied(t)
  BY <1>9, <1>1 DEF Emptied
<1>10. CASE Kill(t)
  BY <1>10, <1>1 DEF Kill, NextBucket
<1>11. CASE Success(t)
  BY <1>11, <1>1 DEF Success
<1>12. CASE DropOld(t)
  BY <1>12, <1>1 DEF DropOld
<1>13. CASE Fail(t)
  BY <1>13, <1>1 DEF Fail
<1>14. CASE Check(t)
  BY <1>14, <1>1 DEF Check, AfterRehash, Work
<1>15. CASE LockFails(t)
  BY <1>15, <1>1 DEF LockFails, Lookup
<1>16. CASE InsertEntry(t)
  BY <1>16, <1>1 DEF InsertEntry, Hold, Lockable
<1>17. CASE ReserveEntry(t)
  BY <1>17, <1>1 DEF ReserveEntry, Hold, Lockable
<1>18. CASE RemoveEntry(t)
  BY <1>18, <1>1 DEF RemoveEntry, Hold, Gone, Lockable
<1>19. CASE GetEntry(t)
  BY <1>19, <1>1 DEF GetEntry, Hold, Lockable
<1>20. CASE ReadEntry(t)
  BY <1>20, <1>1 DEF ReadEntry
<1>21. CASE VacantInsert(t)
  BY <1>21, <1>1 DEF VacantInsert
<1>22. ASSUME NEW k \in Keys, OccupiedRemove(t, k)
      PROVE  due'[t] = {} \/ (due'[t] \subseteq due[t] /\ op' = op /\ key' = key)
  BY <1>22, <1>1 DEF OccupiedRemove
<1>23. CASE Release(t)
  BY <1>23, <1>1 DEF Release
<1>24. CASE ReleaseReader(t)
  BY <1>24, <1>1 DEF ReleaseReader
<1>25. CASE SearchOld(t)
  BY <1>25, <1>1 DEF SearchOld
<1>26. CASE Search(t)
  BY <1>26, <1>1 DEF Search
<1>27. CASE Reload(t)
  BY <1>27, <1>1 DEF Reload, NotFound
<1>28. CASE ResizeLoad(t)
  BY <1>28, <1>1 DEF ResizeLoad, AfterResize, Reserves
<1>29. CASE ResizeTag(t)
  BY <1>29, <1>1 DEF ResizeTag, AfterResize, Reserves
<1>30. CASE DropLock(t)
  BY <1>30, <1>1 DEF DropLock
<1>31. CASE DropSwap(t)
  BY <1>31, <1>1 DEF DropSwap
<1>32. CASE DropKill(t)
  BY <1>32, <1>1 DEF DropKill, AfterResize, Reserves
<1>33. CASE ResizeAlloc(t)
  BY <1>33, <1>1 DEF ResizeAlloc, AfterResize, Allocate, Fresh, Reserves
<1>34. CASE ResizeKeep(t)
  BY <1>34, <1>1 DEF ResizeKeep, AfterResize, Reserves
<1>35. CASE End(t)
  BY <1>35, <1>1 DEF End, Return
<1>36. CASE AnyBucket(t)
  BY <1>36, <1>1 DEF AnyBucket, GoOn, Scanning
<1>37. CASE RetainBucket(t)
  BY <1>37, <1>1 DEF RetainBucket, GoOn, Scanning
<1>38. CASE PruneBucket(t)
  BY <1>38, <1>1 DEF PruneBucket, GoOn, Scanning
<1>39. CASE WalkBucket(t)
  BY <1>39, <1>1 DEF WalkBucket, GoOn, Scanning
<1>40. CASE WalkNext(t)
  BY <1>40, <1>1 DEF WalkNext, Restarts
<1>41. CASE ScanEnd(t)
  BY <1>41, <1>1 DEF ScanEnd
<1>42. CASE TryResize(t)
  BY <1>42, <1>1 DEF TryResize
<1>43. CASE IterStart(t)
  BY <1>43, <1>1 DEF IterStart, OldFirst
<1>44. CASE IterBucket(t)
  BY <1>44, <1>1 DEF IterBucket, GoOn
<1>45. CASE IterEnd(t)
  BY <1>45, <1>1 DEF IterEnd
<1>46. CASE IterSwitch(t)
  BY <1>46, <1>1 DEF IterSwitch, IterFrom, OldFirst
<1>47. CASE ScanReturn(t)
  BY <1>47, <1>1 DEF ScanReturn, Return
<1> QED BY <1>2, <1>3, <1>4, <1>5, <1>6, <1>7, <1>8, <1>9, <1>10, <1>11,
           <1>12, <1>13, <1>14, <1>15, <1>16, <1>17, <1>18, <1>19, <1>20,
           <1>21, <1>22, <1>23, <1>24, <1>25, <1>26, <1>27, <1>28, <1>29,
           <1>30, <1>31, <1>32, <1>33, <1>34, <1>35, <1>36, <1>37, <1>38,
           <1>39, <1>40, <1>41, <1>42, <1>43, <1>44, <1>45, <1>46, <1>47
        DEF Step, TableStep, ScanStep

\* A step keeps what lookups must find in the table.
LEMMA DueKnownStep ==
  ASSUME HomeInv, NEW t \in Threads, Step(t), Copied(t), NEW u \in Threads, DueKnown(u)
  PROVE  DueKnown(u)'
<1>1. /\ Structure /\ BucketsInv
      /\ due \in [Threads -> SUBSET Keys] /\ OpShape(t)
      /\ op \in [Threads -> Operations \cup {"none"}] /\ key \in [Threads -> Keys \cup {Null}]
  BY DEF HomeInv, Clearing, Structure, TypeInv
<1>2. CASE due'[u] = {}
  BY <1>2 DEF DueKnown
<1>3. CASE due'[u] \subseteq due[u] /\ op'[u] = op[u] /\ key'[u] = key[u]
  <2>1. ASSUME NEW k \in due'[u] PROVE (InCurrent(k) \/ InOld(k))'
    BY <1>1, <1>3, <2>1, NotLost DEF DueKnown
  <2> QED BY <1>3, <2>1 DEF DueKnown
<1>4. ASSUME NEW o \in Ops[type][t], NEW k \in Keys, Begin(t, o, k), u = t PROVE DueKnown(u)'
  <2>1. ASSUME NEW j \in Contents PROVE (InCurrent(j) \/ InOld(j))'
    <3>1. InCurrent(j) \/ InOld(j)
      BY <1>1, <2>1, WhereKeysAre
    <3> QED BY <1>4, <3>1 DEF Begin, InCurrent, InOld, BucketOf, Index, arrayVars, bucketVars
  <2>2. /\ due'[t] = IF o = "read" THEN Contents \cap {k}
                     ELSE IF o \in ScanOps THEN Contents ELSE {}
        /\ op'[t] = o
        /\ o = "read" => key'[t] = k
    BY <1>1, <1>4 DEF Begin, KeyOps
  <2> QED BY <1>4, <2>1, <2>2 DEF DueKnown, ScanOps
<1>5. CASE u # t
  BY <1>1, <1>3, <1>5, Frame DEF OthersKeep, Structure
<1> QED BY <1>1, <1>2, <1>3, <1>4, <1>5, DueSteps

\* A thread that stays where it is keeps what it knows.
LEMMA DueStays ==
  ASSUME HomeInv, NEW t \in Threads, Step(t), NEW u \in Threads,
         DueKnown(u), DueMissed(u), DueAhead(u), due'[u] \subseteq due[u],
         pc'[u] = pc[u], arr'[u] = arr[u], oldArr'[u] = oldArr[u], pos'[u] = pos[u]
  PROVE  DueMissed(u)' /\ DueAhead(u)'
<1>1. /\ Structure /\ Locks /\ BucketsInv /\ ArrShape(u) /\ Monotone /\ ArraysInv
      /\ due \in [Threads -> SUBSET Keys] /\ pos[u] \in Nat
      /\ old \in [Arrays -> Pointers] /\ array \in Pointers
  BY Frame DEF HomeInv, Clearing, Structure, TypeInv
<1>2. CASE pc[u] \notin Loaded
  BY <1>2 DEF DueMissed, DueAhead, Loaded
<1>3. CASE pc[u] \in Loaded
  <2>1. arr[u] # Null /\ Allocated(arr[u]) /\ arr[u] \in Arrays
    BY <1>1, <1>3 DEF ArrShape, Allocated
  <2>2. array' = arr[u] => array = arr[u]
    BY <1>1, <2>1 DEF Monotone
  <2>3. ASSUME array' = array, NEW k \in due'[u], InCurrent(k) PROVE InCurrent(k)'
    BY <1>1, <2>3, CurrentStays
  <2>4. \A k \in due[u] : k \in Keys
    BY <1>1
  <2>5. DueMissed(u)'
    BY <2>2 DEF DueMissed
  <2>6. ASSUME NEW k \in due'[u], pc[u] = "search", array' = arr[u] PROVE InCurrent(k)'
    BY <2>2, <2>3, <2>6 DEF DueAhead
  <2>7. ASSUME NEW k \in due'[u], pc[u] = "scan", array' = arr[u]
        PROVE  InCurrent(k)' /\ (pos[u] <= Index(array, k))'
    <3>1. Index(array, k)' = Index(array, k)
      BY <1>1, <2>1, <2>2, <2>7, SizesStay DEF Index
    <3> QED BY <2>2, <2>3, <2>7, <3>1 DEF DueAhead
  <2>8. ASSUME NEW k \in due'[u], pc[u] = "occupied", array' = arr[u]
        PROVE  (pos[u] < Index(array, k))'
    <3>1. Index(array, k)' = Index(array, k)
      BY <1>1, <2>1, <2>2, <2>8, SizesStay DEF Index
    <3> QED BY <2>2, <2>8, <3>1 DEF DueAhead
  <2>9. ASSUME NEW k \in due'[u], pc[u] = "scan", array' # Null, arr[u] = old'[array'],
               (Index(old[array], k) < pos[u])'
        PROVE  InCurrent(k)'
    <3>1. Index(old[array], k)' = Index(arr[u], k)
      BY <1>1, <2>1, <2>9, SizesStay DEF Index
    <3>2. CASE array' = array /\ old'[array] = old[array]
      BY <2>3, <2>9, <3>1, <3>2 DEF DueAhead
    <3>3. CASE arr[u] = array
      <4>1. pos[u] <= Index(arr[u], k)
        BY <2>9, <3>3 DEF DueAhead
      <4>2. Index(arr[u], k) \in Nat
        BY <1>1, <2>1, <2>4, IndexBound DEF Structure
      <4> QED BY <1>1, <2>9, <3>1, <4>1, <4>2
    <3>4. \/ array' = array /\ array \in Arrays /\ Allocated(array)
          \/ array' \in Arrays /\ ~Allocated(array') /\ old[array'] = Null
      BY <1>1, <2>9 DEF Monotone, ArraysInv, Allocated
    <3> QED BY <1>1, <2>1, <2>9, <3>2, <3>3, <3>4 DEF Monotone
  <2>10. ASSUME NEW k \in due'[u], pc[u] = "switch", array' = arr[u], oldArr[u] = old'[array']
         PROVE  InCurrent(k)'
    <3>1. oldArr[u] # Null /\ array' = array
      BY <1>1, <2>2, <2>10 DEF ArrShape
    <3>2. old'[array] = old[array]
      BY <1>1, <2>1, <2>2, <2>10, <3>1 DEF Monotone
    <3> QED BY <2>3, <2>10, <3>1, <3>2 DEF DueAhead
  <2>11. DueAhead(u)'
    BY <2>6, <2>7, <2>8, <2>9, <2>10 DEF DueAhead
  <2> QED BY <2>5, <2>11
<1> QED BY <1>2, <1>3

\* Where something can be known about what is due.
Looking == {"missing", "scanned", "reload", "search", "scan", "occupied", "switch"}

\* How a lookup comes to its next search.
LEMMA LookingSteps ==
  ASSUME Structure, NEW t \in Threads, Step(t), pc'[t] \in Looking
  PROVE  \/ Load(t) /\ array = Null
         \/ LoadOld(t) \/ Check(t) \/ LockFails(t) \/ GetEntry(t) \/ ReleaseReader(t)
         \/ SearchOld(t) \/ Search(t) \/ Reload(t)
         \/ AnyBucket(t) \/ RetainBucket(t) \/ PruneBucket(t) \/ WalkBucket(t)
         \/ WalkNext(t) \/ ScanEnd(t)
         \/ IterStart(t) \/ IterBucket(t) \/ IterEnd(t) \/ IterSwitch(t) \/ ScanReturn(t)
<1>1. pc \in [Threads -> PCs]
  BY DEF Structure, TypeInv
<1> USE DEF arrayVars, bucketVars, lockVars, callVars, moveVars, localVars, Looking
<1> QED BY <1>1 DEF Step, TableStep, ScanStep, Begin, Goto, Offered, Load,
           Allocate, Fresh, NotFound, Reserves, Claim, Claimable, LockOld,
           NextBucket, GiveUp, LockTarget, MoveEntry, EraseOld, Emptied,
           Kill, Success, DropOld, Fail, InsertEntry, Hold, Lockable,
           ReserveEntry, RemoveEntry, Gone, ReadEntry, VacantInsert,
           OccupiedRemove, Release, ResizeLoad, AfterResize, ResizeTag,
           DropLock, DropSwap, DropKill, ResizeAlloc, ResizeKeep, End,
           Return, TryResize

\* Only the current array without an old one is the last to be searched.
LEMMA OldFirstCurrent ==
  ASSUME Structure, NEW a, Allocated(a)
  PROVE  OldFirst(a) # Null /\ (OldFirst(a) = array => a = array /\ old[array] = Null)
<1>1. a \in Arrays /\ a # Null /\ a \in Nat
  BY TableAssumption DEF Allocated, Arrays, Null
<1>2. old[a] # Null => a = array /\ old[a] < a
  BY <1>1 DEF Structure, ArraysInv
<1> QED BY <1>1, <1>2 DEF OldFirst

\* A scan that has found an entry is at a bucket of its array.
LEMMA OccupiedBucket ==
  ASSUME Structure, NEW t \in Threads, pc[t] = "occupied"
  PROVE  At(t) \in BucketsOf(arr[t]) /\ arr[t] \in Arrays
<1>1. arr[t] \in Arrays /\ pos[t] \in Nat /\ pos[t] < size[arr[t]]
  BY DEF Structure, TypeInv, ArrShape, Loaded, PosShape, Allocated
<1> QED BY <1>1, BucketsFacts DEF Structure, At

\* The thread's own steps.
LEMMA DueOwn ==
  ASSUME HomeInv, NEW t \in Threads, Step(t), DueKnown(t), DueMissed(t), DueAhead(t)
  PROVE  DueMissed(t)' /\ DueAhead(t)'
<1> DEFINE Goal == DueMissed(t)' /\ DueAhead(t)'
           Same == array' = array /\ old' = old /\ size' = size /\ entries' = entries
<1>1. /\ Structure /\ Locks /\ BucketsInv /\ Detached /\ MovedFirst /\ TypeInv /\ ArraysInv
      /\ ArrShape(t) /\ OpShape(t) /\ PosShape(t) /\ HeldShape(t)
  BY DEF HomeInv, Clearing, Structure, Locks
<1>2. /\ due \in [Threads -> SUBSET Keys] /\ pc \in [Threads -> PCs]
      /\ arr \in [Threads -> Pointers] /\ oldArr \in [Threads -> Pointers]
      /\ pos \in [Threads -> Nat] /\ entries \in [Buckets -> SUBSET Keys]
      /\ held \in [Threads -> SUBSET Buckets]
  BY <1>1 DEF TypeInv
<1>3. \A k \in due[t] : k \in Keys /\ (InCurrent(k) \/ InOld(k))
  BY <1>2 DEF DueKnown
<1>4. array = Null => due[t] = {}
  BY <1>3 DEF InCurrent, InOld
<1>5. arr[t] = array /\ old[array] = Null => \A k \in due[t] : InCurrent(k)
  BY <1>3 DEF InOld
<1>6. ASSUME Same, NEW k PROVE (InCurrent(k)' <=> InCurrent(k)) /\ \A a : Index(a, k)' = Index(a, k)
  BY <1>6 DEF InCurrent, BucketOf, Index
<1>7. ASSUME NEW a \in {array, arr[t], old[array]}, a # Null, array # Null \/ a = arr[t], NEW k \in due[t]
      PROVE  Index(a, k) \in Nat /\ Index(a, k) < size[a] /\ a \in Arrays /\ size[a] \in Nat
  <2>1. Allocated(a)
    BY <1>1, <1>7 DEF ArrShape, ArraysInv, TypeInv, Pointers
  <2>2. a \in Arrays
    BY <2>1 DEF Allocated
  <2> QED BY <1>1, <1>3, <2>1, <2>2, IndexBound, BucketsFacts
<1>8. CASE due'[t] = {}
  BY <1>8 DEF DueMissed, DueAhead
<1>9. CASE pc'[t] \notin Looking
  BY <1>9 DEF DueMissed, DueAhead, Looking
\* From the first bucket.
<1>10. ASSUME Same, due'[t] \subseteq due[t], pc'[t] \in {"search", "scan"}, pos'[t] = 0,
              arr'[t] # Null, arr'[t] = array => \A k \in due[t] : InCurrent(k)
       PROVE  Goal
  <2>1. DueMissed(t)'
    BY <1>10 DEF DueMissed
  <2>2. ASSUME array # Null, old[array] # Null, NEW k \in due[t] PROVE ~(Index(old[array], k) < 0)
    BY <1>7, <2>2
  <2>3. ASSUME array # Null, NEW k \in due[t] PROVE 0 <= Index(array, k)
    BY <1>7, <2>3
  <2>4. ASSUME NEW k \in due'[t], pc'[t] = "scan", array' # Null, arr'[t] = old'[array'],
               (Index(old[array], k) < pos[t])'
        PROVE  InCurrent(k)'
    <3>1. Index(old[array], k)' = Index(old[array], k)
      BY <1>6, <1>10 DEF Index
    <3>2. CASE old[array] = Null
      BY <1>10, <2>4, <3>2 DEF Same
    <3>3. CASE old[array] # Null
      BY <1>10, <2>2, <2>4, <3>1, <3>3
    <3> QED BY <3>2, <3>3
  <2>5. ASSUME NEW k \in due'[t], arr'[t] = array'
        PROVE  InCurrent(k)' /\ (pc'[t] = "scan" => (pos[t] <= Index(array, k))')
    <3>1. InCurrent(k) /\ array # Null
      BY <1>10, <2>5 DEF InCurrent
    <3>2. Index(array, k)' = Index(array, k)
      BY <1>6, <1>10 DEF Index
    <3> QED BY <1>6, <1>10, <2>3, <2>5, <3>1, <3>2
  <2> QED BY <1>10, <2>1, <2>4, <2>5 DEF DueAhead
\* To the next bucket.
<1>11. ASSUME pc[t] = "scan", pc'[t] = "scan", array' = array, old' = old, size' = size,
              arr' = arr, pos'[t] = pos[t] + 1, due'[t] \subseteq due[t] \ entries[At(t)]
       PROVE  Goal
  <2>1. DueMissed(t)'
    BY <1>11 DEF DueMissed
  <2>2. arr[t] # Null /\ pos[t] \in Nat
    BY <1>1, <1>2, <1>11 DEF ArrShape, Loaded
  <2>3. ASSUME NEW k PROVE Index(array, k)' = Index(array, k) /\ Index(old[array], k)' = Index(old[array], k)
    BY <1>11 DEF Index
  <2>4. ASSUME NEW k \in due'[t], InCurrent(k) PROVE InCurrent(k)'
    BY <1>1, <1>3, <1>11, <2>4, CurrentStays
  <2>5. ASSUME NEW k \in due'[t], arr[t] = array
        PROVE  InCurrent(k)' /\ (pos[t] <= Index(array, k))'
    <3>1. k \in due[t] /\ k \notin entries[At(t)] /\ pos[t] <= Index(array, k) /\ InCurrent(k)
      BY <1>11, <2>5 DEF DueAhead
    <3>2. pos[t] # Index(array, k)
      BY <2>5, <3>1 DEF InCurrent, BucketOf, At
    <3>3. Index(array, k) \in Nat
      BY <1>7, <2>2, <2>5, <3>1
    <3>4. pos[t] + 1 <= Index(array, k)
      BY <2>2, <3>1, <3>2, <3>3
    <3> QED BY <1>11, <2>3, <2>4, <3>1, <3>4
  <2>6. ASSUME NEW k \in due'[t], array # Null, arr[t] = old[array], (Index(old[array], k) < pos[t])'
        PROVE  InCurrent(k)'
    <3>1. k \in due[t] /\ k \notin entries[At(t)] /\ Index(old[array], k) < pos[t] + 1
      BY <1>11, <2>3, <2>6
    <3>2. Index(old[array], k) \in Nat
      BY <1>7, <2>2, <2>6, <3>1
    <3>3. CASE Index(old[array], k) < pos[t]
      BY <1>11, <2>4, <2>6, <3>1, <3>3 DEF DueAhead
    <3>4. CASE Index(old[array], k) = pos[t]
      <4>1. ~InOld(k)
        BY <2>6, <3>1, <3>4 DEF InOld, BucketOf, At
      <4> QED BY <1>3, <2>4, <3>1, <4>1
    <3> QED BY <2>2, <3>1, <3>2, <3>3, <3>4
  <2> QED BY <1>11, <2>1, <2>5, <2>6 DEF DueAhead
\* To the check whether the array has been replaced.
<1>12. ASSUME pc'[t] = "reload", array' = array, arr' = arr, due' = due, arr[t] = array => due[t] = {}
       PROVE  Goal
  BY <1>12 DEF DueMissed, DueAhead
<1> HIDE DEF Goal, Same
<1> USE DEF arrayVars, bucketVars, lockVars, callVars, moveVars, localVars, Goto
<1>13. CASE Load(t) /\ array = Null
  BY <1>4, <1>8, <1>13 DEF Load, Goal
<1>14. CASE (LoadOld(t) \/ Check(t)) /\ pc'[t] \in Looking
  <2>1. /\ Same /\ due' = due /\ pc'[t] \in {"search", "scan"} /\ arr' = arr /\ pos'[t] = 0
        /\ old[arr[t]] = Null /\ pc[t] \in {"old", "check"}
    BY <1>1, <1>2, <1>14 DEF LoadOld, Check, AfterRehash, Work, Looking, Same, PosShape, AtStart
  <2>2. arr[t] # Null
    BY <1>1, <2>1 DEF ArrShape, Loaded, Rehashing
  <2> QED BY <1>5, <1>10, <2>1, <2>2 DEF Goal
<1>15. CASE LockFails(t) /\ pc'[t] \in Looking
  <2>1. /\ pc'[t] = "reload" /\ array' = array /\ arr' = arr /\ due' = due /\ Home(t) \in killed
    BY <1>2, <1>15 DEF LockFails, Looking, Killed
  <2>2. arr[t] # array
    BY <1>1, <2>1 DEF BucketsInv, Home, BucketOf
  <2> QED BY <1>12, <2>1, <2>2 DEF Goal
<1>16. CASE GetEntry(t)
  <2>1. op[t] = "get" /\ due' = due
    BY <1>16 DEF GetEntry
  <2>2. due[t] = {}
    BY <2>1 DEF DueKnown, ScanOps
  <2> QED BY <1>8, <2>1, <2>2 DEF Goal
<1>17. CASE ReleaseReader(t) /\ pc'[t] \in Looking
  <2>1. /\ pc'[t] = "reload" /\ array' = array /\ arr' = arr /\ due' = due /\ pc[t] = "holdS"
        /\ key[t] \notin entries[Home(t)]
    BY <1>2, <1>17 DEF ReleaseReader, Looking
  <2>2. ASSUME arr[t] = array, NEW k \in due[t] PROVE FALSE
    <3>1. k = key[t]
      BY <1>1, <2>1, <2>2 DEF OpShape, DueKnown
    <3>2. InOld(k)
      BY <1>3, <2>1, <2>2, <3>1 DEF InCurrent, Home
    <3>3. BucketOf(old[array], k) \in killed
      BY <1>1, <2>1, <2>2, <3>1, <3>2 DEF MovedFirst, Past, InOld
    <3> QED BY <1>1, <3>2, <3>3 DEF BucketsInv, InOld
  <2> QED BY <1>12, <2>1, <2>2 DEF Goal
<1>18. CASE SearchOld(t) /\ pc'[t] \in Looking
  <2>1. /\ pc'[t] = "search" /\ Same /\ arr' = arr /\ due' = due /\ pc[t] = "searchOld"
        /\ pos'[t] = 0 /\ key[t] \notin entries[BucketOf(oldArr[t], key[t])]
    BY <1>1, <1>2, <1>18 DEF SearchOld, Looking, Same, PosShape, AtStart
  <2>2. ASSUME arr[t] = array, NEW k \in due[t] PROVE InCurrent(k)
    <3>1. k = key[t] /\ old[array] \in {oldArr[t], Null}
      BY <1>1, <2>1, <2>2 DEF OpShape, DueKnown, ArrShape, Rehashing
    <3>2. ~InOld(k)
      BY <2>1, <3>1 DEF InOld
    <3> QED BY <1>3, <2>2, <3>2
  <2>3. arr[t] # Null
    BY <1>1, <2>1 DEF ArrShape, Loaded, Rehashing
  <2> QED BY <1>10, <2>1, <2>2, <2>3 DEF Goal
<1>19. CASE Search(t) /\ pc'[t] \in Looking
  <2>1. /\ pc'[t] = "reload" /\ array' = array /\ arr' = arr /\ due' = due /\ pc[t] = "search"
        /\ key[t] \notin entries[Home(t)]
    BY <1>2, <1>19 DEF Search, Looking
  <2>2. ASSUME arr[t] = array, NEW k \in due[t] PROVE FALSE
    <3>1. k = key[t] /\ InCurrent(k)
      BY <1>1, <2>1, <2>2 DEF OpShape, DueKnown, DueAhead
    <3> QED BY <2>1, <2>2, <3>1 DEF InCurrent, Home
  <2> QED BY <1>12, <2>1, <2>2 DEF Goal
<1>20. CASE Reload(t) /\ pc'[t] \in Looking
  <2>1. due' = due /\ pc[t] = "reload" /\ (array = arr[t] \/ array = Null)
    BY <1>2, <1>20 DEF Reload, Looking, Unchanged
  <2>2. due[t] = {}
    BY <1>4, <2>1 DEF DueMissed
  <2> QED BY <1>8, <2>1, <2>2 DEF Goal
<1>21. CASE /\ AnyBucket(t) \/ RetainBucket(t) \/ PruneBucket(t) \/ IterBucket(t)
            /\ pc'[t] \in Looking
  <2>1. /\ pc[t] = "scan" /\ pc'[t] = "scan" /\ array' = array /\ old' = old /\ size' = size
        /\ arr' = arr /\ pos'[t] = pos[t] + 1 /\ due'[t] \subseteq due[t] \ entries[At(t)]
    BY <1>2, <1>21 DEF AnyBucket, RetainBucket, PruneBucket, IterBucket, GoOn, Scanning, Looking
  <2> QED BY <1>11, <2>1 DEF Goal
<1>22. CASE WalkBucket(t) /\ pc'[t] # "occupied"
  <2>1. /\ pc[t] = "scan" /\ pc'[t] = "scan" /\ array' = array /\ old' = old /\ size' = size
        /\ arr' = arr /\ pos'[t] = pos[t] + 1 /\ due'[t] \subseteq due[t]
        /\ At(t) \in killed \/ entries[At(t)] = {}
    BY <1>2, <1>22 DEF WalkBucket, GoOn, Scanning, Killed
  <2>2. entries[At(t)] = {}
    BY <1>1, <2>1 DEF BucketsInv
  <2> QED BY <1>11, <2>1, <2>2 DEF Goal
<1>23. CASE WalkBucket(t) /\ pc'[t] = "occupied"
  <2>1. /\ Same /\ arr' = arr /\ pos' = pos /\ due'[t] = due[t] \ entries[At(t)] /\ pc[t] = "scan"
    BY <1>2, <1>23 DEF WalkBucket, GoOn, Scanning, Same
  <2>2. arr[t] # Null /\ pos[t] \in Nat
    BY <1>1, <1>2, <2>1 DEF ArrShape, Loaded
  <2>3. ASSUME arr[t] = array, NEW k \in due'[t] PROVE (pos[t] < Index(array, k))'
    <3>1. k \in due[t] /\ k \notin entries[At(t)] /\ pos[t] <= Index(array, k) /\ InCurrent(k)
      BY <2>1, <2>3 DEF DueAhead
    <3>2. pos[t] # Index(array, k)
      BY <2>3, <3>1 DEF InCurrent, BucketOf, At
    <3>3. Index(array, k) \in Nat
      BY <1>7, <2>2, <2>3, <3>1
    <3>4. pos[t] < Index(array, k)
      BY <2>2, <3>1, <3>2, <3>3
    <3> QED BY <2>1, <3>4 DEF Index, Same
  <2> QED BY <1>23, <2>1, <2>3 DEF Goal, DueMissed, DueAhead, Same
<1>24. CASE WalkNext(t) /\ pc'[t] \in Looking
  <2>1. Same /\ due' = due /\ pc[t] = "occupied"
    BY <1>24 DEF WalkNext, Same
  <2>2. CASE array = Null
    BY <1>4, <1>8, <2>1, <2>2 DEF Goal
  <2>3. CASE array # Null
    <3>1. pc'[t] = "scan" /\ old[array] = Null /\ arr'[t] = array /\ pos'[t] = pos[t] + 1
      BY <1>2, <1>24, <2>3 DEF WalkNext, Restarts, Looking
    <3>2. arr[t] = array
      <4>1. At(t) \in held[t] /\ At(t) \in BucketsOf(arr[t]) /\ arr[t] \in Arrays
        BY <1>1, <1>2, <2>1, OccupiedBucket DEF HeldShape
      <4>2. At(t) \notin killed /\ \A u \in Threads : pc[u] = "rkill" => At(t) \notin shared[u]
        BY <1>1, <2>1, <4>1 DEF BucketsInv, Locks, Exclusion
      <4>3. arr[t] \in Reachable
        BY <1>1, <4>1, <4>2 DEF Detached
      <4> QED BY <2>3, <3>1, <4>3 DEF Reachable
    <3>3. ASSUME NEW k \in due[t] PROVE InCurrent(k) /\ pos[t] + 1 <= Index(array, k)
      <4>1. InCurrent(k) /\ pos[t] < Index(array, k)
        BY <1>5, <2>1, <3>1, <3>2, <3>3 DEF DueAhead
      <4>2. Index(array, k) \in Nat /\ pos[t] \in Nat
        BY <1>2, <1>7, <2>3, <3>3
      <4> QED BY <4>1, <4>2
    <3>4. ASSUME NEW k \in due'[t] PROVE InCurrent(k)' /\ (pos[t] <= Index(array, k))'
      BY <1>6, <2>1, <3>1, <3>3, <3>4 DEF Index, Same
    <3> QED BY <2>1, <2>3, <3>1, <3>4 DEF Goal, DueMissed, DueAhead, Same
  <2> QED BY <2>2, <2>3
<1>25. CASE ScanEnd(t)
  <2>1. pc'[t] = "reload" /\ array' = array /\ arr' = arr /\ due' = due /\ pc[t] = "scan"
        /\ pos[t] >= size[arr[t]]
    BY <1>2, <1>25 DEF ScanEnd
  <2>2. ASSUME arr[t] = array, NEW k \in due[t] PROVE FALSE
    <3>1. arr[t] # Null /\ pos[t] \in Nat /\ pos[t] <= Index(array, k)
      BY <1>1, <1>2, <2>1, <2>2 DEF ArrShape, Loaded, DueAhead
    <3>2. Index(array, k) \in Nat /\ Index(array, k) < size[array] /\ size[array] \in Nat
      BY <1>7, <2>2, <3>1
    <3> QED BY <2>1, <2>2, <3>1, <3>2
  <2> QED BY <1>12, <2>1, <2>2 DEF Goal
<1>26. CASE IterStart(t)
  <2>1. /\ Same /\ due' = due /\ pc'[t] = "scan" /\ pc[t] = "old" /\ pos'[t] = 0
        /\ arr'[t] = OldFirst(arr[t])
    BY <1>1, <1>2, <1>26 DEF IterStart, Same, PosShape, AtStart
  <2>2. Allocated(arr[t])
    BY <1>1, <2>1 DEF ArrShape, Loaded
  <2>3. arr'[t] # Null /\ (arr'[t] = array => \A k \in due[t] : InCurrent(k))
    BY <1>1, <1>5, <2>1, <2>2, OldFirstCurrent
  <2> QED BY <1>10, <2>1, <2>3 DEF Goal
<1>27. CASE IterEnd(t)
  <2>1. /\ Same /\ due' = due /\ pc[t] = "scan" /\ pos[t] = size[arr[t]]
    BY <1>27 DEF IterEnd, Same
  <2>2. arr[t] # Null
    BY <1>1, <2>1 DEF ArrShape, Loaded
  <2>3. CASE array \in {Null, arr[t]}
    <3>1. ASSUME arr[t] = array, NEW k \in due[t] PROVE FALSE
      <4>1. pos[t] <= Index(array, k)
        BY <2>1, <3>1 DEF DueAhead
      <4>2. Index(array, k) \in Nat /\ Index(array, k) < size[array] /\ size[array] \in Nat
        BY <1>7, <2>2, <3>1
      <4> QED BY <2>1, <3>1, <4>1, <4>2
    <3>2. due[t] = {}
      BY <1>4, <2>3, <3>1
    <3> QED BY <1>8, <2>1, <3>2 DEF Goal
  <2>4. CASE array \notin {Null, arr[t]}
    <3>1. pc'[t] = "switch" /\ oldArr'[t] = arr[t] /\ arr'[t] = array
      BY <1>2, <1>27, <2>4 DEF IterEnd
    <3>2. ASSUME arr[t] = old[array], NEW k \in due[t] PROVE InCurrent(k)
      <4>1. Index(old[array], k) < pos[t]
        BY <1>7, <2>1, <2>2, <3>2
      <4> QED BY <2>1, <2>4, <3>2, <4>1 DEF DueAhead
    <3>3. ASSUME oldArr'[t] = old'[array'], NEW k \in due'[t] PROVE InCurrent(k)'
      BY <1>6, <2>1, <3>1, <3>2, <3>3 DEF Same
    <3> QED BY <3>1, <3>3 DEF Goal, DueMissed, DueAhead
  <2> QED BY <2>3, <2>4
<1>28. CASE IterSwitch(t)
  <2>1. /\ Same /\ due' = due /\ pc'[t] = "scan" /\ pc[t] = "switch" /\ pos'[t] = 0
        /\ arr'[t] = IterFrom(oldArr[t], arr[t])
    BY <1>2, <1>28 DEF IterSwitch, Same
  <2>2. Allocated(arr[t]) /\ arr[t] # Null
    BY <1>1, <2>1 DEF ArrShape, Loaded
  <2>3. arr'[t] # Null /\ (arr'[t] = array => \A k \in due[t] : InCurrent(k))
    <3>1. CASE old[arr[t]] = oldArr[t]
      BY <2>1, <2>2, <3>1 DEF IterFrom, DueAhead
    <3>2. CASE old[arr[t]] # oldArr[t]
      BY <1>1, <1>5, <2>1, <2>2, <3>2, OldFirstCurrent DEF IterFrom
    <3> QED BY <3>1, <3>2
  <2> QED BY <1>10, <2>1, <2>3 DEF Goal
<1>29. CASE ScanReturn(t) /\ pc'[t] \in Looking
  <2>1. due' = due /\ pc[t] = "scanned"
    BY <1>2, <1>29 DEF ScanReturn, Return, Looking
  <2> QED BY <1>8, <2>1 DEF DueMissed, Goal
<1> QED BY <1>1, <1>9, <1>13, <1>14, <1>15, <1>16, <1>17, <1>18, <1>19, <1>20, <1>21,
           <1>22, <1>23, <1>24, <1>25, <1>26, <1>27, <1>28, <1>29, LookingSteps DEF Goal

\* Every step keeps the invariant of the lookups.
LEMMA LookupStep == ASSUME HomeInv, LookupInv, [Next]_vars PROVE LookupInv'
<1> SUFFICES ASSUME NEW u \in Threads
             PROVE  (Copied(u) /\ DueKnown(u) /\ DueMissed(u) /\ DueAhead(u))'
  BY DEF LookupInv
<1>1. \A t \in Threads : Copied(t) /\ DueKnown(t) /\ DueMissed(t) /\ DueAhead(t)
  BY DEF LookupInv
<1>2. CASE UNCHANGED vars
  BY <1>1, <1>2 DEF vars, Copied, DueKnown, DueMissed, DueAhead, InCurrent, InOld, BucketOf, Index
<1>3. ASSUME NEW t \in Threads, Step(t)
      PROVE  (Copied(u) /\ DueKnown(u) /\ DueMissed(u) /\ DueAhead(u))'
  <2>1. Copied(u)' /\ DueKnown(u)'
    BY <1>1, <1>3, CopiedStep, DueKnownStep
  <2>2. CASE u = t
    BY <1>1, <1>3, <2>1, <2>2, DueOwn
  <2>3. CASE u # t
    <3>1. /\ pc'[u] = pc[u] /\ arr'[u] = arr[u] /\ oldArr'[u] = oldArr[u] /\ pos'[u] = pos[u]
          /\ due'[u] \subseteq due[u]
      BY <1>3, <2>3, Frame DEF OthersKeep, HomeInv, Clearing, Structure
    <3> QED BY <1>1, <1>3, <2>1, <3>1, DueStays
  <2> QED BY <2>2, <2>3
<1> QED BY <1>2, <1>3 DEF Next, Step

\* LookupInv is an inductive invariant together with HomeInv: of what a lock-free
\* read or a scan has still to find, nothing is behind it, although the entries
\* are moved from array to array while it looks for them.
THEOREM LookupInvariant == Spec => []LookupInv
<1>1. Init => LookupInv
  BY DEF Init, LookupInv, Copied, DueKnown, DueMissed, DueAhead
<1>2. HomeInv /\ LookupInv /\ [Next]_vars => LookupInv'
  BY LookupStep
<1> QED BY <1>1, <1>2, HomeInvariant, PTL DEF Spec

\* A key that is in the table from the invocation of a read, peek or scan to its
\* end is found: relocate_bucket moves it, try_resize replaces the array, and
\* the caller still does not overlook it.
THEOREM LookupsAreRealHolds == Spec => []LookupsAreReal
<1>1. LookupInv => LookupsAreReal
  BY DEF LookupInv, DueMissed, LookupsAreReal
<1> QED BY <1>1, LookupInvariant, PTL

=============================================================================
