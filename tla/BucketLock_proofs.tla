-------------------------- MODULE BucketLock_proofs --------------------------
(***************************************************************************)
(* Proofs about BucketLock, for any finite sets of threads and tasks and   *)
(* any SLOCK_MAX of at least one.                                          *)
(***************************************************************************)
EXTENDS BucketLock, TLAPS, FiniteSetTheorems

-----------------------------------------------------------------------------
(* The sequences that represent the wait queue and the signalers' lists.    *)

\* Linking an entry at the head (wait_sync, push_async_entry) adds just it.
LEMMA PushEntries ==
  ASSUME NEW S, NEW q \in Seq(S), NEW a \in S
  PROVE  /\ <<a>> \o q \in Seq(S)
         /\ Entries(<<a>> \o q) = {a} \cup Entries(q)
         /\ a \notin Entries(q) /\ IsInjective(q) => IsInjective(<<a>> \o q)
<1> DEFINE r == <<a>> \o q
<1>1. /\ r \in Seq(S)
      /\ Len(r) = Len(q) + 1
      /\ r[1] = a
      /\ \A i \in 1 .. Len(q) : r[i + 1] = q[i]
  OBVIOUS
<1>2. \A i \in 1 .. Len(r) : i = 1 \/ (i - 1 \in 1 .. Len(q) /\ r[i] = q[i - 1])
  BY <1>1
<1>3. Entries(r) = {a} \cup Entries(q)
  <2>1. Entries(r) \subseteq {a} \cup Entries(q)
    BY <1>1, <1>2 DEF Entries
  <2>2. a \in Entries(r)
    BY <1>1 DEF Entries
  <2>3. Entries(q) \subseteq Entries(r)
    <3> SUFFICES ASSUME NEW i \in 1 .. Len(q) PROVE q[i] \in Entries(r)
      BY DEF Entries
    <3> i + 1 \in 1 .. Len(r) /\ r[i + 1] = q[i]
      BY <1>1
    <3> QED BY DEF Entries
  <2> QED BY <2>1, <2>2, <2>3
<1>4. ASSUME a \notin Entries(q), IsInjective(q) PROVE IsInjective(r)
  <2> SUFFICES ASSUME NEW i \in 1 .. Len(r), NEW j \in 1 .. Len(r), r[i] = r[j]
               PROVE  i = j
    BY <1>1 DEF IsInjective
  <2>1. \A k \in 1 .. Len(q) : q[k] # a
    BY <1>4 DEF Entries
  <2>2. \A k, l \in 1 .. Len(q) : q[k] = q[l] => k = l
    BY <1>4 DEF IsInjective
  <2> QED BY <1>1, <1>2, <2>1, <2>2
<1> QED BY <1>1, <1>3, <1>4

\* Flipping the list (WaitQueue::signal) keeps its entries.
LEMMA ReverseEntries ==
  ASSUME NEW S, NEW q \in Seq(S)
  PROVE  /\ Reverse(q) \in Seq(S)
         /\ Entries(Reverse(q)) = Entries(q)
         /\ IsInjective(q) => IsInjective(Reverse(q))
<1> DEFINE r == Reverse(q)
           n == Len(q)
<1>1. /\ r \in Seq(S)
      /\ Len(r) = n
      /\ \A i \in 1 .. n : r[i] = q[n - i + 1] /\ n - i + 1 \in 1 .. n
  BY DEF Reverse
<1>2. \A i \in 1 .. n : q[i] = r[n - i + 1] /\ n - i + 1 \in 1 .. n
  BY <1>1
<1>3. Entries(r) = Entries(q)
  BY <1>1, <1>2 DEF Entries
<1>4. ASSUME IsInjective(q) PROVE IsInjective(r)
  <2> SUFFICES ASSUME NEW i \in 1 .. n, NEW j \in 1 .. n, r[i] = r[j]
               PROVE  i = j
    BY <1>1 DEF IsInjective
  <2>1. \A k, l \in 1 .. n : q[k] = q[l] => k = l
    BY <1>4 DEF IsInjective
  <2>2. q[n - i + 1] = q[n - j + 1] /\ n - i + 1 \in 1 .. n /\ n - j + 1 \in 1 .. n
    BY <1>1
  <2>3. n - i + 1 = n - j + 1
    BY <2>1, <2>2
  <2> QED BY <2>3
<1> QED BY <1>1, <1>3, <1>4

\* Signaling the first entry of a list takes just that entry off it.
LEMMA TailEntries ==
  ASSUME NEW S, NEW q \in Seq(S), q # <<>>
  PROVE  /\ Tail(q) \in Seq(S)
         /\ Head(q) \in S
         /\ Head(q) \in Entries(q)
         /\ Entries(q) = {Head(q)} \cup Entries(Tail(q))
         /\ IsInjective(q) => /\ IsInjective(Tail(q))
                              /\ Head(q) \notin Entries(Tail(q))
<1> DEFINE t == Tail(q)
<1>1. /\ t \in Seq(S) /\ Len(t) = Len(q) - 1 /\ Len(q) \in Nat \ {0}
      /\ Head(q) = q[1]
      /\ \A i \in 1 .. Len(t) : t[i] = q[i + 1] /\ i + 1 \in 1 .. Len(q)
  OBVIOUS
<1>2. \A i \in 1 .. Len(q) : i = 1 \/ (i - 1 \in 1 .. Len(t) /\ q[i] = t[i - 1])
  BY <1>1
<1>3. Head(q) \in S /\ Head(q) \in Entries(q)
  BY <1>1 DEF Entries
<1>4. Entries(q) = {Head(q)} \cup Entries(t)
  <2>1. Entries(q) \subseteq {Head(q)} \cup Entries(t)
    BY <1>1, <1>2 DEF Entries
  <2>2. Entries(t) \subseteq Entries(q)
    BY <1>1 DEF Entries
  <2> QED BY <1>3, <2>1, <2>2
<1>5. ASSUME IsInjective(q) PROVE IsInjective(t) /\ Head(q) \notin Entries(t)
  <2>1. \A k, l \in 1 .. Len(q) : q[k] = q[l] => k = l
    BY <1>5 DEF IsInjective
  <2>2. IsInjective(t)
    <3> SUFFICES ASSUME NEW i \in 1 .. Len(t), NEW j \in 1 .. Len(t), t[i] = t[j]
                 PROVE  i = j
      BY <1>1 DEF IsInjective
    <3> QED BY <1>1, <2>1
  <2>3. Head(q) \notin Entries(t)
    BY <1>1, <2>1 DEF Entries
  <2> QED BY <2>2, <2>3
<1> QED BY <1>1, <1>3, <1>4, <1>5

\* The empty queue holds no entry.
LEMMA EmptyEntries == Entries(<<>>) = {} /\ IsInjective(<<>>)
  BY DEF Entries, IsInjective

-----------------------------------------------------------------------------
(* The state word: types, ownership and the lock bits.                      *)

\* There are finitely many threads and tasks.
LEMMA ActorsFinite == IsFiniteSet(Actors)
  BY ActorAssumption, FS_Union DEF Actors

\* The lock of a new bucket satisfies LockInv.
LEMMA InitLockInv == Init => LockInv
<1> SUFFICES ASSUME Init PROVE LockInv
  OBVIOUS
<1>1. TypeOK
  BY SlockMaxAssumption DEF Init, TypeOK, PCs, Modes, Conts, LOCK
<1>2. CurWellFormed /\ OwnerAt
  BY DEF Init, CurWellFormed, OwnerAt
<1>3. Writers = {} /\ Readers = {}
  BY DEF Init, Writers, Readers
<1>4. LockWordExact
  BY <1>3, FS_EmptySet, SlockMaxAssumption DEF Init, LockWordExact
<1> QED BY <1>1, <1>2, <1>4 DEF LockInv

\* A step that leaves held and lock alone leaves the word exact.
LEMMA SameOwners ==
  ASSUME LockWordExact, UNCHANGED <<lock, held>>
  PROVE  LockWordExact'
  BY DEF LockWordExact, Writers, Readers

\* An actor that owns nothing acquires the lock: the compare-exchange.
LEMMA AcquireExact ==
  ASSUME NEW a \in Actors, LockInv, TryCas(a), Matches(a)
  PROVE  LockWordExact' /\ lock' \in 0 .. LOCK
<1> USE DEF LockInv
<1>1. held[a] = "none"
  BY DEF TryCas, OwnerAt
<1>2. /\ held' = [held EXCEPT ![a] = mode[a]]
      /\ lock' = IF mode[a] = "x" THEN lock + LOCK ELSE lock + 1
      /\ lock = cur[a][2]
  BY DEF TryCas, Matches
<1>3. pc[a] \in {"cas", "cas2"} /\ mode[a] \in Modes
  BY DEF TryCas, TypeOK
<1>4. IsFiniteSet(Readers) /\ Cardinality(Readers) \in Nat
  BY ActorsFinite, FS_Subset, FS_CardinalityType DEF Readers
<1>5. CASE mode[a] = "x"
  <2>1. lock = 0 /\ lock' = LOCK
    BY <1>2, <1>3, <1>5, SlockMaxAssumption DEF CurWellFormed, LOCK
  <2>2. Writers = {} /\ Readers = {}
    BY <2>1, <1>4, FS_EmptySet, SlockMaxAssumption DEF LockWordExact, LOCK
  <2>3. Writers' = {a} /\ Readers' = {}
    BY <1>2, <1>5, <2>2 DEF Writers, Readers, TypeOK
  <2> QED BY <2>1, <2>3, SlockMaxAssumption DEF LockWordExact, LOCK
<1>6. CASE mode[a] = "s"
  <2>1. lock < SlockMax /\ lock' = lock + 1
    BY <1>2, <1>3, <1>6 DEF CurWellFormed
  <2>2. Writers = {} /\ lock = Cardinality(Readers)
    BY <2>1, SlockMaxAssumption DEF LockWordExact, LOCK
  <2>3. Writers' = {} /\ Readers' = Readers \cup {a} /\ a \notin Readers
    BY <1>1, <1>2, <1>6, <2>2 DEF Writers, Readers, TypeOK
  <2>4. Cardinality(Readers') = Cardinality(Readers) + 1
    BY <1>4, <2>3, FS_AddElement
  <2> QED BY <1>4, <2>1, <2>2, <2>3, <2>4, SlockMaxAssumption
          DEF LockWordExact, LOCK
<1> QED BY <1>3, <1>5, <1>6 DEF Modes

\* An owner releases the lock: Locker::drop and Reader::release.
LEMMA ReleaseExact ==
  ASSUME NEW a \in Actors, LockInv, Release(a)
  PROVE  LockWordExact' /\ lock' \in 0 .. LOCK
<1> USE DEF LockInv
<1>1. held[a] \in Modes
  BY DEF Release, OwnerAt, TypeOK, Modes
<1>2. /\ held' = [held EXCEPT ![a] = "none"]
      /\ lock' = IF held[a] = "x" THEN 0 ELSE lock - 1
  BY DEF Release, Unlock
<1>3. IsFiniteSet(Readers) /\ Cardinality(Readers) \in Nat
  BY ActorsFinite, FS_Subset, FS_CardinalityType DEF Readers
<1>4. CASE held[a] = "x"
  <2>1. Writers = {a} /\ Readers = {}
    BY <1>4 DEF LockWordExact, Writers
  <2>2. Writers' = {} /\ Readers' = {}
    BY <1>2, <2>1 DEF Writers, Readers, TypeOK
  <2> QED BY <1>2, <1>4, <2>2, FS_EmptySet, SlockMaxAssumption
          DEF LockWordExact, LOCK
<1>5. CASE held[a] = "s"
  <2>1. a \in Readers /\ Writers = {} /\ lock = Cardinality(Readers)
        /\ lock <= SlockMax
    BY <1>5 DEF LockWordExact, Readers
  <2>2. Writers' = {} /\ Readers' = Readers \ {a}
    BY <1>2, <2>1 DEF Writers, Readers, TypeOK
  <2>3. Cardinality(Readers') = Cardinality(Readers) - 1 /\ Cardinality(Readers) # 0
    BY <1>3, <2>1, <2>2, FS_RemoveElement, FS_EmptySet
  <2> QED BY <1>2, <1>3, <1>5, <2>1, <2>2, <2>3, SlockMaxAssumption
          DEF LockWordExact, LOCK
<1> QED BY <1>1, <1>4, <1>5 DEF Modes

\* Each conjunct of LockInv, one action at a time.
LEMMA NextLockInv == LockInv /\ [Next]_vars => LockInv'
<1> SUFFICES ASSUME LockInv, [Next]_vars PROVE LockInv'
  OBVIOUS
<1> USE SlockMaxAssumption DEF LockInv, Goto, word
<1>1. ASSUME NEW a \in Actors, NEW m \in Modes, Lock(a, m) PROVE LockInv'
  <2>1. TypeOK' BY <1>1 DEF Lock, TypeOK, PCs
  <2>2. CurWellFormed' /\ OwnerAt' BY <1>1 DEF Lock, TypeOK, CurWellFormed, OwnerAt
  <2> QED BY <1>1, <2>1, <2>2, SameOwners DEF Lock
<1>2. ASSUME NEW a \in Actors, TryLoad(a) PROVE LockInv'
  <2>1. TypeOK'
    <3>1. Expected(a) \in (0 .. 1) \X (0 .. LOCK)
      BY DEF TypeOK, Expected, LOCK
    <3>2. cur' \in [Actors -> (0 .. 1) \X (0 .. LOCK)]
      BY <1>2, <3>1 DEF TryLoad, TypeOK
    <3>3. pc' \in [Actors -> PCs] /\ cont' \in [Actors -> Conts]
      BY ZenonT(60), <1>2 DEF TryLoad, TypeOK, PCs, Conts, AfterErr, AfterOk, AfterOkCont
    <3> QED BY <1>2, <3>2, <3>3 DEF TryLoad, TypeOK
  <2>2. CurWellFormed'
    BY <1>2 DEF TryLoad, TypeOK, CurWellFormed, AfterErr, AfterOk, Expected,
                Full, LOCK
  <2>3. OwnerAt'
    BY <1>2 DEF TryLoad, TypeOK, OwnerAt, AfterErr, AfterOk, AfterOkCont
  <2> QED BY <1>2, <2>1, <2>2, <2>3, SameOwners DEF TryLoad
<1>3. ASSUME NEW a \in Actors, TryCas(a) PROVE LockInv'
  <2>1. LockWordExact' /\ lock' \in 0 .. LOCK
    <3>1. CASE Matches(a) BY <1>3, <3>1, AcquireExact
    <3>2. CASE ~Matches(a) BY <1>3, <3>2, SameOwners DEF TryCas, TypeOK
    <3> QED BY <3>1, <3>2
  <2>2. TypeOK'
    <3>1. cur' \in [Actors -> (0 .. 1) \X (0 .. LOCK)]
      <4>1. <<0, 0>> \in (0 .. 1) \X (0 .. LOCK) BY DEF LOCK
      <4> QED BY <1>3, <4>1 DEF TryCas, TypeOK
    <3>2. pc' \in [Actors -> PCs]
      BY <1>3 DEF TryCas, TypeOK, PCs, AfterErr, AfterOk
    <3>4. cont' \in [Actors -> Conts]
      BY <1>3 DEF TryCas, TypeOK, Conts, AfterOkCont
    <3>3. held' \in [Actors -> {"none"} \cup Modes]
      BY <1>3 DEF TryCas, TypeOK
    <3> QED BY <1>3, <2>1, <3>1, <3>2, <3>3, <3>4 DEF TryCas, TypeOK
  <2>3. CurWellFormed' BY <1>3 DEF TryCas, TypeOK, CurWellFormed, AfterErr, AfterOk
  <2>4. OwnerAt'
    BY <1>3 DEF TryCas, TypeOK, Modes, OwnerAt, AfterErr, AfterOk, AfterOkCont
  <2> QED BY <2>1, <2>2, <2>3, <2>4
<1>4. ASSUME NEW a \in Actors, Push(a) PROVE LockInv'
  <2>1. TypeOK' BY <1>4, PushEntries DEF Push, TypeOK, PCs
  <2>2. CurWellFormed' /\ OwnerAt' BY <1>4 DEF Push, TypeOK, CurWellFormed, OwnerAt
  <2> QED BY <1>4, <2>1, <2>2, SameOwners DEF Push
<1>5. ASSUME NEW a \in Actors, Mark(a) PROVE LockInv'
  <2>1. TypeOK' BY <1>5 DEF Mark, TypeOK, PCs
  <2>2. CurWellFormed' /\ OwnerAt' BY <1>5 DEF Mark, TypeOK, CurWellFormed, OwnerAt
  <2> QED BY <1>5, <2>1, <2>2, SameOwners DEF Mark
<1>6. ASSUME NEW a \in Actors, SignalSwap(a) PROVE LockInv'
  <2>1. TypeOK'
    <3>1. Reverse(queue) \in Seq(Actors) BY ReverseEntries DEF TypeOK
    <3> QED BY <1>6, <3>1 DEF SignalSwap, TypeOK, PCs
  <2>2. CurWellFormed' /\ OwnerAt'
    BY <1>6 DEF SignalSwap, TypeOK, CurWellFormed, OwnerAt
  <2> QED BY <1>6, <2>1, <2>2, SameOwners DEF SignalSwap
<1>7. ASSUME NEW a \in Actors, SignalEntry(a) PROVE LockInv'
  <2>1. TypeOK'
    <3>1. Tail(batch[a]) \in Seq(Actors) /\ Head(batch[a]) \in Actors
      BY <1>7, TailEntries DEF SignalEntry, TypeOK
    <3> QED BY <1>7, <3>1 DEF SignalEntry, TypeOK
  <2>2. CurWellFormed' /\ OwnerAt'
    BY <1>7 DEF SignalEntry, TypeOK, CurWellFormed, OwnerAt
  <2> QED BY <1>7, <2>1, <2>2, SameOwners DEF SignalEntry
<1>8. ASSUME NEW a \in Actors, SignalDone(a) PROVE LockInv'
  <2>1. TypeOK' BY <1>8 DEF SignalDone, TypeOK, PCs, Conts
  <2>2. CurWellFormed' /\ OwnerAt'
    BY <1>8 DEF SignalDone, TypeOK, CurWellFormed, OwnerAt, Conts
  <2> QED BY <1>8, <2>1, <2>2, SameOwners DEF SignalDone
<1>9. ASSUME NEW a \in Actors, SyncWaitReturn(a) PROVE LockInv'
  <2>1. TypeOK' BY <1>9 DEF SyncWaitReturn, TypeOK, PCs, Conts
  <2>2. CurWellFormed' /\ OwnerAt'
    BY <1>9 DEF SyncWaitReturn, TypeOK, CurWellFormed, OwnerAt
  <2> QED BY <1>9, <2>1, <2>2, SameOwners DEF SyncWaitReturn
<1>10. ASSUME NEW a \in Actors, AsyncTryWait(a) PROVE LockInv'
  <2>1. TypeOK' BY <1>10 DEF AsyncTryWait, TypeOK, PCs
  <2>2. CurWellFormed' /\ OwnerAt'
    BY <1>10 DEF AsyncTryWait, TypeOK, CurWellFormed, OwnerAt
  <2> QED BY <1>10, <2>1, <2>2, SameOwners DEF AsyncTryWait
<1>11. ASSUME NEW a \in Actors, Poll(a) PROVE LockInv'
  <2>1. TypeOK' BY <1>11 DEF Poll, TypeOK, PCs
  <2>2. CurWellFormed' /\ OwnerAt' BY <1>11 DEF Poll, TypeOK, CurWellFormed, OwnerAt
  <2> QED BY <1>11, <2>1, <2>2, SameOwners DEF Poll
<1>12. ASSUME NEW a \in Actors, Cancel(a) \/ Pull(a) \/ PullSpin(a) PROVE LockInv'
  <2>1. TypeOK' BY <1>12 DEF Cancel, Pull, PullSpin, TypeOK, PCs, Conts
  <2>2. CurWellFormed' /\ OwnerAt'
    BY <1>12 DEF Cancel, Pull, PullSpin, TypeOK, CurWellFormed, OwnerAt
  <2> QED BY <1>12, <2>1, <2>2, SameOwners DEF Cancel, Pull, PullSpin
<1>13. ASSUME NEW a \in Actors, Release(a) PROVE LockInv'
  <2>1. LockWordExact' /\ lock' \in 0 .. LOCK BY <1>13, ReleaseExact
  <2>2. TypeOK' BY <1>13, <2>1 DEF Release, Unlock, TypeOK, PCs, Conts
  <2>3. CurWellFormed' /\ OwnerAt'
    BY <1>13 DEF Release, Unlock, TypeOK, CurWellFormed, OwnerAt
  <2> QED BY <2>1, <2>2, <2>3
<1>14. ASSUME NEW a \in Actors, Kill(a) PROVE LockInv'
  <2>1. TypeOK' BY <1>14 DEF Kill, TypeOK
  <2>2. CurWellFormed' /\ OwnerAt' BY <1>14 DEF Kill, TypeOK, CurWellFormed, OwnerAt
  <2> QED BY <1>14, <2>1, <2>2, SameOwners DEF Kill
<1>15. CASE UNCHANGED vars
  <2>1. TypeOK' BY <1>15 DEF vars, TypeOK
  <2>2. CurWellFormed' /\ OwnerAt' BY <1>15 DEF vars, CurWellFormed, OwnerAt
  <2> QED BY <1>15, <2>1, <2>2, SameOwners DEF vars
<1> QED
  BY <1>1, <1>2, <1>3, <1>4, <1>5, <1>6, <1>7, <1>8, <1>9, <1>10, <1>11,
     <1>12, <1>13, <1>14, <1>15
  DEF Next, Step

\* In every reachable state the variables have their types, and the lock
\* bits count the Lockers and Readers exactly.
THEOREM TypeCorrect == Spec => []TypeOK
<1>1. LockInv => TypeOK BY DEF LockInv
<1> QED BY <1>1, InitLockInv, NextLockInv, PTL DEF Spec

\* The lock bits count the Lockers and Readers exactly in every reachable
\* state, for any number of threads and tasks and any SLOCK_MAX.
THEOREM LockWordCorrect == Spec => []LockWordExact
<1>1. LockInv => LockWordExact BY DEF LockInv
<1> QED BY <1>1, InitLockInv, NextLockInv, PTL DEF Spec

-----------------------------------------------------------------------------
(* The wait queue: entries and wake-ups.                                    *)

\* The empty wait queue of a new bucket satisfies WakeInv.
LEMMA InitWakeInv == Init => WakeInv
<1> SUFFICES ASSUME Init PROVE WakeInv
  OBVIOUS
<1>1. queue = <<>> /\ \A b \in Actors : batch[b] = <<>> /\ pc[b] = "idle"
  BY DEF Init
<1>2. Entries(queue) = {} /\ \A b \in Actors : Entries(batch[b]) = {}
  BY <1>1, EmptyEntries
<1>3. NoDanglingEntry
  BY <1>1, <1>2, EmptyEntries DEF NoDanglingEntry, Linked
<1>4. SignalersOnly /\ WaitersLinked /\ QueuedIsCovered
  BY <1>1, <1>2 DEF SignalersOnly, WaitersLinked, QueuedIsCovered, Pending
<1> QED BY <1>3, <1>4 DEF WakeInv

\* Steps that leave the lists and the signals alone, and that start or end
\* nobody's wait but a signaled actor's.
LEMMA SameLists ==
  ASSUME NoDanglingEntry, WaitersLinked, UNCHANGED <<queue, batch, signaled>>,
         \A b \in Actors : (Pending(b) <=> Pending(b)') \/ b \in signaled
  PROVE  NoDanglingEntry' /\ WaitersLinked'
<1>1. \A b \in Actors : Linked(b)' <=> Linked(b)
  BY DEF Linked
<1>2. NoDanglingEntry'
  BY <1>1 DEF NoDanglingEntry
<1>3. WaitersLinked'
  BY <1>1 DEF WaitersLinked
<1> QED BY <1>2, <1>3

\* A step of a that leaves the queue and the word alone and does not signal:
\* what covers the entries of the others still covers them.
LEMMA SameWord ==
  ASSUME NEW a \in Actors, TypeOK, QueuedIsCovered,
         UNCHANGED <<queue, killed, waiting, lock, cur>>,
         pc' = [pc EXCEPT ![a] = pc'[a]],
         pc[a] # "swap",
         a \in Entries(queue) =>
           /\ pc'[a] \in {"load2", "cas2", "swap", "wait", "await", "drop"}
           /\ \/ pc'[a] = "swap"
              \/ pc[a] = "await" /\ pc'[a] \in {"await", "drop"}
  PROVE  QueuedIsCovered'
<1> SUFFICES ASSUME NEW b \in Entries(queue) PROVE Covered(b)'
  BY DEF QueuedIsCovered
<1> USE DEF QueuedIsCovered, Covered
<1>1. b \in Actors
  BY DEF Entries, TypeOK
<1>2. \A c \in Actors : c # a => pc'[c] = pc[c]
  BY DEF TypeOK
<1>3. CASE b = a
  <2>1. CASE pc'[a] = "swap" BY <1>3, <2>1
  <2>2. CASE pc[a] = "await" /\ pc'[a] \in {"await", "drop"}
    BY <1>2, <1>3, <2>2 DEF QueuedIsCovered
  <2> QED BY <1>3, <2>1, <2>2
<1>4. CASE b # a
  BY <1>1, <1>2, <1>4 DEF QueuedIsCovered
<1> QED BY <1>3, <1>4

\* A bucket that somebody owns has lock bits set.
LEMMA OwnedIsLocked ==
  ASSUME LockInv, NEW a \in Actors, held[a] # "none"
  PROVE  lock > 0
<1> USE DEF LockInv
<1>1. held[a] \in {"x", "s"}
  BY DEF TypeOK, Modes
<1>2. CASE Writers # {}
  BY <1>2, SlockMaxAssumption DEF LockWordExact, LOCK
<1>3. CASE Writers = {}
  <2>1. a \in Readers
    BY <1>1, <1>3 DEF Writers, Readers
  <2>2. IsFiniteSet(Readers) /\ Cardinality(Readers) \in Nat
    BY ActorsFinite, FS_Subset, FS_CardinalityType DEF Readers
  <2>3. Cardinality(Readers) # 0
    BY <2>1, <2>2, FS_EmptySet
  <2> QED BY <1>3, <2>2, <2>3 DEF LockWordExact
<1> QED BY <1>2, <1>3

\* Whoever is in the queue is a thread or a task.
LEMMA QueuedIsActor == TypeOK => Entries(queue) \subseteq Actors
  BY DEF TypeOK, Entries

\* The load of try_lock keeps WakeInv.
LEMMA TryLoadWake ==
  ASSUME LockInv, WakeInv, NEW a \in Actors, TryLoad(a)
  PROVE  WakeInv'
<1> USE SlockMaxAssumption DEF LockInv, WakeInv, Goto, word
<1>1. NoDanglingEntry' /\ WaitersLinked'
  <2>1. UNCHANGED <<queue, batch, signaled>>
    BY DEF TryLoad
  <2>2. \A b \in Actors : Pending(b) <=> Pending(b)'
    BY DEF TryLoad, TypeOK, Pending, AfterErr, AfterOk, AfterOkCont
  <2> QED BY <2>1, <2>2, SameLists
<1>2. SignalersOnly'
  BY DEF TryLoad, TypeOK, SignalersOnly
<1>3. QueuedIsCovered'
  <2> SUFFICES ASSUME NEW b \in Entries(queue) PROVE Covered(b)'
    BY DEF TryLoad, QueuedIsCovered
  <2> USE DEF Covered
  <2>1. b \in Actors BY QueuedIsActor
  <2>2. CASE b # a
    <3>1. pc'[b] = pc[b] /\ cur'[b] = cur[b]
      BY <2>1, <2>2 DEF TryLoad, TypeOK
    <3>2. \A c \in Actors : pc[c] = "swap" => pc'[c] = "swap"
      BY DEF TryLoad, TypeOK
    <3> QED BY <3>1, <3>2 DEF TryLoad, QueuedIsCovered
  <2>3. CASE b = a
    <3>1. pc[a] = "load2"
      BY <2>3 DEF QueuedIsCovered, TryLoad
    <3>2. \A c \in Actors : pc[c] = "swap" => pc'[c] = "swap"
      BY DEF TryLoad, TypeOK
    <3>3. (\E c \in Actors : pc[c] = "swap") \/ waiting = 1
      BY <2>3, <3>1 DEF QueuedIsCovered
    <3>4. CASE mode[a] = "s" /\ Full
      <4>1. pc'[a] \in {"wait", "await"} /\ lock > 0
        BY <3>1, <3>4 DEF TryLoad, TypeOK, AfterErr, Full
      <4> QED BY <2>3, <3>2, <3>3, <4>1 DEF TryLoad, QueuedIsCovered
    <3>5. CASE (mode[a] = "x" \/ ~Full) /\ killed = 1
      <4>1. pc'[a] = "swap"
        BY <3>1, <3>5 DEF TryLoad, TypeOK, AfterOk, Modes
      <4> QED BY <2>3, <4>1 DEF QueuedIsCovered
    <3>6. CASE (mode[a] = "x" \/ ~Full) /\ killed = 0
      <4>1. pc'[a] = "cas2" /\ cur'[a] = Expected(a)
        BY <3>1, <3>6 DEF TryLoad, TypeOK, Modes
      <4>2. cur'[a][1] = waiting /\ lock >= cur'[a][2]
        BY <4>1 DEF Expected, TypeOK, LOCK
      <4> QED BY <2>3, <3>2, <3>3, <3>6, <4>1, <4>2 DEF TryLoad, QueuedIsCovered
    <3> QED BY <3>4, <3>5, <3>6 DEF TypeOK, Modes
  <2> QED BY <2>2, <2>3
<1> QED BY <1>1, <1>2, <1>3

\* The exchange of try_lock keeps WakeInv: if it fails after Mark, somebody
\* owns the word.
LEMMA TryCasWake ==
  ASSUME LockInv, WakeInv, NEW a \in Actors, TryCas(a)
  PROVE  WakeInv'
<1> USE SlockMaxAssumption DEF LockInv, WakeInv, Goto
<1>1. NoDanglingEntry' /\ WaitersLinked'
  <2>1. UNCHANGED <<queue, batch, signaled>>
    BY DEF TryCas
  <2>2. \A b \in Actors : Pending(b) <=> Pending(b)'
    BY DEF TryCas, TypeOK, Pending, AfterErr, AfterOk, AfterOkCont
  <2> QED BY <2>1, <2>2, SameLists
<1>2. SignalersOnly'
  BY DEF TryCas, TypeOK, SignalersOnly
<1>3. QueuedIsCovered'
  <2> SUFFICES ASSUME NEW b \in Entries(queue) PROVE Covered(b)'
    BY DEF TryCas, QueuedIsCovered
  <2> USE DEF Covered
  <2>1. b \in Actors BY QueuedIsActor
  <2>2. lock' >= lock /\ lock' \in Nat /\ UNCHANGED <<killed, waiting>>
    BY DEF TryCas, TypeOK, LOCK
  <2>3. \A c \in Actors : pc[c] = "swap" => pc'[c] = "swap"
    BY DEF TryCas, TypeOK
  <2>4. CASE b # a
    <3>1. pc'[b] = pc[b] /\ cur'[b] = cur[b]
      BY <2>1, <2>4 DEF TryCas, TypeOK
    <3>2. cur[b][2] \in Nat /\ lock \in Nat
      BY <2>1 DEF TypeOK, LOCK
    <3> QED BY <2>2, <2>3, <3>1, <3>2 DEF QueuedIsCovered
  <2>5. CASE b = a
    <3>1. pc[a] = "cas2"
      BY <2>5 DEF QueuedIsCovered, TryCas
    <3>2. CASE Matches(a)
      <4>1. pc'[a] = "swap"
        BY <3>1, <3>2 DEF TryCas, TypeOK, AfterOk
      <4> QED BY <2>5, <4>1
    <3>3. CASE ~Matches(a)
      <4>1. pc'[a] \in {"wait", "await"} /\ lock' = lock
        BY <3>1, <3>3 DEF TryCas, TypeOK, AfterErr
      <4>2. CASE \E c \in Actors : pc[c] = "swap"
        BY <2>3, <2>5, <4>1, <4>2
      <4>3. CASE /\ waiting = 1 /\ cur[a][1] = 1 /\ lock >= cur[a][2]
                 /\ killed = 1 => lock > 0
        <5>1. cur[a] = <<cur[a][1], cur[a][2]>> /\ cur[a][2] \in Nat /\ lock \in Nat
          BY DEF TypeOK, LOCK
        <5>2. killed = 1 \/ lock # cur[a][2]
          BY <3>3, <4>3, <5>1 DEF Matches, TypeOK
        <5>3. lock > 0
          BY <4>3, <5>1, <5>2
        <5> QED BY <2>2, <2>5, <4>1, <4>3, <5>3
      <4> QED BY <2>5, <3>1, <4>2, <4>3 DEF QueuedIsCovered
    <3> QED BY <3>2, <3>3
  <2> QED BY <2>4, <2>5
<1> QED BY <1>1, <1>2, <1>3

\* Linking an entry keeps WakeInv.
LEMMA PushWake ==
  ASSUME LockInv, WakeInv, NEW a \in Actors, Push(a)
  PROVE  WakeInv'
<1> USE DEF LockInv, WakeInv, Goto, word
<1>1. /\ pc[a] = "push"
      /\ pc' = [pc EXCEPT ![a] = "mark"]
      /\ queue' = <<a>> \o queue
      /\ signaled' = signaled \ {a}
      /\ UNCHANGED <<word, cur, batch, cont>>
  BY DEF Push
<1>2. ~Linked(a)
  BY <1>1 DEF NoDanglingEntry, Pending
<1>3. /\ Entries(queue') = {a} \cup Entries(queue)
      /\ IsInjective(queue')
  BY <1>1, <1>2, PushEntries DEF TypeOK, NoDanglingEntry, Linked
<1>4. \A b \in Actors : Linked(b)' <=> (Linked(b) \/ b = a)
  BY <1>1, <1>3 DEF Linked
<1>5. Pending(a)' /\ \A b \in Actors : b # a => (Pending(b)' <=> Pending(b))
  BY <1>1 DEF TypeOK, Pending
<1>6. NoDanglingEntry'
  <2>1. \A b \in Actors : Linked(b)' => Pending(b)' /\ b \notin signaled'
    BY <1>1, <1>4, <1>5 DEF NoDanglingEntry
  <2>2. \A b \in Actors : Entries(batch'[b]) \cap Entries(queue') = {}
    BY <1>1, <1>2, <1>3 DEF NoDanglingEntry, Linked
  <2> QED BY <1>1, <1>3, <2>1, <2>2 DEF NoDanglingEntry
<1>7. WaitersLinked'
  BY <1>1, <1>4, <1>5 DEF WaitersLinked
<1>8. SignalersOnly'
  BY <1>1 DEF TypeOK, SignalersOnly
<1>9. QueuedIsCovered'
  <2> SUFFICES ASSUME NEW b \in Entries(queue) \cup {a} PROVE Covered(b)'
    BY <1>3 DEF QueuedIsCovered
  <2>1. b \in Actors BY QueuedIsActor
  <2>2. CASE b = a
    BY <1>1, <2>2 DEF Covered, TypeOK
  <2>3. CASE b # a
    <3>1. pc'[b] = pc[b] /\ \A c \in Actors : pc[c] = "swap" => pc'[c] = "swap"
      BY <1>1, <2>1, <2>3 DEF TypeOK
    <3> QED BY <1>1, <2>3, <3>1 DEF QueuedIsCovered, Covered
  <2> QED BY <2>2, <2>3
<1> QED BY <1>6, <1>7, <1>8, <1>9

\* Taking the queue keeps WakeInv: its entries move into the signaler's list.
LEMMA SignalSwapWake ==
  ASSUME LockInv, WakeInv, NEW a \in Actors, SignalSwap(a)
  PROVE  WakeInv'
<1> USE DEF LockInv, WakeInv, Goto, word
<1>1. /\ pc[a] = "swap"
      /\ pc' = [pc EXCEPT ![a] = "wake"]
      /\ queue' = <<>>
      /\ batch' = [batch EXCEPT ![a] = Reverse(queue)]
      /\ UNCHANGED <<signaled, cont>>
  BY DEF SignalSwap
<1>2. batch[a] = <<>> /\ Entries(batch[a]) = {}
  BY <1>1, EmptyEntries DEF SignalersOnly
<1>3. /\ Entries(batch'[a]) = Entries(queue)
      /\ IsInjective(batch'[a])
      /\ \A b \in Actors : b # a => batch'[b] = batch[b]
  BY <1>1, ReverseEntries DEF TypeOK, NoDanglingEntry
<1>4. Entries(queue') = {} /\ IsInjective(queue')
  BY <1>1, EmptyEntries
<1>5. \A b \in Actors : Linked(b)' <=> Linked(b)
  BY <1>2, <1>3, <1>4 DEF Linked
<1>6. \A b \in Actors : Pending(b)' <=> Pending(b)
  BY <1>1 DEF TypeOK, Pending
<1>7. NoDanglingEntry'
  <2>1. \A b, c \in Actors :
          b # c => Entries(batch'[b]) \cap Entries(batch'[c]) = {}
    BY <1>3 DEF NoDanglingEntry
  <2>2. \A b \in Actors : IsInjective(batch'[b])
    BY <1>3 DEF NoDanglingEntry
  <2> QED BY <1>1, <1>4, <1>5, <1>6, <2>1, <2>2 DEF NoDanglingEntry
<1>8. WaitersLinked' /\ SignalersOnly' /\ QueuedIsCovered'
  BY <1>1, <1>4, <1>5, <1>6
  DEF TypeOK, WaitersLinked, SignalersOnly, QueuedIsCovered
<1> QED BY <1>7, <1>8

\* Signaling an entry keeps WakeInv: the entry leaves the list for good.
LEMMA SignalEntryWake ==
  ASSUME LockInv, WakeInv, NEW a \in Actors, SignalEntry(a)
  PROVE  WakeInv'
<1> USE DEF LockInv, WakeInv, word
<1> DEFINE h == Head(batch[a])
<1>1. /\ pc[a] = "wake" /\ batch[a] # <<>>
      /\ batch' = [batch EXCEPT ![a] = Tail(batch[a])]
      /\ signaled' = signaled \cup {h}
      /\ UNCHANGED <<word, cur, queue, pc, cont>>
  BY DEF SignalEntry
<1>2. /\ Entries(batch[a]) = {h} \cup Entries(Tail(batch[a]))
      /\ h \notin Entries(Tail(batch[a]))
      /\ IsInjective(Tail(batch[a]))
  BY <1>1, TailEntries DEF TypeOK, NoDanglingEntry
<1>3. /\ batch'[a] = Tail(batch[a])
      /\ \A b \in Actors : b # a => batch'[b] = batch[b]
  BY <1>1 DEF TypeOK
<1>4. \A b \in Actors : Linked(b)' <=> (Linked(b) /\ b # h)
  BY <1>1, <1>2, <1>3 DEF Linked, NoDanglingEntry
<1>5. \A b \in Actors : Pending(b)' <=> Pending(b)
  BY <1>1 DEF Pending
<1>6. NoDanglingEntry'
  <2>1. \A b \in Actors : Entries(batch'[b]) \subseteq Entries(batch[b])
    BY <1>2, <1>3
  <2>2. \A b \in Actors : IsInjective(batch'[b])
    BY <1>2, <1>3 DEF NoDanglingEntry
  <2>3. \A b \in Actors : Entries(batch'[b]) \cap Entries(queue') = {}
    BY <1>1, <2>1 DEF NoDanglingEntry
  <2>4. \A b, c \in Actors :
          b # c => Entries(batch'[b]) \cap Entries(batch'[c]) = {}
    BY <2>1 DEF NoDanglingEntry
  <2> QED BY <1>1, <1>4, <1>5, <2>2, <2>3, <2>4 DEF NoDanglingEntry
<1>7. WaitersLinked'
  BY <1>1, <1>4, <1>5 DEF WaitersLinked
<1>8. SignalersOnly'
  BY <1>1, <1>3 DEF SignalersOnly
<1>9. QueuedIsCovered'
  BY <1>1 DEF QueuedIsCovered, Covered
<1> QED BY <1>6, <1>7, <1>8, <1>9

\* Setting WAITING keeps WakeInv.
LEMMA MarkWake ==
  ASSUME LockInv, WakeInv, NEW a \in Actors, Mark(a)
  PROVE  WakeInv'
<1> USE DEF LockInv, WakeInv, Goto
<1>1. NoDanglingEntry' /\ WaitersLinked'
  <2>1. UNCHANGED <<queue, batch, signaled>> BY DEF Mark
  <2>2. \A b \in Actors : Pending(b) <=> Pending(b)' BY DEF Mark, TypeOK, Pending
  <2> QED BY <2>1, <2>2, SameLists
<1>2. SignalersOnly'
  BY DEF Mark, TypeOK, SignalersOnly
<1>3. QueuedIsCovered'
  <2> SUFFICES ASSUME NEW b \in Entries(queue) PROVE Covered(b)'
    BY DEF Mark, QueuedIsCovered
  <2>1. b \in Actors BY QueuedIsActor
  <2>2. waiting' = 1 /\ UNCHANGED <<killed, lock, cur>>
    BY DEF Mark
  <2>3. \A c \in Actors : pc'[c] = IF c = a THEN "load2" ELSE pc[c]
    BY DEF Mark, TypeOK
  <2>4. pc[a] = "mark"
    BY DEF Mark
  <2> QED BY <2>1, <2>2, <2>3, <2>4 DEF QueuedIsCovered, Covered
<1> QED BY <1>1, <1>2, <1>3

\* Unlocking keeps WakeInv: WAITING makes the releasing actor signal.
LEMMA ReleaseWake ==
  ASSUME LockInv, WakeInv, NEW a \in Actors, Release(a)
  PROVE  WakeInv'
<1> USE DEF LockInv, WakeInv, Goto
<1>1. NoDanglingEntry' /\ WaitersLinked'
  <2>1. UNCHANGED <<queue, batch, signaled>> BY DEF Release
  <2>2. \A b \in Actors : Pending(b) <=> Pending(b)'
    BY DEF Release, TypeOK, Pending
  <2> QED BY <2>1, <2>2, SameLists
<1>2. SignalersOnly'
  BY DEF Release, TypeOK, SignalersOnly
<1>3. QueuedIsCovered'
  <2> SUFFICES ASSUME NEW b \in Entries(queue) PROVE Covered(b)'
    BY DEF Release, QueuedIsCovered
  <2>1. b \in Actors BY QueuedIsActor
  <2>2. b # a
    BY DEF Release, QueuedIsCovered, Covered
  <2>3. \A c \in Actors : c # a => pc'[c] = pc[c]
    BY DEF Release, TypeOK
  <2>4. CASE waiting = 1
    <3>1. pc'[a] = "swap"
      BY <2>4 DEF Release, TypeOK
    <3> QED BY <2>1, <2>2, <2>3, <3>1 DEF QueuedIsCovered, Covered
  <2>5. CASE waiting # 1
    <3>1. pc[a] # "swap"
      BY DEF Release
    <3>2. pc[b] = "mark" \/ \E c \in Actors : c # a /\ pc[c] = "swap"
      BY <2>5, <3>1 DEF QueuedIsCovered, Covered
    <3> QED BY <2>1, <2>2, <2>3, <3>2 DEF QueuedIsCovered, Covered
  <2> QED BY <2>4, <2>5
<1> QED BY <1>1, <1>2, <1>3

\* Killing the bucket keeps WakeInv: the killer owns it and will release it.
LEMMA KillWake ==
  ASSUME LockInv, WakeInv, NEW a \in Actors, Kill(a)
  PROVE  WakeInv'
<1> USE DEF LockInv, WakeInv
<1>1. lock > 0
  BY OwnedIsLocked DEF Kill, OwnerAt
<1>2. UNCHANGED <<waiting, lock, queue, pc, cur, signaled, batch, cont>>
  BY DEF Kill
<1>3. \A b \in Actors : Pending(b) <=> Pending(b)'
  BY <1>2 DEF Pending
<1>4. NoDanglingEntry' /\ WaitersLinked'
  BY <1>2, <1>3, SameLists
<1>5. SignalersOnly' /\ QueuedIsCovered'
  BY <1>1, <1>2 DEF SignalersOnly, QueuedIsCovered, Covered
<1> QED BY <1>4, <1>5

\* The steps that touch neither the word nor the lists: an actor starts an
\* operation, moves on after a signal, parks, or drops its AsyncWait.
LEMMA LocalStepWake ==
  ASSUME LockInv, WakeInv, NEW a \in Actors,
         \/ \E m \in Modes : Lock(a, m)
         \/ SignalDone(a) \/ SyncWaitReturn(a) \/ AsyncTryWait(a) \/ Poll(a)
         \/ Cancel(a) \/ Pull(a) \/ PullSpin(a)
  PROVE  WakeInv'
<1> USE DEF LockInv, WakeInv, Goto, word
<1>1. UNCHANGED <<queue, batch, signaled, killed, waiting, lock, cur>>
  BY DEF Lock, SignalDone, SyncWaitReturn, AsyncTryWait, Poll, Cancel, Pull,
         PullSpin
<1>2. \A b \in Actors : (Pending(b) <=> Pending(b)') \/ b \in signaled
  <2>1. CASE \E m \in Modes : Lock(a, m) BY <2>1 DEF Lock, TypeOK, Pending
  <2>2. CASE SignalDone(a) BY <2>2 DEF SignalDone, TypeOK, Pending, Conts
  <2>3. CASE SyncWaitReturn(a) BY <2>3 DEF SyncWaitReturn, TypeOK, Pending
  <2>4. CASE AsyncTryWait(a) BY <2>4 DEF AsyncTryWait, TypeOK, Pending
  <2>5. CASE Poll(a) BY <2>5 DEF Poll, TypeOK, Pending
  <2>6. CASE Cancel(a) \/ Pull(a) \/ PullSpin(a)
    BY <2>6 DEF Cancel, Pull, PullSpin, TypeOK, Pending
  <2> QED BY <2>1, <2>2, <2>3, <2>4, <2>5, <2>6
<1>3. NoDanglingEntry' /\ WaitersLinked'
  BY <1>1, <1>2, SameLists
<1>4. SignalersOnly'
  BY DEF Lock, SignalDone, SyncWaitReturn, AsyncTryWait, Poll, Cancel, Pull,
         PullSpin, TypeOK, SignalersOnly
<1>5. QueuedIsCovered'
  <2>1. pc[a] # "swap" /\ pc' = [pc EXCEPT ![a] = pc'[a]]
    BY DEF Lock, SignalDone, SyncWaitReturn, AsyncTryWait, Poll, Cancel, Pull,
           PullSpin, TypeOK
  <2>2. a \in Entries(queue) => a \notin signaled
    BY DEF NoDanglingEntry, Linked
  <2>3. a \in Entries(queue) =>
          /\ pc'[a] \in {"load2", "cas2", "swap", "wait", "await", "drop"}
          /\ \/ pc'[a] = "swap"
             \/ pc[a] = "await" /\ pc'[a] \in {"await", "drop"}
    BY <2>2 DEF Lock, SignalDone, SyncWaitReturn, AsyncTryWait, Poll, Cancel,
                Pull, PullSpin, TypeOK, QueuedIsCovered, Covered
  <2> QED BY <1>1, <2>1, <2>3, SameWord
<1> QED BY <1>3, <1>4, <1>5

\* Every step keeps WakeInv.
LEMMA NextWakeInv == LockInv /\ WakeInv /\ [Next]_vars => WakeInv'
<1> SUFFICES ASSUME LockInv, WakeInv, [Next]_vars PROVE WakeInv'
  OBVIOUS
<1>1. CASE UNCHANGED vars
  <2>1. UNCHANGED <<queue, batch, signaled>> BY <1>1 DEF vars
  <2>2. \A b \in Actors : Pending(b) <=> Pending(b)' BY <1>1 DEF vars, Pending
  <2>3. NoDanglingEntry' /\ WaitersLinked' BY <2>1, <2>2, SameLists DEF WakeInv
  <2>4. SignalersOnly' /\ QueuedIsCovered'
    BY <1>1 DEF vars, WakeInv, SignalersOnly, QueuedIsCovered, Covered
  <2> QED BY <2>3, <2>4 DEF WakeInv
<1> QED
  BY <1>1, TryLoadWake, TryCasWake, PushWake, SignalSwapWake, SignalEntryWake,
     MarkWake, ReleaseWake, KillWake, LocalStepWake
  DEF Next, Step

\* Both inductive invariants hold in every reachable state.
LEMMA WakeInvAlways == Spec => [](LockInv /\ WakeInv)
  BY InitLockInv, NextLockInv, InitWakeInv, NextWakeInv, PTL DEF Spec

\* Whatever WaitQueue::signal can reach is an entry whose owner still waits
\* and has not been signaled, and it is reachable once: signaling never
\* touches the stack of a thread that has returned or a dropped AsyncWait.
THEOREM EntriesNeverDangle == Spec => []NoDanglingEntry
<1>1. LockInv /\ WakeInv => NoDanglingEntry BY DEF WakeInv
<1> QED BY <1>1, WakeInvAlways, PTL

\* A waiter that has not been signaled is always about to be: it is in a
\* signaler's list, a signal is on its way, or the word it waits on is owned
\* and marked WAITING so that the release signals.
THEOREM WakeupsNeverLost == Spec => []NoLostWakeup
<1>1. ASSUME LockInv, WakeInv PROVE NoLostWakeup
  <2> SUFFICES ASSUME NEW a \in Actors, Pending(a), a \notin signaled
               PROVE  \/ \E b \in Actors : pc[b] = "wake" /\ a \in Entries(batch[b])
                      \/ /\ a \in Entries(queue)
                         /\ \/ \E b \in Actors : pc[b] = "swap"
                            \/ waiting = 1 /\ lock > 0
                            \/ pc[a] \in {"mark", "load2", "cas2"}
    BY DEF NoLostWakeup
  <2>1. Linked(a)
    BY <1>1 DEF WakeInv, WaitersLinked
  <2>2. CASE a \in Entries(queue)
    BY <1>1, <2>2 DEF WakeInv, QueuedIsCovered, Covered
  <2>3. ASSUME NEW b \in Actors, a \in Entries(batch[b])
        PROVE  pc[b] = "wake"
    BY <1>1, <2>3, EmptyEntries DEF WakeInv, SignalersOnly
  <2> QED BY <2>1, <2>2, <2>3 DEF Linked
<1> QED BY <1>1, WakeInvAlways, PTL

-----------------------------------------------------------------------------
(* Implementation of the reader-writer lock.                                *)

\* A step that changes neither owners nor the KILLED bit is invisible in RwLock.
LEMMA SameAbstract ==
  ASSUME UNCHANGED <<killed, held>>
  PROVE  UNCHANGED Abstract!vars
  BY DEF Abstract!vars, Writers, Readers

\* The state word and the wait queue implement RwLock: each step of the code
\* is a step of the abstract lock or leaves it unchanged.
THEOREM LockRefinesRwLock == Spec => RefinesRwLock
<1>1. Init => Abstract!Init
  BY DEF Init, Abstract!Init, Writers, Readers
<1>2. LockInv /\ [Next]_vars => [Abstract!Next]_(Abstract!vars)
  <2> SUFFICES ASSUME LockInv, [Next]_vars
               PROVE  [Abstract!Next]_(Abstract!vars)
    OBVIOUS
  <2> USE DEF LockInv
  <2>1. ASSUME NEW a \in Actors, TryCas(a), Matches(a)
        PROVE  Abstract!AcquireWrite(a) \/ Abstract!AcquireRead(a)
    <3>1. /\ held' = [held EXCEPT ![a] = mode[a]]
          /\ lock = cur[a][2] /\ killed = 0 /\ killed' = 0
          /\ pc[a] \in {"cas", "cas2"}
      BY <2>1 DEF TryCas, Matches
    <3>2. held[a] = "none" /\ mode[a] \in {"x", "s"}
      BY <3>1 DEF OwnerAt, TypeOK, Modes
    <3>3. IsFiniteSet(Readers) /\ Cardinality(Readers) \in Nat
      BY ActorsFinite, FS_Subset, FS_CardinalityType DEF Readers
    <3>4. CASE mode[a] = "x"
      <4>1. lock = 0
        BY <3>1, <3>4 DEF CurWellFormed
      <4>2. Writers = {} /\ Readers = {}
        BY <4>1, <3>3, FS_EmptySet, SlockMaxAssumption DEF LockWordExact, LOCK
      <4>3. Writers' = {a} /\ Readers' = Readers
        BY <3>1, <3>4, <4>2 DEF Writers, Readers, TypeOK
      <4> QED BY <3>1, <4>2, <4>3 DEF Abstract!AcquireWrite
    <3>5. CASE mode[a] = "s"
      <4>1. lock < SlockMax
        BY <3>1, <3>5 DEF CurWellFormed
      <4>2. Writers = {} /\ lock = Cardinality(Readers)
        BY <4>1, SlockMaxAssumption DEF LockWordExact, LOCK
      <4>3. Writers' = Writers /\ Readers' = Readers \cup {a} /\ a \notin Readers
        BY <3>1, <3>2, <3>5, <4>2 DEF Writers, Readers, TypeOK
      <4>4. Cardinality(Readers) < SlockMax
        BY <4>1, <4>2
      <4>5. Abstract!Cardinality(Readers) = Cardinality(Readers)
        BY DEF Cardinality, Abstract!Cardinality
      <4> QED BY <3>1, <4>2, <4>3, <4>4, <4>5 DEF Abstract!AcquireRead
    <3> QED BY <3>2, <3>4, <3>5
  <2>2. ASSUME NEW a \in Actors, Release(a) PROVE Abstract!Release(a)
    <3>1. held[a] # "none" /\ killed' = killed
          /\ held' = [held EXCEPT ![a] = "none"]
      BY <2>2 DEF Release, Unlock, OwnerAt
    <3>2. a \in Writers \cup Readers
      BY <3>1 DEF TypeOK, Modes, Writers, Readers
    <3>3. Writers' = Writers \ {a} /\ Readers' = Readers \ {a}
      BY <3>1 DEF TypeOK, Writers, Readers
    <3> QED BY <3>1, <3>2, <3>3 DEF Abstract!Release
  <2>3. ASSUME NEW a \in Actors, Kill(a) PROVE Abstract!Kill(a)
    <3>1. held[a] # "none" /\ killed' = 1 /\ held' = held
      BY <2>3 DEF Kill, OwnerAt
    <3>2. a \in Writers \cup Readers
      BY <3>1 DEF TypeOK, Modes, Writers, Readers
    <3> QED BY <3>1, <3>2 DEF Abstract!Kill, Writers, Readers
  <2>4. ASSUME NEW a \in Actors, TryCas(a), ~Matches(a)
        PROVE  UNCHANGED Abstract!vars
    BY <2>4, SameAbstract DEF TryCas
  <2>5. ASSUME NEW a \in Actors,
               \/ \E m \in Modes : Lock(a, m)
               \/ TryLoad(a) \/ Push(a) \/ Mark(a)
               \/ SignalSwap(a) \/ SignalEntry(a) \/ SignalDone(a)
               \/ SyncWaitReturn(a) \/ AsyncTryWait(a) \/ Poll(a)
               \/ Pull(a) \/ PullSpin(a) \/ Cancel(a)
        PROVE  UNCHANGED Abstract!vars
    <3>1. UNCHANGED <<killed, held>>
      BY <2>5 DEF Lock, TryLoad, Push, Mark, SignalSwap, SignalEntry, SignalDone,
                  SyncWaitReturn, AsyncTryWait, Poll, Pull, PullSpin, Cancel, word
    <3> QED BY <3>1, SameAbstract
  <2>6. CASE UNCHANGED vars
    BY <2>6, SameAbstract DEF vars
  <2> QED BY <2>1, <2>2, <2>3, <2>4, <2>5, <2>6
          DEF Next, Step, Abstract!Next
<1> QED
  BY <1>1, <1>2, InitLockInv, NextLockInv, PTL
  DEF Spec, RefinesRwLock, Abstract!Spec

=============================================================================
