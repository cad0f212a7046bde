----------------------------- MODULE BucketLock -----------------------------
(***************************************************************************)
(* The reader-writer lock of a hash table bucket together with the wait    *)
(* queue that keeps its users from busy-waiting.                           *)
(*                                                                         *)
(*   src/hash_table/bucket.rs   Locker, Reader, Bucket::kill, state bits   *)
(*   src/wait_queue.rs          WaitQueue, SyncWait, AsyncWait             *)
(*                                                                         *)
(* An actor is a thread that blocks (SyncActors: Locker::lock,             *)
(* Reader::lock, WaitQueue::wait_sync) or a task that awaits (AsyncActors: *)
(* try_lock_or_wait, WaitQueue::push_async_entry, the AsyncWait future).   *)
(* Every atomic access to the state word or to the head of the wait queue  *)
(* is a step of its own; a compare-exchange loop is the step in which the  *)
(* exchange succeeds.  An entry of the wait queue lives on the stack (or   *)
(* in the future) of the actor that pushed it, so an entry is named by its *)
(* actor.                                                                  *)
(*                                                                         *)
(* A definition named X_Mistake, in front of X, is X with a mistake such   *)
(* code could have; no action uses it.  The README lists which property    *)
(* tells each of them from X.                                              *)
(***************************************************************************)
EXTENDS Naturals, Sequences, SequencesExt, FiniteSets

CONSTANTS
  SyncActors,   \* threads using the blocking interface
  AsyncActors,  \* tasks using the asynchronous interface
  SlockMax      \* SLOCK_MAX: the largest number of shared locks

ASSUME ActorAssumption ==
  /\ IsFiniteSet(SyncActors)
  /\ IsFiniteSet(AsyncActors)
  /\ SyncActors \cap AsyncActors = {}

ASSUME SlockMaxAssumption == SlockMax \in Nat \ {0}

Actors == SyncActors \cup AsyncActors

\* The LOCK bit: SLOCK_MAX is LOCK - 1 and the two share LOCK_MASK.
LOCK == SlockMax + 1

VARIABLES
  killed,    \* the KILLED bit of the state word
  waiting,   \* the WAITING bit of the state word
  lock,      \* the bits under LOCK_MASK: 0, a number of readers, or LOCK
  queue,     \* the wait queue, newest entry first
  pc,        \* where each actor is
  mode,      \* "x" for a Locker, "s" for a Reader
  cur,       \* what try_lock loaded: <<waiting, lock>> its exchange expects
  held,      \* the lock an actor owns: "none", "x" or "s"
  signaled,  \* the actors whose entry has been signaled
  parked,    \* the tasks that returned Pending with their waker stored
  batch,     \* the entries an actor took from the queue and has to signal
  cont       \* where an actor goes on after WaitQueue::signal

word == <<killed, waiting, lock>>
vars == <<killed, waiting, lock, queue, pc, mode, cur, held, signaled,
          parked, batch, cont>>

Modes == {"x", "s"}

\* Control points; "load", "cas" and "load2", "cas2" are the two calls of
\* try_lock, before and after the entry has been pushed.
PCs == {"idle", "load", "cas", "push", "mark", "load2", "cas2", "swap",
        "wake", "wait", "trywait", "dispose", "await", "drop", "spin",
        "hold"}

\* Where WaitQueue::signal returns to: wait_sync, push_async_entry (with the
\* lock or after having disposed of it), AsyncWait::pull, or the caller of
\* the unlocking drop.
Conts == {"wait", "trywait", "await", "spin", "idle"}

Entries(s) == {s[i] : i \in 1 .. Len(s)}

Goto(a, l) == pc' = [pc EXCEPT ![a] = l]

Init ==
  /\ killed = 0 /\ waiting = 0 /\ lock = 0
  /\ queue = <<>>
  /\ pc = [a \in Actors |-> "idle"]
  /\ mode = [a \in Actors |-> "x"]
  /\ cur = [a \in Actors |-> <<0, 0>>]
  /\ held = [a \in Actors |-> "none"]
  /\ signaled = {}
  /\ parked = {}
  /\ batch = [a \in Actors |-> <<>>]
  /\ cont = [a \in Actors |-> "idle"]

-----------------------------------------------------------------------------
(* Acquiring: Locker::lock, Reader::lock and the two try_lock_or_wait.      *)

Lock(a, m) ==
  /\ pc[a] = "idle"
  /\ mode' = [mode EXCEPT ![a] = m]
  /\ Goto(a, "load")
  /\ UNCHANGED <<word, queue, cur, held, signaled, parked, batch, cont>>

\* The call failed without a lock.  The first try_lock makes the actor push
\* an entry; after the second one it blocks or awaits.
AfterErr(a) ==
  IF pc[a] \in {"load", "cas"} THEN "push"
  ELSE IF a \in SyncActors THEN "wait" ELSE "await"

\* The call returned Ok and the first try_lock's caller goes on at l.  After
\* the second one the actor signals the queue (its own entry is in it, or in
\* the hands of another signaler).
AfterOk(a, l) == IF pc[a] \in {"load", "cas"} THEN l ELSE "swap"

AfterOkCont(a) ==
  IF pc[a] \in {"load", "cas"} THEN cont
  ELSE [cont EXCEPT ![a] = IF a \in SyncActors THEN "wait" ELSE "trywait"]

\* A Reader gives up when the lock bits are at SLOCK_MAX or above.
Full_OffByOne == lock > SlockMax
Full == lock >= SlockMax

\* The value the compare-exchange expects: a Locker masks the lock bits out
\* of what it loaded.
Expected(a) == <<waiting, IF mode[a] = "x" THEN 0 ELSE lock>>

\* The compare part: the word equals the value expected, which never has the
\* KILLED bit.
Matches_AnyKilled(a) == <<waiting, lock>> = cur[a]
Matches(a) == killed = 0 /\ <<waiting, lock>> = cur[a]

\* The load of try_lock.  A Locker ignores the lock bits and looks for
\* KILLED first; a Reader gives up on a full or exclusively locked word
\* before it looks for KILLED.
TryLoad(a) ==
  /\ pc[a] \in {"load", "load2"}
  /\ \/ /\ mode[a] = "s" /\ Full
        /\ Goto(a, AfterErr(a))
        /\ UNCHANGED <<cur, cont>>
     \/ /\ mode[a] = "x" \/ ~Full
        /\ killed = 1
        /\ Goto(a, AfterOk(a, "idle"))
        /\ cont' = AfterOkCont(a)
        /\ UNCHANGED cur
     \/ /\ mode[a] = "x" \/ ~Full
        /\ killed = 0
        /\ cur' = [cur EXCEPT ![a] = Expected(a)]
        /\ Goto(a, IF pc[a] = "load" THEN "cas" ELSE "cas2")
        /\ UNCHANGED cont
  /\ UNCHANGED <<word, queue, mode, held, signaled, parked, batch>>

\* The compare-exchange of try_lock: "current | LOCK" or "current + 1".
TryCas(a) ==
  /\ pc[a] \in {"cas", "cas2"}
  /\ \/ /\ Matches(a)
        /\ lock' = IF mode[a] = "x" THEN lock + LOCK ELSE lock + 1
        /\ held' = [held EXCEPT ![a] = mode[a]]
        /\ Goto(a, AfterOk(a, "hold"))
        /\ cont' = AfterOkCont(a)
     \/ /\ ~Matches(a)
        /\ Goto(a, AfterErr(a))
        /\ UNCHANGED <<lock, held, cont>>
  /\ cur' = [cur EXCEPT ![a] = <<0, 0>>]
  /\ UNCHANGED <<killed, waiting, queue, mode, signaled, parked, batch>>

\* wait_sync and push_async_entry make a fresh entry and link it at the head.
Push(a) ==
  /\ pc[a] = "push"
  /\ queue' = <<a>> \o queue
  /\ signaled' = signaled \ {a}
  /\ parked' = parked \ {a}
  /\ Goto(a, "mark")
  /\ UNCHANGED <<word, mode, cur, held, batch, cont>>

Mark_NoFlag(a) ==
  /\ pc[a] = "mark"
  /\ Goto(a, "load2")
  /\ UNCHANGED <<word, queue, mode, cur, held, signaled, parked, batch, cont>>

\* The closure run with the entry in the queue first sets WAITING.
Mark(a) ==
  /\ pc[a] = "mark"
  /\ waiting' = 1
  /\ Goto(a, "load2")
  /\ UNCHANGED <<killed, lock, queue, mode, cur, held, signaled, parked,
                 batch, cont>>

-----------------------------------------------------------------------------
(* WaitQueue::signal                                                        *)

SignalSwap_NewestOnly(a) ==
  /\ pc[a] = "swap"
  /\ batch' = [batch EXCEPT ![a] =
                 IF queue = <<>> THEN <<>> ELSE <<Head(queue)>>]
  /\ queue' = <<>>
  /\ Goto(a, "wake")
  /\ UNCHANGED <<word, mode, cur, held, signaled, parked, cont>>

\* The whole queue is taken with one swap.  The list is private from then
\* on, so flipping it to oldest-first belongs to the same step.
SignalSwap(a) ==
  /\ pc[a] = "swap"
  /\ batch' = [batch EXCEPT ![a] = Reverse(queue)]
  /\ queue' = <<>>
  /\ Goto(a, "wake")
  /\ UNCHANGED <<word, mode, cur, held, signaled, parked, cont>>


\* SyncWait::signal and AsyncWait::signal, under the mutex of the entry; the
\* successor has been read before.  Signaling a task takes its waker and
\* wakes it, so the executor polls it again.
SignalEntry(a) ==
  /\ pc[a] = "wake" /\ batch[a] # <<>>
  /\ signaled' = signaled \cup {Head(batch[a])}
  /\ parked' = parked \ {Head(batch[a])}
  /\ batch' = [batch EXCEPT ![a] = Tail(@)]
  /\ UNCHANGED <<word, queue, pc, mode, cur, held, cont>>

SignalDone(a) ==
  /\ pc[a] = "wake" /\ batch[a] = <<>>
  /\ Goto(a, cont[a])
  /\ UNCHANGED <<word, queue, mode, cur, held, signaled, parked, batch, cont>>

-----------------------------------------------------------------------------
(* Waiting                                                                  *)

\* SyncWait::wait returns; wait_sync hands the result of the closure to
\* lock(), which returns the lock, returns None for a killed bucket, or
\* starts over.  A closure that succeeded left its mark in cont.
SyncWaitReturn(a) ==
  /\ pc[a] = "wait" /\ a \in signaled
  /\ Goto(a, IF held[a] # "none" THEN "hold"
             ELSE IF cont[a] = "wait" THEN "idle" ELSE "load")
  /\ cont' = [cont EXCEPT ![a] = "idle"]
  /\ UNCHANGED <<word, queue, mode, cur, held, signaled, parked, batch>>

\* push_async_entry, closure succeeded and queue signaled: with its entry
\* signaled it returns the result; otherwise another actor is still about to
\* signal the entry and the result, with the lock, is disposed of.
AsyncTryWait(a) ==
  /\ pc[a] = "trywait"
  /\ Goto(a, IF a \in signaled THEN (IF held[a] # "none" THEN "hold" ELSE "idle")
             ELSE IF held[a] # "none" THEN "dispose" ELSE "await")
  /\ UNCHANGED <<word, queue, mode, cur, held, signaled, parked, batch, cont>>

\* AsyncWait::poll: ready when the entry has been signaled (the caller
\* starts the operation over with a new AsyncWait), else the waker is stored
\* and the task is parked.  A parked task is polled again only when woken.
Poll(a) ==
  /\ pc[a] = "await" /\ a \notin parked
  /\ \/ a \in signaled /\ Goto(a, "load") /\ UNCHANGED parked
     \/ /\ a \notin signaled
        /\ parked' = parked \cup {a}
        /\ UNCHANGED pc
  /\ UNCHANGED <<word, queue, mode, cur, held, signaled, batch, cont>>

\* The future that owns the AsyncWait is dropped while it is pending.
Cancel(a) ==
  /\ pc[a] = "await"
  /\ Goto(a, "drop")
  /\ UNCHANGED <<word, queue, mode, cur, held, signaled, parked, batch, cont>>

\* AsyncWait::pull: an entry that is still associated with the queue makes
\* the dropping task signal the whole queue and then spin until it has been
\* signaled, by itself or by the actor that took its entry before.
Pull(a) ==
  /\ pc[a] = "drop"
  /\ \/ /\ a \in signaled /\ Goto(a, "idle") /\ UNCHANGED cont
     \/ /\ a \notin signaled /\ Goto(a, "swap")
        /\ cont' = [cont EXCEPT ![a] = "spin"]
  /\ UNCHANGED <<word, queue, mode, cur, held, signaled, parked, batch>>

PullSpin_NoWait(a) ==
  /\ pc[a] = "spin"
  /\ Goto(a, "idle")
  /\ UNCHANGED <<word, queue, mode, cur, held, signaled, parked, batch, cont>>

\* The loop "while !self.try_wait()".
PullSpin(a) ==
  /\ pc[a] = "spin" /\ a \in signaled
  /\ Goto(a, "idle")
  /\ UNCHANGED <<word, queue, mode, cur, held, signaled, parked, batch, cont>>

-----------------------------------------------------------------------------
(* Owning: Locker::drop, Reader::release, Bucket::kill                      *)

\* The word after unlocking: a Locker clears LOCK, a Reader subtracts one;
\* both clear WAITING.
Unlock(a) ==
  /\ lock' = IF held[a] = "x" THEN 0 ELSE lock - 1
  /\ waiting' = 0
  /\ held' = [held EXCEPT ![a] = "none"]

\* The queue is signaled if WAITING was set in the word that was replaced.
Release(a) ==
  /\ pc[a] \in {"hold", "dispose"}
  /\ Unlock(a)
  /\ LET next == IF pc[a] = "hold" THEN "idle" ELSE "await" IN
       /\ Goto(a, IF waiting = 1 THEN "swap" ELSE next)
       /\ cont' = IF waiting = 1 THEN [cont EXCEPT ![a] = next] ELSE cont
  /\ UNCHANGED <<killed, queue, mode, cur, signaled, parked, batch>>

\* relocate_bucket kills a bucket it has locked exclusively, try_resize one
\* it has locked shared while it drops an empty table.
Kill(a) ==
  /\ pc[a] = "hold" /\ killed = 0
  /\ killed' = 1
  /\ UNCHANGED <<waiting, lock, queue, pc, mode, cur, held, signaled, parked,
                 batch, cont>>

-----------------------------------------------------------------------------

\* The steps an actor takes without being asked to: everything but starting
\* an operation, killing the bucket and cancelling a future.
Step(a) ==
  \/ TryLoad(a) \/ TryCas(a) \/ Push(a) \/ Mark(a)
  \/ SignalSwap(a) \/ SignalEntry(a) \/ SignalDone(a)
  \/ SyncWaitReturn(a) \/ AsyncTryWait(a) \/ Poll(a)
  \/ Pull(a) \/ PullSpin(a) \/ Release(a)

Next ==
  \E a \in Actors :
    \/ \E m \in Modes : Lock(a, m)
    \/ Step(a)
    \/ Kill(a)
    \/ Cancel(a)

Spec == Init /\ [][Next]_vars

\* Threads keep running, tasks that are not parked are polled, and whoever
\* owns the bucket drops its Locker or Reader (they are scope guards).
Fairness == \A a \in Actors : WF_vars(Step(a))

FairSpec == Spec /\ Fairness

-----------------------------------------------------------------------------
(* Correctness                                                              *)

TypeOK ==
  /\ killed \in 0 .. 1 /\ waiting \in 0 .. 1
  /\ lock \in 0 .. LOCK
  /\ queue \in Seq(Actors)
  /\ pc \in [Actors -> PCs]
  /\ mode \in [Actors -> Modes]
  /\ cur \in [Actors -> (0 .. 1) \X (0 .. LOCK)]
  /\ held \in [Actors -> {"none"} \cup Modes]
  /\ signaled \subseteq Actors
  /\ parked \subseteq Actors
  /\ batch \in [Actors -> Seq(Actors)]
  /\ cont \in [Actors -> Conts]

Writers == {a \in Actors : held[a] = "x"}
Readers == {a \in Actors : held[a] = "s"}

\* The lock bits tell exactly who owns the bucket: LOCK for a single Locker
\* and no Reader, else the number of Readers, never more than SLOCK_MAX (one
\* more would be read as the LOCK bit).  This is what the unchecked
\* "current - 1" of Reader::release and "& !LOCK" of Locker::drop rest on.
LockWordExact ==
  \/ /\ lock = LOCK
     /\ Readers = {}
     /\ \E a \in Actors : Writers = {a}
  \/ /\ Writers = {}
     /\ lock = Cardinality(Readers)
     /\ lock <= SlockMax

\* What try_lock will compare with: no lock bits for a Locker, fewer than
\* SLOCK_MAX readers for a Reader.
CurWellFormed ==
  \A a \in Actors : pc[a] \in {"cas", "cas2"} =>
    /\ mode[a] = "x" => cur[a][2] = 0
    /\ mode[a] = "s" => cur[a][2] < SlockMax

\* Where an actor can own the bucket, and where it must.
OwnerAt ==
  \A a \in Actors :
    /\ pc[a] \in {"hold", "dispose"} => held[a] # "none"
    /\ held[a] # "none" =>
         \/ pc[a] \in {"hold", "dispose", "wait", "trywait"}
         \/ pc[a] \in {"swap", "wake"} /\ cont[a] \in {"wait", "trywait"}

\* The inductive invariant behind TypeOK and LockWordExact.
LockInv == TypeOK /\ CurWellFormed /\ OwnerAt /\ LockWordExact

\* The actor is inside wait_sync or between push_async_entry and the end of
\* the AsyncWait: its entry is in memory that other actors may touch.
Pending(a) ==
  \/ pc[a] \in {"mark", "load2", "cas2", "wait", "trywait", "dispose",
                "await", "drop", "spin"}
  \/ pc[a] \in {"swap", "wake"} /\ cont[a] # "idle"

\* The entry is reachable from the wait queue or from a signaler's list.
Linked(a) ==
  \/ a \in Entries(queue)
  \/ \E b \in Actors : a \in Entries(batch[b])

\* An entry that WaitQueue::signal can still reach is alive (its owner has
\* neither returned from wait_sync nor finished dropping its AsyncWait), it
\* has not been signaled before, and it is reached only once.
NoDanglingEntry ==
  /\ \A a \in Actors : Linked(a) => Pending(a) /\ a \notin signaled
  /\ IsInjective(queue)
  /\ \A b \in Actors : IsInjective(batch[b])
  /\ \A b \in Actors : Entries(batch[b]) \cap Entries(queue) = {}
  /\ \A b, c \in Actors :
       b # c => Entries(batch[b]) \cap Entries(batch[c]) = {}

\* No wake-up is lost: whoever waits unsignaled is in the list of an actor
\* that is signaling, or in the queue while a signal is on its way, or in
\* the queue of a word that is owned and marked WAITING, so that the next
\* release signals.  The set of the last disjunct is the code between
\* Push and the moment the actor gives up.
NoLostWakeup ==
  \A a \in Actors :
    Pending(a) /\ a \notin signaled =>
      \/ \E b \in Actors : pc[b] = "wake" /\ a \in Entries(batch[b])
      \/ /\ a \in Entries(queue)
         /\ \/ \E b \in Actors : pc[b] = "swap"
            \/ waiting = 1 /\ lock > 0
            \/ pc[a] \in {"mark", "load2", "cas2"}

\* Only an actor inside WaitQueue::signal has a list of entries.
SignalersOnly == \A b \in Actors : batch[b] # <<>> => pc[b] = "wake"

\* A waiter that has not been signaled has not been forgotten either.
WaitersLinked ==
  \A a \in Actors : Pending(a) /\ a \notin signaled => Linked(a)

\* Why an entry in the queue will be taken out of it, step by step from its
\* Push: the closure sees the word after it has marked it, and if its
\* exchange fails somebody has locked the word in the meantime.
Covered(a) ==
  /\ pc[a] \in {"mark", "load2", "cas2", "swap", "wait", "await", "drop"}
  /\ \/ \E b \in Actors : pc[b] = "swap"
     \/ pc[a] = "mark"
     \/ waiting = 1 /\ pc[a] = "load2"
     \/ /\ waiting = 1 /\ pc[a] = "cas2"
        /\ cur[a][1] = 1 /\ lock >= cur[a][2]
        /\ killed = 1 => lock > 0
     \/ waiting = 1 /\ lock > 0 /\ pc[a] \in {"wait", "await", "drop"}

QueuedIsCovered == \A a \in Entries(queue) : Covered(a)

\* The inductive invariant behind NoDanglingEntry and NoLostWakeup; it needs
\* LockInv for who can kill or release the bucket.
WakeInv ==
  NoDanglingEntry /\ SignalersOnly /\ WaitersLinked /\ QueuedIsCovered

\* The lock refines the reader-writer lock of RwLock.
Abstract == INSTANCE RwLock WITH
  MaxReaders <- SlockMax, writers <- Writers, readers <- Readers,
  dead <- killed = 1

\* Every Locker and Reader obtained through the state word and the wait
\* queue is one that the abstract reader-writer lock allows: exclusive or
\* shared, below the limit, and never on a killed bucket.
RefinesRwLock == Abstract!Spec

\* Whoever blocks on the wait queue is signaled; with the condition variable
\* nobody else would wake it up.
WaiterIsSignaled == \A a \in SyncActors : pc[a] = "wait" ~> pc[a] # "wait"

\* Dropping an AsyncWait ends: the spin loop of AsyncWait::pull is always
\* released by the actor that took the entry out of the queue.
DropTerminates == \A a \in AsyncActors : pc[a] = "drop" ~> pc[a] = "idle"

=============================================================================
