------------------------------- MODULE RwLock -------------------------------
(***************************************************************************)
(* What the lock of a bucket promises: at any time either one writer or    *)
(* any number of readers up to MaxReaders own the bucket, and once an      *)
(* owner has killed the bucket nobody acquires it again.                   *)
(*                                                                         *)
(* The state word, the wait queue and the wake-up protocol of              *)
(* src/hash_table/bucket.rs and src/wait_queue.rs do not appear here:      *)
(* module BucketLock implements this specification with them.              *)
(***************************************************************************)
EXTENDS Naturals, FiniteSets

CONSTANTS
  Actors,      \* threads and asynchronous tasks that use the bucket
  MaxReaders   \* the largest number of simultaneous readers

VARIABLES
  writers,     \* the actors that own the bucket exclusively
  readers,     \* the actors that share the bucket
  dead         \* whether the bucket has been killed

vars == <<writers, readers, dead>>

Init ==
  /\ writers = {}
  /\ readers = {}
  /\ dead = FALSE

AcquireWrite(a) ==
  /\ ~dead
  /\ writers = {} /\ readers = {}
  /\ writers' = {a}
  /\ UNCHANGED <<readers, dead>>

AcquireRead(a) ==
  /\ ~dead
  /\ writers = {}
  /\ a \notin readers
  /\ Cardinality(readers) < MaxReaders
  /\ readers' = readers \cup {a}
  /\ UNCHANGED <<writers, dead>>

Release(a) ==
  /\ a \in writers \cup readers
  /\ writers' = writers \ {a}
  /\ readers' = readers \ {a}
  /\ UNCHANGED dead

Kill(a) ==
  /\ a \in writers \cup readers
  /\ dead' = TRUE
  /\ UNCHANGED <<writers, readers>>

Next ==
  \E a \in Actors :
    AcquireWrite(a) \/ AcquireRead(a) \/ Release(a) \/ Kill(a)

Spec == Init /\ [][Next]_vars

=============================================================================
