---------------------------- MODULE MCBucketLock ----------------------------
(* TLC instances of BucketLock.                                             *)
EXTENDS BucketLock, TLC

Symmetry == Permutations(SyncActors)

=============================================================================
