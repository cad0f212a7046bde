------------------------------- MODULE LeafSet -------------------------------
(***************************************************************************)
(* What a Leaf of a TreeIndex promises: a set of keys that changes one key *)
(* at a time, not at all while it is frozen for a split, and never again   *)
(* once the removal of its last key has retired it.                        *)
(*                                                                         *)
(* The metadata word and the slots of src/tree_index/leaf.rs do not appear *)
(* here: module Leaf implements this specification with them.              *)
(***************************************************************************)
CONSTANT Keys

VARIABLES
  contents,   \* the keys in the leaf
  closed,     \* 1 while the leaf is frozen
  done        \* 1 once the leaf is retired

vars == <<contents, closed, done>>

Init == contents \in SUBSET Keys /\ closed = 0 /\ done = 0

Add(k) ==
  /\ closed = 0 /\ done = 0
  /\ k \notin contents
  /\ contents' = contents \cup {k}
  /\ UNCHANGED <<closed, done>>

Delete(k) ==
  /\ closed = 0 /\ done = 0
  /\ k \in contents
  /\ contents' = contents \ {k}
  /\ done' = IF contents' = {} THEN 1 ELSE 0
  /\ UNCHANGED closed

Freeze == closed = 0 /\ closed' = 1 /\ UNCHANGED <<contents, done>>

Thaw == closed = 1 /\ closed' = 0 /\ UNCHANGED <<contents, done>>

Next ==
  \/ \E k \in Keys : Add(k) \/ Delete(k)
  \/ Freeze
  \/ Thaw

Spec == Init /\ [][Next]_vars

==============================================================================
