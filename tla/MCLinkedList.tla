---------------------------- MODULE MCLinkedList -----------------------------
EXTENDS LinkedList, TLC

CONSTANTS t1, t2

MCUses == (t1 :> {"delete", "push"}) @@ (t2 :> {"mark"})
=============================================================================
