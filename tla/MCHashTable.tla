----------------------------- MODULE MCHashTable -----------------------------
(* TLC instances of HashTable: every key has the hash it is, and the        *)
(* operations are distributed over a thread and a task.                     *)
EXTENDS HashScan, TLC

CONSTANTS t1, t2

MCHash == [k \in Keys |-> k - 1]

MCOps ==
  [type_ \in Types |->
     IF type_ = "OPTIMISTIC"
     THEN (t1 :> {"insert", "iter", "resize"}) @@
          (t2 :> {"entry", "remove", "read", "retain"})
     ELSE (t1 :> {"insert", "any", "walk", "resize"}) @@
          (t2 :> {"entry", "remove", "get", "read", "prune"})]

\* Both insert and look up while an array of two ranges is rehashed.
MCLimit == [type_ \in Types |-> (t1 :> {"insert", "resize"}) @@ (t2 :> {"insert", "read"})]

==============================================================================
