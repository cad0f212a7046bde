------------------------------ MODULE MCQueue --------------------------------
EXTENDS Queue, TLC

CONSTANTS t1, t2

MCOps ==
  (t1 :> {"push", "pop_if", "iter"}) @@ (t2 :> {"push_if", "pop", "peek"})
=============================================================================
