------------------------------- MODULE MCBag ---------------------------------
EXTENDS Bag, TLC

CONSTANTS t1, t2, t3

MCOps == (t1 :> {"push"}) @@ (t2 :> {"push", "pop"}) @@ (t3 :> {"pop_all"})

\* Two threads that pop, one of which pushes before.
MCPops == (t1 :> {"push", "pop"}) @@ (t2 :> {"pop"})
=============================================================================
