------------------------------ MODULE MCBucket -------------------------------
EXTENDS Bucket

MCKeysOf == [t \in Types |-> CASE t = "SEQUENTIAL" -> 1 .. 5
                               [] t = "OPTIMISTIC" -> 1 .. 2
                               [] t = "CACHE" -> 1 .. 4]
=============================================================================
