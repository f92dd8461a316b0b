---------------------------- MODULE MCMemoryQueue ----------------------------
(* A small instance of MemoryQueue for TLC.                                *)
EXTENDS MemoryQueue

CONSTANTS t1, t2, t3, t4, a, b

(* t1 and t3 share an id, t4 has the empty one; t2 outranks the others.    *)
Ids == t1 :> a @@ t2 :> b @@ t3 :> a @@ t4 :> NoId
Priorities == t1 :> 0 @@ t2 :> 5 @@ t3 :> 0 @@ t4 :> 0
Retries == t1 :> 2 @@ t2 :> 2 @@ t3 :> 1 @@ t4 :> 0
==============================================================================
