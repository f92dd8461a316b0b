----------------------------- MODULE MCRedisQueue -----------------------------
(* Small instances of RedisQueue for TLC.                                  *)
EXTENDS RedisQueue

CONSTANTS w1, w2, w3, x, y

(* x is retried, y is buried on its first failure.                         *)
Retries == x :> 2 @@ y :> 1

(* A single task that is retried.                                          *)
Retried == x :> 2
==============================================================================
