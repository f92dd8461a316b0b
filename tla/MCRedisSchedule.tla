---------------------------- MODULE MCRedisSchedule ----------------------------
(* Small instances of RedisSchedule for TLC.                               *)
EXTENDS RedisSchedule, TLC

CONSTANTS w1, w2, x, y, z

(* x waits its turn, y overtakes and is retried at once, z comes late.     *)
Delays == x :> None @@ y :> 0 @@ z :> 2
Priorities == x :> 0 @@ y :> 1 @@ z :> 1
Retries == x :> 2 @@ y :> 2 @@ z :> 1
==============================================================================
