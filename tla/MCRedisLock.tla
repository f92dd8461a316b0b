------------------------------ MODULE MCRedisLock ------------------------------
(* A small instance of RedisLock for TLC.                                  *)
EXTENDS RedisLock

CONSTANTS s1, s2, s3
==============================================================================
