----------------------------- MODULE MCRedisStore -----------------------------
(***************************************************************************)
(* Replicas that share one Redis.                                          *)
(***************************************************************************)
EXTENDS RedisStore
=============================================================================
