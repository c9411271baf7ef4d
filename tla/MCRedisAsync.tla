---------------------------- MODULE MCRedisAsync ----------------------------
(* A small instance of RedisAsync, as it stands: a few connects, each with *)
(* the three results of redisAsyncConnect and both ends of its loop.       *)
EXTENDS RedisAsync
=============================================================================
