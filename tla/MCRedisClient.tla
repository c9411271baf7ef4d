--------------------------- MODULE MCRedisClient ---------------------------
(* Small instances of RedisClient: values with a NUL byte inside and       *)
(* values longer than the caller's buffer.                                 *)
EXTENDS RedisClient

SmallValues == {<<1>>, <<2, 0>>}
=============================================================================
