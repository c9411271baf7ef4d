--------------------------- MODULE MCRedisNOBlock ---------------------------
(* Small instances of RedisNOBlock, as it stands.                          *)
EXTENDS RedisNOBlock
=============================================================================
