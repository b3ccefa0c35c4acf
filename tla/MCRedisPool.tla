----------------------------- MODULE MCRedisPool -----------------------------
(* Small instances of RedisPool and BotState for TLC.                       *)
EXTENDS BotState, TLC
=============================================================================
