---------------------------- MODULE MCRedisClient ----------------------------
(* Three commands against a server that asks for AUTH and SELECT.            *)
EXTENDS RedisClient

AuthAndSelect == <<"AUTH", "SELECT">>
==============================================================================
