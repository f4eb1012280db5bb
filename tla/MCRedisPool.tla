------------------------------ MODULE MCRedisPool ------------------------------
(* RedisPool with two clients on one connection: every borrow waits for the
   other client to put the connection back. *)
EXTENDS RedisPool

CONSTANTS c1, c2, k1

MCClients == {c1, c2}
MCConnections == {k1}
MCMaxCommands == 2

===============================================================================
