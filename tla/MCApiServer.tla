------------------------------ MODULE MCApiServer ------------------------------
(* ApiServer with three requests, of which up to three are handled at a time: one
   that was given up, one whose answer is out, and the next.  There is one thread
   more than fanouts that can wait, and one connection in each pool. *)
EXTENDS ApiServer

CONSTANT c1

MCClients == {c1}
MCMaxRequests == 3
MCMaxGiveUps == 1
MCThreads == 3
MCCalls == 2
MCDbSize == 1
MCRedisSize == 1

===============================================================================
