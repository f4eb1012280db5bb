------------------------------- MODULE MCLoadGen -------------------------------
(* LoadGen with two goroutines per run and two requests for each of them. *)
EXTENDS LoadGen

CONSTANTS w1, w2

MCWorkers == {w1, w2}
MCMaxAttempts == 2

===============================================================================
