------------------------------ MODULE MCGrpcLoad -------------------------------
(* GrpcLoad with two goroutines, two error texts and two calls for each. *)
EXTENDS GrpcLoad

CONSTANTS w1, w2, deadlineExceeded, unexpectedResponse

MCWorkers == {w1, w2}
MCErrors == {deadlineExceeded, unexpectedResponse}
MCMaxAttempts == 2

===============================================================================
