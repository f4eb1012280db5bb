------------------------------ MODULE MCComparison ------------------------------
(* Requests that bring out the cases: two groups of one benchmark and two
   benchmarks with repeats on the host, the platforms that exist in Docker only,
   filters, settings of the environment, and definitions that raise. *)
EXTENDS Comparison

Main == <<"dotnet", "java", "go">>
Web == [id |-> "http.plaintext", kind |-> "web", profile |-> "web-api", category |-> "web",
        commands |-> Main, cells |-> <<1>>]
Micro == [id |-> "cpu.nbody", kind |-> "micro", profile |-> "micro", category |-> "cpu",
          commands |-> Main, cells |-> <<1000>>]
Grpc == [id |-> "grpc.quote", kind |-> "grpc", profile |-> "grpc-api", category |-> "rpc",
         commands |-> <<"dotnet", "java">>, cells |-> <<1>>]

Host == [spec |-> <<Web>>, benchmark |-> NotGiven, profile |-> NotGiven, platform |-> NotGiven,
         runner |-> "host", repeat |-> 1, concurrency |-> <<>>]
Docker == [Host EXCEPT !.runner = "docker"]

MCRequests ==
  { [Host EXCEPT !.concurrency = <<1, 16>>],
    [Host EXCEPT !.spec = <<Micro, Web>>, !.repeat = 2, !.profile = "web-api"],
    [Host EXCEPT !.spec = <<Micro, Web>>],
    [Host EXCEPT !.concurrency = <<16, 16>>, !.platform = "go"],
    [Host EXCEPT !.platform = "java-spring"],
    [Host EXCEPT !.benchmark = "http.json"],
    [Host EXCEPT !.concurrency = <<0>>],
    [Docker EXCEPT !.spec = <<[Web EXCEPT !.commands = <<"dotnet", "dotnet-pgo", "java", "go">>]>>],
    [Docker EXCEPT !.spec = <<[Web EXCEPT !.commands = <<"dotnet", "dotnet-tuned", "go">>]>>],
    [Docker EXCEPT !.spec = <<[Grpc EXCEPT !.commands = Main]>>],
    [Docker EXCEPT !.spec = <<[Grpc EXCEPT !.commands = <<"dotnet", "java", "java-virtual", "go">>]>>],
    [Host EXCEPT !.spec = <<[Micro EXCEPT !.commands = <<"dotnet", "go">>]>>] }

MCApiMeans == {1, 2}
MCMicroMeans == {0, 1, 2}
MCMaxCount == 2

===============================================================================
