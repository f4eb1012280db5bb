------------------------------- MODULE MCPipeline -------------------------------
(* Two seconds, so that a recipe can straddle a tick, with a name beside them;
   two runs, under the same id or not, and one gist. *)
EXTENDS Pipeline

MCMaxClock == 2
MCMaxRuns == 2
MCMaxPublish == 1

===============================================================================
