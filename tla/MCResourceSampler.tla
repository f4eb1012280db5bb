---------------------------- MODULE MCResourceSampler ---------------------------
(* Two cells, so that a sampler can outlive its cell, and two samples of each:
   before and after the runner stops the sampler, or while it summarizes them. *)
EXTENDS ResourceSampler

MCCells == 2
MCMaxSamples == 2

\* Both metrics, and the memory alone (a CPU share that is not a finite number).
MCShapes == {{"cpu", "memory"}, {"memory"}}

===============================================================================
