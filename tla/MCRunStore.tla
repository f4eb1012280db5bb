------------------------------- MODULE MCRunStore ------------------------------
(* RunStore with two lanes of every kind each and two invocations,
   under the same run id or under two. *)
EXTENDS RunStore

CONSTANTS r1, r2

\* Run ids are interchangeable: nothing compares them but for equality.
Symmetry == Permutations({r1, r2})

MCRunIds == {r1, r2}
MCLanes == <<"laneA", "laneB">>
MCMaxInvocations == 2

===============================================================================
