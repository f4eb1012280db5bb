-------------------------------- MODULE Filtering -------------------------------
(***************************************************************************)
(* Selecting from a list, which benchctl does everywhere: the benchmarks   *)
(* that the filters of a run leave, the commands that failed, the rows of  *)
(* a group.  It is what SelectSeq does, as a recursive function, which the *)
(* provers can expand.                                                     *)
(***************************************************************************)
EXTENDS Naturals, Sequences

\* The elements of the sequence s that are in S, in their order.
Filter(s, S) ==
  LET F[n \in 0 .. Len(s)] ==
        IF n = 0 THEN <<>>
        ELSE IF s[n] \in S THEN Append(F[n - 1], s[n]) ELSE F[n - 1]
  IN F[Len(s)]

================================================================================
