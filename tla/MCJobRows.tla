----------------------------- MODULE MCJobRows -----------------------------
(* Constants of the JobRows runs.                                          *)
EXTENDS JobRows, TLC

CONSTANTS j1, j2, s1, tA, tB, r1, r2, none

\* Job ids, texts and request slots are interchangeable.
Symmetry ==
  Permutations({j1, j2}) \cup Permutations({tA, tB}) \cup Permutations({r1, r2})
=============================================================================
