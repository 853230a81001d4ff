------------------------ MODULE MCInterviewSession ------------------------
(* Constants of the InterviewSession runs.                                *)
EXTENDS InterviewSession, TLC

CONSTANTS r1, r2

\* Request slots are interchangeable: used by the run of safety properties.
Symmetry == Permutations({r1, r2})
===========================================================================
