--------------------------- MODULE ExamVersionsMC ---------------------------
(* Small instances of ExamVersions for TLC.                                *)
EXTENDS ExamVersions, TLC

CONSTANTS a1, a2, w1, j1, j2, k1

\* Requests, and jobs, are interchangeable.
Interchangeable == Permutations(Admins) \cup Permutations(Jobs)
=============================================================================
