---------------------------- MODULE BatchReviewMC ----------------------------
(* TLC instance of BatchReview.                                            *)
EXTENDS BatchReview, TLC

CONSTANTS r1, r2, q1, q2

\* Requests and questions are interchangeable.
Interchangeable == Permutations(Requests) \cup Permutations(Questions)
=============================================================================
