------------------------- MODULE AccountSessionMC -------------------------
(* TLC instance of AccountSession.                                         *)
EXTENDS AccountSession, TLC

CONSTANTS r1, r2, r3

\* Requests are interchangeable.
Interchangeable == Permutations(Requests)
=============================================================================
