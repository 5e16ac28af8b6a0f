------------------------ MODULE ProctoringSessionMC ------------------------
(* TLC instance of ProctoringSession.                                      *)
EXTENDS ProctoringSession, TLC

\* Sockets, messages and bulk writes are interchangeable.
Interchangeable == Permutations(Sockets) \cup Permutations(Events) \cup Permutations(Flushes)
=============================================================================
