-------------------------- MODULE IntegrityOutboxMC --------------------------
(* A small instance of IntegrityOutbox for TLC.                            *)
EXTENDS IntegrityOutbox, TLC

CONSTANTS exam, p1, p2, w1, w2

\* A poll in each of two processes.
OneEach == [w \in Invocations |-> IF w = w1 THEN p1 ELSE p2]
=============================================================================
