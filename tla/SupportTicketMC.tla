--------------------------- MODULE SupportTicketMC ---------------------------
(* A small instance of SupportTicket for TLC.                              *)
EXTENDS SupportTicket, TLC

CONSTANTS r1, r2, k1

Symmetry == Permutations({r1, r2})
=============================================================================
