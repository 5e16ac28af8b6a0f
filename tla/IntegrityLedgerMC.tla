-------------------------- MODULE IntegrityLedgerMC --------------------------
(* Small instances of IntegrityLedger for TLC.                             *)
EXTENDS IntegrityLedger, TLC

\* Ids, hashes and clients are interchangeable.
Interchangeable == Permutations(Ids) \cup Permutations(Hashes) \cup Permutations(Clients)
=============================================================================
