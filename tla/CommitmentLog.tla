---------------------------- MODULE CommitmentLog ----------------------------
(***************************************************************************)
(* What the integrity ledger promises: an append-only log of commitments   *)
(* in which an id occurs at most once, with the hash it was first given.   *)
(***************************************************************************)
EXTENDS Naturals, Sequences

CONSTANTS Ids, Hashes

VARIABLE log

Entry == [id: Ids, hash: Hashes]

LogTypeOK == log \in Seq(Entry)

LogInit == log = <<>>

Logged(id) == \E i \in 1..Len(log) : log[i].id = id

AppendEntry(e) ==
    /\ ~Logged(e.id)
    /\ log' = Append(log, e)

LogNext == \E e \in Entry : AppendEntry(e)

LogSpec == LogInit /\ [][LogNext]_log
=============================================================================
