------------------------ MODULE IntegrityOutboxProofs ------------------------
(***************************************************************************)
(* Theorems of IntegrityOutbox, for any number of commitments, processes   *)
(* and polls, any maxAttempts and BATCH_SIZE, and any number of faults and *)
(* crashes: what CONFIRMED is worth (IInv), and that a lease is a lock on  *)
(* every record but those under which it ran out or that a sweep wrote     *)
(* late (LockInv).                                                         *)
(***************************************************************************)
EXTENDS IntegrityOutbox, FiniteSetTheorems, TLAPS

\* How many of the commitments satisfy a condition is a natural number.
LEMMA CountIsNat ==
    ASSUME NEW S, S \subseteq Commitments
    PROVE  Cardinality(S) \in Nat
  BY CommitmentsAssumption, FS_Subset, FS_CardinalityType

\* What is left of a poll's claims after its first record is done with.
LEMMA TailOfClaims ==
    ASSUME NEW s \in Seq(Commitments), s # <<>>
    PROVE  /\ Tail(s) \in Seq(Commitments)
           /\ Head(s) \in Commitments
  OBVIOUS

\* The first of the claims, and what is left of them.
LEMMA HeadOfClaims ==
    ASSUME NEW s \in Seq(Commitments), s # <<>>
    PROVE  /\ Len(s) \in Nat /\ 1 \in 1 .. Len(s) /\ Head(s) = s[1]
           /\ Len(Tail(s)) = Len(s) - 1
           /\ \A i \in 1 .. Len(s) - 1 : Tail(s)[i] = s[i + 1]
  OBVIOUS

\* Claiming a record adds it at the end and leaves the first claim where it was.
LEMMA AppendToClaims ==
    ASSUME NEW s \in Seq(Commitments), NEW c \in Commitments
    PROVE  Append(s, c) \in Seq(Commitments)
  OBVIOUS

\* Writing a status and clearing the lease keeps a record a record.
LEMMA SetStatusTyped ==
    ASSUME outbox \in [Commitments -> Record], NEW c \in Commitments,
           NEW s \in Statuses, SetStatus(c, s)
    PROVE  outbox' \in [Commitments -> Record]
  BY DEF SetStatus, Record, Leases

LEMMA SetRetryTyped ==
    ASSUME outbox \in [Commitments -> Record], NEW c \in Commitments, SetRetry(c)
    PROVE  outbox' \in [Commitments -> Record]
  BY BoundAssumption DEF SetRetry, Pending, Record, Statuses, Leases

\* The collection starts empty and nothing is about to be confirmed.
LEMMA InitIInv == Init => IInv
  <1> SUFFICES ASSUME Init PROVE IInv
    OBVIOUS
  <1>1. NoRecord \in Record
    BY BoundAssumption DEF NoRecord, Record, Statuses, Leases
  <1>2. TypeOK
    BY <1>1, BoundAssumption, CommitmentsAssumption
       DEF Init, TypeOK, Locations
  <1>3. AboutToConfirm
    BY DEF Init, AboutToConfirm, Processing
  <1>4. ConfirmedOnLedger
    BY DEF Init, ConfirmedOnLedger, NoRecord
  <1> QED
    BY <1>2, <1>3, <1>4 DEF IInv

LEMMA SaveStep ==
    ASSUME IInv, NEW c \in Commitments, Save(c)
    PROVE  IInv'
  <1>1. TypeOK'
    BY DEF IInv, TypeOK, Save, fabricVars, workerVars, sweepVars, boundVars
  <1>2. AboutToConfirm'
    BY DEF IInv, TypeOK, AboutToConfirm, Processing, Save, fabricVars, workerVars,
           sweepVars, boundVars
  <1>3. ConfirmedOnLedger'
    BY DEF IInv, TypeOK, AboutToConfirm, ConfirmedOnLedger, Save, fabricVars,
           workerVars, sweepVars, boundVars
  <1> QED
    BY <1>1, <1>2, <1>3 DEF IInv

\* A new record is PENDING; an existing one is left alone.
LEMMA EnqueueStep ==
    ASSUME IInv, NEW c \in Commitments, Enqueue(c)
    PROVE  IInv'
  <1>1. TypeOK'
    BY CountIsNat, BoundAssumption
       DEF IInv, TypeOK, Record, Statuses, Leases, Recorded, Enqueue, CreateRecord,
           fabricVars, workerVars, sweepVars, boundVars
  <1>2. AboutToConfirm'
    BY DEF IInv, TypeOK, AboutToConfirm, Processing, Enqueue, CreateRecord,
           fabricVars, workerVars, sweepVars, boundVars
  <1>3. ConfirmedOnLedger'
    BY DEF IInv, TypeOK, AboutToConfirm, ConfirmedOnLedger, Record, Enqueue,
           CreateRecord, fabricVars, workerVars, sweepVars, boundVars
  <1> QED
    BY <1>1, <1>2, <1>3 DEF IInv

LEMMA EnqueueLostStep ==
    ASSUME IInv, NEW c \in Commitments, EnqueueLost(c)
    PROVE  IInv'
  <1>1. TypeOK'
    BY BoundAssumption
       DEF IInv, TypeOK, EnqueueLost, Fault, fabricVars, workerVars, sweepVars
  <1>2. AboutToConfirm'
    BY DEF IInv, TypeOK, AboutToConfirm, Processing, EnqueueLost, Fault, fabricVars,
           workerVars, sweepVars
  <1>3. ConfirmedOnLedger'
    BY DEF IInv, TypeOK, AboutToConfirm, ConfirmedOnLedger, EnqueueLost, Fault,
           fabricVars, workerVars, sweepVars
  <1> QED
    BY <1>1, <1>2, <1>3 DEF IInv

\* A claim spends one attempt and leaves the first claim of the poll in place.
LEMMA ClaimStep ==
    ASSUME IInv, NEW w \in Invocations, Claim(w)
    PROVE  IInv'
  <1>1. TypeOK'
    <2>1. PICK c \in NextToClaim(w) :
             /\ outbox' = [outbox EXCEPT ![c] = Leased(c)]
             /\ claims' = [claims EXCEPT ![w] = Append(@, c)]
      BY DEF Claim
    <2>2. c \in Commitments /\ outbox[c].attempts < MaxAttempts
      BY DEF NextToClaim, Oldest, Newest, Claimable
    <2>3. outbox[c].attempts + 1 \in 0..MaxAttempts
      BY <2>2, BoundAssumption DEF IInv, TypeOK, Record
    <2>4. outbox' \in [Commitments -> Record]
      <3>1. Leased(c) \in Record
        BY <2>2, <2>3 DEF IInv, TypeOK, Leased, Record, Statuses, Leases
      <3> QED
        BY <2>1, <3>1 DEF IInv, TypeOK
    <2>5. claims' \in [Invocations -> Seq(Commitments)]
      BY <2>1, <2>2, AppendToClaims DEF IInv, TypeOK
    <2> QED
      BY <2>4, <2>5 DEF IInv, TypeOK, Claim, appVars, fabricVars, sweepVars, boundVars
  <1>2. AboutToConfirm'
    BY AppendToClaims
       DEF IInv, TypeOK, AboutToConfirm, Processing, Locations, Claim, appVars,
           fabricVars, sweepVars, boundVars
  <1>3. ConfirmedOnLedger'
    BY DEF IInv, TypeOK, AboutToConfirm, ConfirmedOnLedger, Record, Leased, Claim, appVars,
           fabricVars, sweepVars, boundVars
  <1> QED
    BY <1>1, <1>2, <1>3 DEF IInv

\* Processing begins only with something to process.
LEMMA EndClaimsStep ==
    ASSUME IInv, NEW w \in Invocations, EndClaims(w)
    PROVE  IInv'
  <1>1. TypeOK'
    BY DEF IInv, TypeOK, Locations, EndClaims, appVars, fabricVars, sweepVars,
           boundVars
  <1>2. AboutToConfirm'
    BY DEF IInv, TypeOK, AboutToConfirm, Processing, Locations, EndClaims, appVars,
           fabricVars, sweepVars, boundVars
  <1>3. ConfirmedOnLedger'
    BY DEF IInv, TypeOK, AboutToConfirm, ConfirmedOnLedger, EndClaims, appVars,
           fabricVars, sweepVars, boundVars
  <1> QED
    BY <1>1, <1>2, <1>3 DEF IInv

LEMMA EndorseStep ==
    ASSUME IInv, NEW w \in Invocations, Endorse(w)
    PROVE  IInv'
  <1>1. TypeOK'
    BY DEF IInv, TypeOK, Locations, Endorse, appVars, fabricVars, sweepVars, boundVars
  <1>2. AboutToConfirm'
    BY DEF IInv, TypeOK, AboutToConfirm, Processing, Locations, Endorse, appVars,
           fabricVars, sweepVars, boundVars
  <1>3. ConfirmedOnLedger'
    BY DEF IInv, TypeOK, AboutToConfirm, ConfirmedOnLedger, Endorse, appVars,
           fabricVars, sweepVars, boundVars
  <1> QED
    BY <1>1, <1>2, <1>3 DEF IInv

LEMMA EndorseFailsStep ==
    ASSUME IInv, NEW w \in Invocations, EndorseFails(w)
    PROVE  IInv'
  <1>1. TypeOK'
    BY BoundAssumption
       DEF IInv, TypeOK, Locations, EndorseFails, Fault, appVars, fabricVars,
           sweepVars
  <1>2. AboutToConfirm'
    BY DEF IInv, TypeOK, AboutToConfirm, Processing, Locations, EndorseFails, Fault,
           appVars, fabricVars, sweepVars
  <1>3. ConfirmedOnLedger'
    BY DEF IInv, TypeOK, AboutToConfirm, ConfirmedOnLedger, EndorseFails, Fault,
           appVars, fabricVars, sweepVars
  <1> QED
    BY <1>1, <1>2, <1>3 DEF IInv

LEMMA NotConnectedStep ==
    ASSUME IInv, NEW w \in Invocations, NotConnected(w)
    PROVE  IInv'
  <1>1. TypeOK'
    BY BoundAssumption
       DEF IInv, TypeOK, Locations, NotConnected, Fault, appVars, fabricVars,
           sweepVars
  <1>2. AboutToConfirm'
    BY DEF IInv, TypeOK, AboutToConfirm, Processing, Locations, NotConnected, Fault,
           appVars, fabricVars, sweepVars
  <1>3. ConfirmedOnLedger'
    BY DEF IInv, TypeOK, AboutToConfirm, ConfirmedOnLedger, NotConnected, Fault,
           appVars, fabricVars, sweepVars
  <1> QED
    BY <1>1, <1>2, <1>3 DEF IInv

\* The commit status is awaited only for a claimed record;
\* its commitment is now on the ledger.
LEMMA CommittedStep ==
    ASSUME IInv, NEW w \in Invocations, Committed(w)
    PROVE  IInv'
  <1>1. TypeOK'
    <2>1. Head(claims[w]) \in Commitments
      BY TailOfClaims DEF IInv, TypeOK, AboutToConfirm, Processing, Locations, Committed
    <2>2. /\ ledger' \in [Commitments -> {"absent", "same", "other"}]
          /\ height' \in Nat
      BY <2>1 DEF IInv, TypeOK, Committed, WriteLedger
    <2> QED
      BY <2>2 DEF IInv, TypeOK, Locations, Committed, EndCommit,
                  appVars, sweepVars, boundVars
  <1>2. AboutToConfirm'
    BY TailOfClaims
       DEF IInv, TypeOK, AboutToConfirm, Processing, Locations, Committed, Valid,
           WriteLedger, EndCommit, appVars, sweepVars, boundVars
  <1>3. ConfirmedOnLedger'
    BY DEF IInv, TypeOK, AboutToConfirm, ConfirmedOnLedger, Committed, Valid,
           WriteLedger, EndCommit, appVars, sweepVars, boundVars
  <1> QED
    BY <1>1, <1>2, <1>3 DEF IInv

LEMMA InvalidatedStep ==
    ASSUME IInv, NEW w \in Invocations, Invalidated(w)
    PROVE  IInv'
  <1>1. TypeOK'
    BY DEF IInv, TypeOK, Locations, Invalidated, EndCommit, appVars, fabricVars,
           sweepVars, boundVars
  <1>2. AboutToConfirm'
    BY DEF IInv, TypeOK, AboutToConfirm, Processing, Locations, Invalidated,
           EndCommit, appVars, fabricVars, sweepVars, boundVars
  <1>3. ConfirmedOnLedger'
    BY DEF IInv, TypeOK, AboutToConfirm, ConfirmedOnLedger, Invalidated, EndCommit,
           appVars, fabricVars, sweepVars, boundVars
  <1> QED
    BY <1>1, <1>2, <1>3 DEF IInv

LEMMA CommitTimeoutStep ==
    ASSUME IInv, NEW w \in Invocations, CommitTimeout(w)
    PROVE  IInv'
  <1>1. TypeOK'
    <2>1. Head(claims[w]) \in Commitments
      BY TailOfClaims DEF IInv, TypeOK, AboutToConfirm, Processing, Locations,
                          CommitTimeout
    <2>2. limbo' \subseteq Tx
      BY <2>1 DEF IInv, TypeOK, CommitTimeout, Orphan, Tx
    <2>3. faults' \in 0..MaxFaults
      BY BoundAssumption DEF IInv, TypeOK, CommitTimeout, Fault
    <2> QED
      BY <2>2, <2>3 DEF IInv, TypeOK, Locations, CommitTimeout, EndCommit,
                        appVars, sweepVars
  <1>2. AboutToConfirm'
    BY DEF IInv, TypeOK, AboutToConfirm, Processing, Locations, CommitTimeout,
           EndCommit, Orphan, Fault, Tx, appVars, sweepVars
  <1>3. ConfirmedOnLedger'
    BY DEF IInv, TypeOK, AboutToConfirm, ConfirmedOnLedger, CommitTimeout, EndCommit,
           Orphan, Fault, Tx, appVars, sweepVars
  <1> QED
    BY <1>1, <1>2, <1>3 DEF IInv

\* The check confirms only what it finds on the ledger.
LEMMA CheckExistingStep ==
    ASSUME IInv, NEW w \in Invocations, CheckExisting(w)
    PROVE  IInv'
  <1>1. TypeOK'
    BY TailOfClaims
       DEF IInv, TypeOK, Locations, CheckExisting, appVars, fabricVars, sweepVars,
           boundVars
  <1>2. AboutToConfirm'
    BY TailOfClaims
       DEF IInv, TypeOK, AboutToConfirm, Processing, Locations, CheckExisting,
           appVars, fabricVars, sweepVars, boundVars
  <1>3. ConfirmedOnLedger'
    BY DEF IInv, TypeOK, AboutToConfirm, ConfirmedOnLedger, CheckExisting, appVars,
           fabricVars, sweepVars, boundVars
  <1> QED
    BY <1>1, <1>2, <1>3 DEF IInv

LEMMA CheckFailsStep ==
    ASSUME IInv, NEW w \in Invocations, CheckFails(w)
    PROVE  IInv'
  <1>1. TypeOK'
    BY BoundAssumption
       DEF IInv, TypeOK, Locations, CheckFails, Fault, appVars, fabricVars, sweepVars
  <1>2. AboutToConfirm'
    BY DEF IInv, TypeOK, AboutToConfirm, Processing, Locations, CheckFails, Fault,
           appVars, fabricVars, sweepVars
  <1>3. ConfirmedOnLedger'
    BY DEF IInv, TypeOK, AboutToConfirm, ConfirmedOnLedger, CheckFails, Fault,
           appVars, fabricVars, sweepVars
  <1> QED
    BY <1>1, <1>2, <1>3 DEF IInv

\* CONFIRMED is written for a commitment on the ledger.
LEMMA ConfirmStep ==
    ASSUME IInv, NEW w \in Invocations, Confirm(w)
    PROVE  IInv'
  <1>1. TypeOK'
    <2>1. Head(claims[w]) \in Commitments /\ Tail(claims[w]) \in Seq(Commitments)
      BY TailOfClaims DEF IInv, TypeOK, AboutToConfirm, Processing, Locations, Confirm
    <2>2. outbox' \in [Commitments -> Record]
      BY <2>1, SetStatusTyped DEF IInv, TypeOK, Statuses, Confirm
    <2>3. claims' \in [Invocations -> Seq(Commitments)]
      BY <2>1 DEF IInv, TypeOK, Confirm, NextRecord
    <2>4. pc' \in [Invocations -> Locations]
      BY DEF IInv, TypeOK, Locations, Confirm, NextRecord
    <2> QED
      BY <2>2, <2>3, <2>4
         DEF IInv, TypeOK, Confirm, appVars, fabricVars, sweepVars, boundVars
  <1>2. AboutToConfirm'
    BY TailOfClaims
       DEF IInv, TypeOK, AboutToConfirm, Processing, Locations, Confirm, SetStatus,
           NextRecord, appVars, fabricVars, sweepVars, boundVars
  <1>3. ConfirmedOnLedger'
    BY DEF IInv, TypeOK, AboutToConfirm, ConfirmedOnLedger, Record, Confirm,
           SetStatus, NextRecord, appVars, fabricVars, sweepVars, boundVars
  <1> QED
    BY <1>1, <1>2, <1>3 DEF IInv

LEMMA ConfirmLostStep ==
    ASSUME IInv, NEW w \in Invocations, ConfirmLost(w)
    PROVE  IInv'
  <1>1. TypeOK'
    BY BoundAssumption
       DEF IInv, TypeOK, Locations, ConfirmLost, Fault, appVars, fabricVars, sweepVars
  <1>2. AboutToConfirm'
    BY DEF IInv, TypeOK, AboutToConfirm, Processing, Locations, ConfirmLost, Fault,
           appVars, fabricVars, sweepVars
  <1>3. ConfirmedOnLedger'
    BY DEF IInv, TypeOK, AboutToConfirm, ConfirmedOnLedger, ConfirmLost, Fault,
           appVars, fabricVars, sweepVars
  <1> QED
    BY <1>1, <1>2, <1>3 DEF IInv

LEMMA ReadAttemptsStep ==
    ASSUME IInv, NEW w \in Invocations, ReadAttempts(w)
    PROVE  IInv'
  <1>1. TypeOK'
    BY BoundAssumption
       DEF IInv, TypeOK, Locations, ReadAttempts, appVars, fabricVars, sweepVars,
           boundVars
  <1>2. AboutToConfirm'
    BY DEF IInv, TypeOK, AboutToConfirm, Processing, Locations, ReadAttempts, appVars,
           fabricVars, sweepVars, boundVars
  <1>3. ConfirmedOnLedger'
    BY DEF IInv, TypeOK, AboutToConfirm, ConfirmedOnLedger, ReadAttempts, appVars,
           fabricVars, sweepVars, boundVars
  <1> QED
    BY <1>1, <1>2, <1>3 DEF IInv

\* A failure writes FAILED or PENDING.
LEMMA FailStep ==
    ASSUME IInv, NEW w \in Invocations, Fail(w)
    PROVE  IInv'
  <1>1. TypeOK'
    <2>1. Head(claims[w]) \in Commitments /\ Tail(claims[w]) \in Seq(Commitments)
      BY TailOfClaims DEF IInv, TypeOK, AboutToConfirm, Processing, Locations, Fail
    <2>2. outbox' \in [Commitments -> Record]
      BY <2>1, SetStatusTyped DEF IInv, TypeOK, Statuses, Fail
    <2>3. claims' \in [Invocations -> Seq(Commitments)]
      BY <2>1 DEF IInv, TypeOK, Fail, NextRecord
    <2>4. pc' \in [Invocations -> Locations]
      BY DEF IInv, TypeOK, Locations, Fail, NextRecord
    <2> QED
      BY <2>2, <2>3, <2>4
         DEF IInv, TypeOK, Fail, appVars, fabricVars, sweepVars, boundVars
  <1>2. AboutToConfirm'
    BY TailOfClaims
       DEF IInv, TypeOK, AboutToConfirm, Processing, Locations, Fail, SetStatus,
           NextRecord, appVars, fabricVars, sweepVars, boundVars
  <1>3. ConfirmedOnLedger'
    BY DEF IInv, TypeOK, AboutToConfirm, ConfirmedOnLedger, Record, Fail, SetStatus,
           NextRecord, appVars, fabricVars, sweepVars, boundVars
  <1> QED
    BY <1>1, <1>2, <1>3 DEF IInv

\* The reset touches neither CONFIRMED records nor the ledger.
LEMMA ResetExpiredStep ==
    ASSUME IInv, NEW p \in Processes, ResetExpired(p)
    PROVE  IInv'
  <1>1. TypeOK'
    <2>1. outbox' \in [Commitments -> Record]
      <3>1. ASSUME NEW c \in Commitments
            PROVE  Pending(c, outbox[c].attempts) \in Record
        BY DEF IInv, TypeOK, Record, Statuses, Leases, Pending
      <3> QED
        BY <3>1 DEF IInv, TypeOK, ResetExpired
    <2>2. rpc' \in [Processes -> {"idle", "scan", "audit", "found", "missing", "refill"}]
      BY DEF IInv, TypeOK, ResetExpired
    <2> QED
      BY <2>1, <2>2
         DEF IInv, TypeOK, ResetExpired, appVars, fabricVars, workerVars, boundVars
  <1>2. AboutToConfirm'
    BY DEF IInv, TypeOK, AboutToConfirm, Processing, Locations, ResetExpired, Pending,
           appVars, fabricVars, workerVars, boundVars
  <1>3. ConfirmedOnLedger'
    BY DEF IInv, TypeOK, AboutToConfirm, ConfirmedOnLedger, Record, ResetExpired,
           Pending, appVars, fabricVars, workerVars, boundVars
  <1> QED
    BY <1>1, <1>2, <1>3 DEF IInv

LEMMA ScanFailedStep ==
    ASSUME IInv, NEW p \in Processes, ScanFailed(p)
    PROVE  IInv'
  <1>1. TypeOK'
    BY DEF IInv, TypeOK, ScanFailed, Failed, NextAudit, appVars, fabricVars, workerVars,
           boundVars
  <1>2. AboutToConfirm'
    BY DEF IInv, TypeOK, AboutToConfirm, Processing, Locations, ScanFailed, NextAudit,
           appVars, fabricVars, workerVars, boundVars
  <1>3. ConfirmedOnLedger'
    BY DEF IInv, TypeOK, AboutToConfirm, ConfirmedOnLedger, ScanFailed, appVars,
           fabricVars, workerVars, boundVars
  <1> QED
    BY <1>1, <1>2, <1>3 DEF IInv

\* The sweep remembers a commitment as found only when it is on the ledger.
LEMMA AuditReadStep ==
    ASSUME IInv, NEW p \in Processes, AuditRead(p)
    PROVE  IInv'
  <1>1. TypeOK'
    <2>1. PICK c \in audit[p] :
             /\ audit' = [audit EXCEPT ![p] = @ \ {c}]
             /\ looking' = [looking EXCEPT ![p] = c]
             /\ \/ /\ rpc' = [rpc EXCEPT ![p] = IF ledger[c] = "absent" THEN "missing"
                                                                        ELSE "found"]
                   /\ UNCHANGED faults
                \/ Fault /\ rpc' = [rpc EXCEPT ![p] = "missing"]
      BY DEF AuditRead
    <2>2. c \in Commitments
      BY DEF IInv, TypeOK
    <2>3. rpc' \in [Processes -> {"idle", "scan", "audit", "found", "missing", "refill"}]
      BY <2>1 DEF IInv, TypeOK
    <2>4. faults' \in 0..MaxFaults
      BY <2>1, BoundAssumption DEF IInv, TypeOK, Fault
    <2>5. /\ audit' \in [Processes -> SUBSET Commitments]
          /\ looking' \in [Processes -> Commitments \cup {"nothing"}]
      BY <2>1, <2>2 DEF IInv, TypeOK
    <2> QED
      BY <2>3, <2>4, <2>5
         DEF IInv, TypeOK, AuditRead, appVars, fabricVars, workerVars
  <1>2. AboutToConfirm'
    BY DEF IInv, TypeOK, AboutToConfirm, Processing, Locations, AuditRead, Fault,
           appVars, fabricVars, workerVars
  <1>3. ConfirmedOnLedger'
    BY DEF IInv, TypeOK, AboutToConfirm, ConfirmedOnLedger, AuditRead, Fault, appVars,
           fabricVars, workerVars
  <1> QED
    BY <1>1, <1>2, <1>3 DEF IInv

\* The sweep confirms only what getCommitment returned.
LEMMA AuditWriteStep ==
    ASSUME IInv, NEW p \in Processes, AuditWrite(p)
    PROVE  IInv'
  <1>1. TypeOK'
    <2>1. looking[p] \in Commitments
      BY DEF IInv, AboutToConfirm, AuditWrite
    <2>2. outbox' \in [Commitments -> Record]
      BY <2>1, SetStatusTyped, SetRetryTyped DEF IInv, TypeOK, Statuses, AuditWrite
    <2>3. overrun' \subseteq Commitments
      BY <2>1 DEF IInv, TypeOK, AuditWrite
    <2> QED
      BY <2>2, <2>3 DEF IInv, TypeOK, AuditWrite, NextAudit, appVars, fabricVars,
                        workerVars, boundVars
  <1>2. AboutToConfirm'
    BY DEF IInv, TypeOK, AboutToConfirm, Processing, Locations, AuditWrite, NextAudit,
           SetStatus, SetRetry, Pending, appVars, fabricVars, workerVars, boundVars
  <1>3. ConfirmedOnLedger'
    <2>1. looking[p] \in Commitments
      BY DEF IInv, AboutToConfirm, AuditWrite
    <2>2. CASE rpc[p] = "found"
      BY <2>1, <2>2 DEF IInv, TypeOK, AboutToConfirm, ConfirmedOnLedger, AuditWrite,
                        SetStatus, fabricVars
    <2>3. CASE rpc[p] = "missing"
      <3>1. outbox' = [outbox EXCEPT ![looking[p]] = Pending(looking[p], 0)]
        BY <2>3 DEF AuditWrite, SetRetry
      <3>2. ledger' = ledger
        BY DEF AuditWrite, fabricVars
      <3>3. ASSUME NEW c \in Commitments, outbox'[c].status = "CONFIRMED"
            PROVE  outbox[c].status = "CONFIRMED"
        BY <2>1, <3>1, <3>3 DEF IInv, TypeOK, Pending
      <3> QED
        BY <3>2, <3>3 DEF IInv, ConfirmedOnLedger
    <2> QED
      BY <2>2, <2>3 DEF AuditWrite
  <1> QED
    BY <1>1, <1>2, <1>3 DEF IInv

\* A new record is PENDING.
LEMMA RefillStep ==
    ASSUME IInv, NEW p \in Processes, Refill(p)
    PROVE  IInv'
  <1>1. TypeOK'
    BY CountIsNat, BoundAssumption
       DEF IInv, TypeOK, Record, Statuses, Leases, Recorded, Refill, CreateRecord,
           Missing, appVars, fabricVars, workerVars, sweepVars, boundVars
  <1>2. AboutToConfirm'
    BY DEF IInv, TypeOK, AboutToConfirm, Processing, Locations, Refill, CreateRecord,
           Missing, appVars, fabricVars, workerVars, sweepVars, boundVars
  <1>3. ConfirmedOnLedger'
    BY DEF IInv, TypeOK, AboutToConfirm, ConfirmedOnLedger, Record, Refill,
           CreateRecord, Missing, appVars, fabricVars, workerVars, sweepVars,
           boundVars
  <1> QED
    BY <1>1, <1>2, <1>3 DEF IInv

LEMMA EndSweepStep ==
    ASSUME IInv, NEW p \in Processes, EndSweep(p)
    PROVE  IInv'
  <1>1. TypeOK'
    BY DEF IInv, TypeOK, EndSweep, appVars, fabricVars, workerVars, boundVars
  <1>2. AboutToConfirm'
    BY DEF IInv, TypeOK, AboutToConfirm, Processing, Locations, EndSweep, appVars,
           fabricVars, workerVars, boundVars
  <1>3. ConfirmedOnLedger'
    BY DEF IInv, TypeOK, AboutToConfirm, ConfirmedOnLedger, EndSweep, appVars,
           fabricVars, workerVars, boundVars
  <1> QED
    BY <1>1, <1>2, <1>3 DEF IInv

LEMMA LeaseRunsOutStep ==
    ASSUME IInv, NEW c \in Commitments, LeaseRunsOut(c)
    PROVE  IInv'
  <1>1. TypeOK'
    <2>1. outbox' = [outbox EXCEPT ![c].lease = "expired"]
      BY DEF LeaseRunsOut
    <2>2. outbox' \in [Commitments -> Record]
      <3>1. outbox[c] \in Record /\ outbox \in [Commitments -> Record]
        BY DEF IInv, TypeOK
      <3>2. [outbox[c] EXCEPT !.lease = "expired"] \in Record
        BY <3>1 DEF Record, Leases
      <3> QED
        BY <2>1, <3>1, <3>2
    <2>3. overrun' \subseteq Commitments
      BY DEF IInv, TypeOK, LeaseRunsOut
    <2> QED
      BY <2>2, <2>3 DEF IInv, TypeOK, LeaseRunsOut, appVars, fabricVars, workerVars,
                        sweepVars, boundVars
  <1>2. AboutToConfirm'
    BY DEF IInv, TypeOK, AboutToConfirm, Processing, LeaseRunsOut, appVars,
           fabricVars, workerVars, sweepVars, boundVars
  <1>3. ConfirmedOnLedger'
    BY DEF IInv, TypeOK, AboutToConfirm, ConfirmedOnLedger, Record, LeaseRunsOut,
           appVars, fabricVars, workerVars, sweepVars, boundVars
  <1> QED
    BY <1>1, <1>2, <1>3 DEF IInv

\* A late transaction only adds to the ledger.
LEMMA LimboSettlesStep ==
    ASSUME IInv, NEW t \in limbo, LimboSettles(t)
    PROVE  IInv'
  <1>1. TypeOK'
    <2>1. t.id \in Commitments
      BY DEF IInv, TypeOK, Tx
    <2>2. CASE Valid(t.id, t.at)
      <3>1. WriteLedger(t.id) /\ limbo' = limbo \ {t}
        BY <2>2 DEF LimboSettles
      <3>2. /\ ledger' \in [Commitments -> {"absent", "same", "other"}]
            /\ height' \in Nat
            /\ limbo' \subseteq Tx
        BY <2>1, <3>1 DEF IInv, TypeOK, WriteLedger
      <3> QED
        BY <3>2 DEF IInv, TypeOK, LimboSettles, appVars, workerVars, sweepVars, boundVars
    <2>3. CASE ~Valid(t.id, t.at)
      BY <2>3 DEF IInv, TypeOK, LimboSettles, appVars, workerVars, sweepVars, boundVars
    <2> QED
      BY <2>2, <2>3
  <1>2. AboutToConfirm'
    BY DEF IInv, TypeOK, AboutToConfirm, Processing, LimboSettles, Valid, WriteLedger,
           Tx, appVars, workerVars, sweepVars, boundVars
  <1>3. ConfirmedOnLedger'
    BY DEF IInv, TypeOK, AboutToConfirm, ConfirmedOnLedger, LimboSettles, Valid,
           WriteLedger, Tx, appVars, workerVars, sweepVars, boundVars
  <1> QED
    BY <1>1, <1>2, <1>3 DEF IInv

\* What somebody else commits takes no commitment of ours away.
LEMMA ForeignCommitStep ==
    ASSUME IInv, NEW c \in Commitments, ForeignCommit(c)
    PROVE  IInv'
  <1>1. TypeOK'
    BY DEF IInv, TypeOK, ForeignCommit, appVars, workerVars, sweepVars, boundVars
  <1>2. AboutToConfirm'
    BY TailOfClaims
       DEF IInv, TypeOK, AboutToConfirm, Processing, ForeignCommit, appVars, workerVars,
           sweepVars, boundVars
  <1>3. ConfirmedOnLedger'
    BY DEF IInv, TypeOK, ConfirmedOnLedger, ForeignCommit, appVars, workerVars,
           sweepVars, boundVars
  <1> QED
    BY <1>1, <1>2, <1>3 DEF IInv

LEMMA AbandonStep ==
    ASSUME IInv, NEW w \in Invocations, Abandon(w)
    PROVE  IInv'
  <1>1. TypeOK'
    BY BoundAssumption
       DEF IInv, TypeOK, Locations, Abandon, appVars, fabricVars, sweepVars
  <1>2. AboutToConfirm'
    BY DEF IInv, TypeOK, AboutToConfirm, Processing, Locations, Abandon, appVars,
           fabricVars, sweepVars
  <1>3. ConfirmedOnLedger'
    BY DEF IInv, TypeOK, AboutToConfirm, ConfirmedOnLedger, Abandon, appVars,
           fabricVars, sweepVars
  <1> QED
    BY <1>1, <1>2, <1>3 DEF IInv

\* A crash forgets local state only; transactions already ordered are kept in limbo.
LEMMA CrashStep ==
    ASSUME IInv, NEW p \in Processes, Crash(p)
    PROVE  IInv'
  <1>1. TypeOK'
    <2> DEFINE dead == {w \in Invocations : ProcessOf[w] = p}
    <2>1. limbo' = limbo \cup {Orphan(w) : w \in {v \in dead : pc[v] = "commit"}}
      BY DEF Crash
    <2>2. ASSUME NEW w \in Invocations, pc[w] = "commit"
          PROVE  Orphan(w) \in Tx
      BY <2>2, TailOfClaims
         DEF IInv, TypeOK, AboutToConfirm, Processing, Locations, Orphan, Tx
    <2>3. limbo' \subseteq Tx
      BY <2>1, <2>2 DEF IInv, TypeOK
    <2>4. /\ pc' \in [Invocations -> Locations]
          /\ claims' \in [Invocations -> Seq(Commitments)]
          /\ endorsed' \in [Invocations -> Nat]
      BY DEF IInv, TypeOK, Crash, Locations
    <2>5. permanent' \in [Invocations -> BOOLEAN]
      <3>1. permanent' = [w \in Invocations |-> w \notin dead /\ permanent[w]]
        BY DEF Crash
      <3> QED
        BY <3>1, Zenon
    <2>6. /\ rpc' \in [Processes -> {"idle", "scan", "audit", "found", "missing", "refill"}]
          /\ audit' \in [Processes -> SUBSET Commitments]
          /\ looking' \in [Processes -> Commitments \cup {"nothing"}]
      BY DEF IInv, TypeOK, Crash
    <2>7. crashes' \in 0..MaxCrashes
      BY BoundAssumption DEF IInv, TypeOK, Crash
    <2> QED
      BY <2>3, <2>4, <2>5, <2>6, <2>7 DEF IInv, TypeOK, Crash
  <1>2. AboutToConfirm'
    BY DEF IInv, TypeOK, AboutToConfirm, Processing, Locations, Crash, Orphan, Tx
  <1>3. ConfirmedOnLedger'
    BY DEF IInv, TypeOK, AboutToConfirm, ConfirmedOnLedger, Crash, Orphan, Tx
  <1> QED
    BY <1>1, <1>2, <1>3 DEF IInv

-----------------------------------------------------------------------------
\* Every step of the application, of the workers, of the sweeps, of time, of
\* Fabric and of a crash keeps the invariant.
LEMMA NextIInv == IInv /\ [Next]_vars => IInv'
  <1> SUFFICES ASSUME IInv, [Next]_vars PROVE IInv'
    OBVIOUS
  <1>1. CASE Application
    BY <1>1, SaveStep, EnqueueStep, EnqueueLostStep DEF Application
  <1>2. ASSUME NEW w \in Invocations, Worker(w)
        PROVE  IInv'
    BY <1>2, ClaimStep, EndClaimsStep, EndorseStep,
       EndorseFailsStep, NotConnectedStep, CommittedStep, InvalidatedStep,
       CommitTimeoutStep, CheckExistingStep, CheckFailsStep, ConfirmStep,
       ConfirmLostStep, ReadAttemptsStep, FailStep
       DEF Worker
  <1>3. ASSUME NEW p \in Processes, Sweep(p)
        PROVE  IInv'
    BY <1>3, ResetExpiredStep, ScanFailedStep, AuditReadStep, AuditWriteStep,
       RefillStep, EndSweepStep
       DEF Sweep
  <1>4. CASE Time
    BY <1>4, LeaseRunsOutStep DEF Time
  <1>5. CASE Channel
    BY <1>5, LimboSettlesStep, ForeignCommitStep DEF Channel
  <1>6. CASE Crashes
    BY <1>6, AbandonStep, CrashStep DEF Crashes
  <1>7. CASE UNCHANGED vars
    BY <1>7 DEF vars, appVars, fabricVars, workerVars, sweepVars, boundVars, IInv,
                TypeOK, AboutToConfirm, Processing, ConfirmedOnLedger
  <1> QED
    BY <1>1, <1>2, <1>3, <1>4, <1>5, <1>6, <1>7 DEF Next

\* The inductive invariant of the outbox holds in every reachable state.
THEOREM OutboxInvariant == Spec => []IInv
  BY InitIInv, NextIInv, PTL DEF Spec

\* Every variable of the outbox keeps its type; in particular no record is
\* claimed more often than maxAttempts between two requeues by the sweep.
THEOREM OutboxTypeOK == Spec => []TypeOK
  <1>1. IInv => TypeOK
    BY DEF IInv
  <1> QED
    BY <1>1, OutboxInvariant, PTL

\* A record is CONFIRMED only if the ledger holds a commitment under its id,
\* for any interleaving of polls and sweeps of any number of processes, and
\* any lease expiry, Fabric timeout, lost database call or crash.
THEOREM OutboxConfirmedOnLedger == Spec => []ConfirmedOnLedger
  <1>1. IInv => ConfirmedOnLedger
    BY DEF IInv
  <1> QED
    BY <1>1, OutboxInvariant, PTL

-----------------------------------------------------------------------------
(* Who writes CONFIRMED, and what else a step does to a record.            *)

\* How a step may write a record: it creates it, claims it, takes its lease away, or is
\* one of the writes of a poll or of a sweep.
LEMMA OutboxWrites ==
    ASSUME IInv, [Next]_vars
    PROVE  \/ outbox' = outbox
           \/ \E c \in Commitments : CreateRecord(c)
           \/ \E w \in Invocations : Claim(w) \/ Confirm(w) \/ Fail(w)
           \/ \E c \in Commitments : LeaseRunsOut(c)
           \/ \E p \in Processes : ResetExpired(p) \/ AuditWrite(p)
  <1>1. ASSUME NEW w \in Invocations, Worker(w), ~Claim(w), ~Confirm(w), ~Fail(w)
        PROVE  outbox' = outbox
    BY <1>1 DEF Worker, EndClaims, Endorse, EndorseFails, NotConnected, Committed,
                Invalidated, CommitTimeout, CheckExisting, CheckFails, ConfirmLost,
                ReadAttempts
  <1>2. ASSUME NEW p \in Processes, Sweep(p), ~ResetExpired(p), ~AuditWrite(p)
        PROVE  outbox' = outbox \/ \E d \in Commitments : CreateRecord(d)
    BY <1>2 DEF Sweep, ScanFailed, AuditRead, Refill, EndSweep, Missing, IInv, TypeOK
  <1>3. ASSUME Application \/ Channel \/ Crashes
        PROVE  outbox' = outbox \/ \E d \in Commitments : CreateRecord(d)
    BY <1>3 DEF Application, Save, Enqueue, EnqueueLost, Channel, LimboSettles,
                ForeignCommit, Crashes, Abandon, Crash
  <1> QED
    BY <1>1, <1>2, <1>3 DEF Next, Time, vars

\* A poll that is done has a record, the first of those it claimed.
LEMMA PollHolds ==
    ASSUME IInv, NEW w \in Invocations, Confirm(w) \/ Fail(w)
    PROVE  /\ claims[w] # <<>> /\ claims[w] \in Seq(Commitments)
           /\ Head(claims[w]) \in Commitments /\ Head(claims[w]) = claims[w][1]
           /\ Len(claims[w]) \in Nat /\ 1 \in 1 .. Len(claims[w])
  <1>1. claims[w] # <<>> /\ claims[w] \in Seq(Commitments)
    BY DEF Confirm, Fail, IInv, TypeOK, AboutToConfirm, Processing, Locations
  <1> QED
    BY <1>1, HeadOfClaims, TailOfClaims

\* A record becomes CONFIRMED by a poll, which has its own commitment on the
\* ledger, or by a sweep that found one under its id, for any foreign commitments and
\* whatever leases run out.
THEOREM OutboxConfirmedMatches == Spec => ConfirmedMatches
  <1>1. ASSUME IInv, [Next]_vars, NEW c \in Commitments,
               outbox[c].status # "CONFIRMED", outbox'[c].status = "CONFIRMED"
        PROVE  ledger[c] = "same" \/ FoundBySweep(c)
    <2>1. CASE outbox' = outbox
      BY <1>1, <2>1
    <2>2. CASE \E d \in Commitments : CreateRecord(d)
      BY <1>1, <2>2 DEF CreateRecord, IInv, TypeOK
    <2>3. CASE \E w \in Invocations : Claim(w)
      <3>1. PICK d : outbox' = [outbox EXCEPT ![d] = Leased(d)]
        BY <2>3 DEF Claim
      <3> QED
        BY <1>1, <3>1 DEF Leased, IInv, TypeOK
    <2>4. ASSUME NEW w \in Invocations, Confirm(w)
          PROVE  ledger[c] = "same"
      <3>1. Head(claims[w]) \in Commitments /\ ledger[Head(claims[w])] = "same"
        BY <1>1, <2>4, PollHolds DEF Confirm, IInv, AboutToConfirm
      <3>2. c = Head(claims[w])
        BY <1>1, <2>4, <3>1 DEF Confirm, SetStatus, IInv, TypeOK
      <3> QED
        BY <3>1, <3>2
    <2>5. ASSUME NEW w \in Invocations, Fail(w)
          PROVE  FALSE
      <3>1. Head(claims[w]) \in Commitments
        BY <1>1, <2>5, PollHolds
      <3>2. PICK n \in {"FAILED", "PENDING"} : SetStatus(Head(claims[w]), n)
        BY <2>5 DEF Fail
      <3> QED
        BY <1>1, <3>1, <3>2 DEF SetStatus, IInv, TypeOK
    <2>6. ASSUME NEW d \in Commitments, LeaseRunsOut(d)
          PROVE  FALSE
      BY <1>1, <2>6 DEF LeaseRunsOut, IInv, TypeOK, Record
    <2>7. ASSUME NEW p \in Processes, ResetExpired(p)
          PROVE  FALSE
      BY <1>1, <2>7 DEF ResetExpired, Pending, IInv, TypeOK
    <2>8. ASSUME NEW p \in Processes, AuditWrite(p)
          PROVE  FoundBySweep(c)
      <3>1. looking[p] \in Commitments
        BY <1>1, <2>8 DEF AuditWrite, IInv, AboutToConfirm
      <3>2. CASE rpc[p] = "missing"
        <4>1. outbox' = [outbox EXCEPT ![looking[p]] = Pending(looking[p], 0)]
          BY <2>8, <3>2 DEF AuditWrite, SetRetry
        <4> QED
          BY <1>1, <3>1, <4>1 DEF Pending, IInv, TypeOK
      <3>3. CASE rpc[p] = "found"
        <4>1. SetStatus(looking[p], "CONFIRMED")
          BY <2>8, <3>3 DEF AuditWrite
        <4>2. c = looking[p]
          BY <1>1, <3>1, <4>1 DEF SetStatus, IInv, TypeOK
        <4>3. rpc'[p] # "found"
          BY <1>1, <2>8 DEF AuditWrite, NextAudit, IInv, TypeOK
        <4> QED
          BY <3>3, <4>2, <4>3 DEF FoundBySweep
      <3> QED
        BY <2>8, <3>2, <3>3 DEF AuditWrite
    <2> QED
      BY <1>1, <2>1, <2>2, <2>3, <2>4, <2>5, <2>6, <2>7, <2>8, OutboxWrites
  <1>2. IInv /\ [Next]_vars =>
           [\A c \in Commitments :
               outbox[c].status # "CONFIRMED" /\ outbox'[c].status = "CONFIRMED"
               => ledger[c] = "same" \/ FoundBySweep(c)]_vars
    BY <1>1
  <1> QED
    BY <1>2, OutboxInvariant, PTL DEF Spec, ConfirmedMatches

-----------------------------------------------------------------------------
(* The lease.  It is a lock on a record in two facts: what a poll holds is *)
(* PROCESSING under a running lease, and it is held once.  A record that a *)
(* lease or a late sweep has taken from under a poll is in overrun, and    *)
(* nothing is said of it any more.                                         *)

ClaimsAreLeased ==
    \A w \in Invocations : \A i \in 1 .. Len(claims[w]) :
        claims[w][i] \notin overrun =>
            /\ outbox[claims[w][i]].status = "PROCESSING"
            /\ outbox[claims[w][i]].lease = "running"

ClaimedOnce ==
    \A v, w \in Invocations : \A i \in 1 .. Len(claims[v]), j \in 1 .. Len(claims[w]) :
        claims[v][i] = claims[w][j] /\ claims[v][i] \notin overrun => v = w /\ i = j

LockInv == ClaimsAreLeased /\ ClaimedOnce

\* A claim is a commitment.
LEMMA ClaimIsCommitment ==
    ASSUME IInv, NEW w \in Invocations, NEW i \in 1 .. Len(claims[w])
    PROVE  claims[w][i] \in Commitments
  BY DEF IInv, TypeOK

LEMMA HeldOnce ==
    ASSUME ClaimedOnce, NEW v \in Invocations, NEW w \in Invocations,
           NEW i \in 1 .. Len(claims[v]), NEW j \in 1 .. Len(claims[w]),
           claims[v][i] = claims[w][j], claims[v][i] \notin overrun
    PROVE  v = w /\ i = j
  BY DEF ClaimedOnce

\* A step that claims nothing and gives up nothing, and leaves the records that
\* are held as they are, unless it overruns them.
LEMMA LockKept ==
    ASSUME IInv, LockInv, claims' = claims, overrun \subseteq overrun',
           \A w \in Invocations : \A i \in 1 .. Len(claims[w]) :
              claims[w][i] \notin overrun' =>
                 /\ outbox'[claims[w][i]].status = outbox[claims[w][i]].status
                 /\ outbox'[claims[w][i]].lease = outbox[claims[w][i]].lease
    PROVE  LockInv'
  <1>1. ClaimsAreLeased'
    BY DEF LockInv, ClaimsAreLeased
  <1>2. ClaimedOnce'
    BY DEF LockInv, ClaimedOnce
  <1> QED
    BY <1>1, <1>2 DEF LockInv

\* A record that is created was not there, so nobody holds it.
LEMMA LockCreate ==
    ASSUME IInv, LockInv, NEW c \in Commitments, CreateRecord(c),
           claims' = claims, overrun' = overrun
    PROVE  LockInv'
  <1>1. ASSUME NEW d \in Commitments, outbox[d].status # "NONE"
        PROVE  outbox'[d] = outbox[d]
    BY <1>1 DEF CreateRecord, Recorded, IInv, TypeOK
  <1>2. \A w \in Invocations : \A i \in 1 .. Len(claims[w]) :
           claims[w][i] \notin overrun' => outbox'[claims[w][i]] = outbox[claims[w][i]]
    BY <1>1, ClaimIsCommitment DEF LockInv, ClaimsAreLeased
  <1> QED
    BY <1>2, LockKept

\* A poll claims only what no poll holds.
LEMMA LockClaim ==
    ASSUME IInv, LockInv, NEW w \in Invocations, Claim(w)
    PROVE  LockInv'
  <1>0. ClaimedOnce /\ overrun' = overrun
    BY DEF LockInv, Claim
  <1>1. PICK c \in NextToClaim(w) :
           /\ outbox' = [outbox EXCEPT ![c] = Leased(c)]
           /\ claims' = [claims EXCEPT ![w] = Append(@, c)]
    BY DEF Claim
  <1>2. /\ c \in Commitments
        /\ \/ outbox[c].status = "PENDING"
           \/ outbox[c].status = "PROCESSING" /\ outbox[c].lease = "expired"
    BY DEF NextToClaim, Oldest, Newest, Claimable
  <1>3. \A v \in Invocations : \A i \in 1 .. Len(claims[v]) : claims[v][i] # c \/ c \in overrun
    BY <1>2 DEF LockInv, ClaimsAreLeased
  <1>4. /\ outbox'[c].status = "PROCESSING" /\ outbox'[c].lease = "running"
        /\ \A d \in Commitments : d # c => outbox'[d] = outbox[d]
    BY <1>1, <1>2 DEF Leased, IInv, TypeOK
  <1>5. /\ \A v \in Invocations : v # w => claims'[v] = claims[v]
        /\ Len(claims[w]) \in Nat
        /\ Len(claims'[w]) = Len(claims[w]) + 1
        /\ claims'[w][Len(claims[w]) + 1] = c
        /\ \A i \in 1 .. Len(claims[w]) : claims'[w][i] = claims[w][i]
    BY <1>1, <1>2 DEF IInv, TypeOK
  <1>6. ClaimsAreLeased'
    <2> SUFFICES ASSUME NEW v \in Invocations, NEW i \in 1 .. Len(claims'[v]),
                        claims'[v][i] \notin overrun
                 PROVE  outbox'[claims'[v][i]].status = "PROCESSING"
                        /\ outbox'[claims'[v][i]].lease = "running"
      BY <1>0 DEF ClaimsAreLeased
    <2>1. CASE claims'[v][i] = c
      BY <1>4, <2>1
    <2>2. CASE claims'[v][i] # c
      <3>1. i \in 1 .. Len(claims[v]) /\ claims'[v][i] = claims[v][i]
        BY <1>5, <2>2
      <3> QED
        BY <1>4, <2>2, <3>1, ClaimIsCommitment DEF LockInv, ClaimsAreLeased
    <2> QED
      BY <2>1, <2>2
  <1>7. ClaimedOnce'
    <2> SUFFICES ASSUME NEW u \in Invocations, NEW v \in Invocations,
                        NEW i \in 1 .. Len(claims'[u]), NEW j \in 1 .. Len(claims'[v]),
                        claims'[u][i] = claims'[v][j], claims'[u][i] \notin overrun
                 PROVE  u = v /\ i = j
      BY <1>0 DEF ClaimedOnce
    <2>0. ASSUME NEW x \in Invocations, NEW k \in 1 .. Len(claims'[x]),
                 claims'[x][k] \notin overrun
          PROVE  \/ k \in 1 .. Len(claims[x]) /\ claims'[x][k] = claims[x][k] /\ claims'[x][k] # c
                 \/ x = w /\ k = Len(claims[w]) + 1 /\ claims'[x][k] = c
      <3>1. CASE x = w
        BY <1>3, <1>5, <2>0, <3>1
      <3>2. CASE x # w
        BY <1>3, <1>5, <2>0, <3>2
      <3> QED
        BY <3>1, <3>2
    <2>1. CASE claims'[u][i] = c
      BY <2>0, <2>1
    <2>2. CASE claims'[u][i] # c
      <3>1. i \in 1 .. Len(claims[u]) /\ claims'[u][i] = claims[u][i]
        BY <2>0, <2>2
      <3>2. j \in 1 .. Len(claims[v]) /\ claims'[v][j] = claims[v][j]
        BY <2>0, <2>2
      <3>3. claims[u][i] = claims[v][j] /\ claims[u][i] \notin overrun
        BY <3>1, <3>2
      <3> QED
        BY <1>0, <3>1, <3>2, <3>3, HeldOnce
    <2> QED
      BY <2>1, <2>2
  <1> QED
    BY <1>6, <1>7 DEF LockInv

\* A poll writes the record it holds, which is nobody else's, and gives it up.
LEMMA LockDone ==
    ASSUME IInv, LockInv, NEW w \in Invocations, Confirm(w) \/ Fail(w)
    PROVE  LockInv'
  <1> DEFINE h == Head(claims[w])
  <1>0. overrun' = overrun
    BY DEF Confirm, Fail
  <1>1. /\ claims[w] # <<>> /\ claims[w] \in Seq(Commitments)
        /\ h \in Commitments /\ h = claims[w][1] /\ 1 \in 1 .. Len(claims[w])
        /\ Len(claims[w]) \in Nat
    BY PollHolds
  <1>2. \A d \in Commitments : d # h => outbox'[d] = outbox[d]
    BY <1>1 DEF Confirm, Fail, SetStatus, IInv, TypeOK
  <1>3. /\ \A v \in Invocations : v # w => claims'[v] = claims[v]
        /\ Len(claims'[w]) = Len(claims[w]) - 1
        /\ \A i \in 1 .. Len(claims'[w]) : claims'[w][i] = claims[w][i + 1]
    <2>1. claims' = [claims EXCEPT ![w] = Tail(@)]
      BY DEF Confirm, Fail, NextRecord
    <2>2. claims'[w] = Tail(claims[w]) /\ \A v \in Invocations : v # w => claims'[v] = claims[v]
      BY <2>1 DEF IInv, TypeOK
    <2> QED
      BY <1>1, <2>2, HeadOfClaims
  <1> HIDE DEF h
  <1>4. ASSUME NEW v \in Invocations, NEW i \in 1 .. Len(claims'[v])
        PROVE  /\ claims'[v][i] = claims[v][IF v = w THEN i + 1 ELSE i]
               /\ (IF v = w THEN i + 1 ELSE i) \in 1 .. Len(claims[v])
               /\ claims'[v][i] # h \/ h \in overrun
    <2>1. CASE v = w
      <3>1. claims'[v][i] = claims[v][i + 1] /\ i + 1 \in 1 .. Len(claims[v]) /\ i + 1 # 1
        BY <1>1, <1>3, <2>1
      <3>2. claims[v][i + 1] # claims[w][1] \/ claims[w][1] \in overrun
        BY <1>1, <2>1, <3>1 DEF LockInv, ClaimedOnce
      <3> QED
        BY <1>1, <2>1, <3>1, <3>2
    <2>2. CASE v # w
      BY <1>1, <1>3, <2>2 DEF LockInv, ClaimedOnce
    <2> QED
      BY <2>1, <2>2
  <1>5. ClaimsAreLeased'
    BY <1>0, <1>2, <1>4, ClaimIsCommitment DEF LockInv, ClaimsAreLeased
  <1>6. ClaimedOnce'
    <2> SUFFICES ASSUME NEW u \in Invocations, NEW v \in Invocations,
                        NEW i \in 1 .. Len(claims'[u]), NEW j \in 1 .. Len(claims'[v]),
                        claims'[u][i] = claims'[v][j], claims'[u][i] \notin overrun
                 PROVE  u = v /\ i = j
      BY <1>0 DEF ClaimedOnce
    <2>1. PICK k \in 1 .. Len(claims[u]) :
             claims'[u][i] = claims[u][k] /\ k = IF u = w THEN i + 1 ELSE i
      BY <1>4
    <2>2. PICK l \in 1 .. Len(claims[v]) :
             claims'[v][j] = claims[v][l] /\ l = IF v = w THEN j + 1 ELSE j
      BY <1>4
    <2>3. claims[u][k] = claims[v][l] /\ claims[u][k] \notin overrun /\ ClaimedOnce
      BY <2>1, <2>2 DEF LockInv
    <2>4. u = v /\ k = l
      BY <2>3, HeldOnce
    <2> QED
      BY <2>1, <2>2, <2>4
  <1> QED
    BY <1>5, <1>6 DEF LockInv

\* A lease that runs out under a poll overruns the record.
LEMMA LockLease ==
    ASSUME IInv, LockInv, NEW c \in Commitments, LeaseRunsOut(c)
    PROVE  LockInv'
  <1>1. \A w \in Invocations : \A i \in 1 .. Len(claims[w]) : claims[w][i] # c \/ c \in overrun'
    BY DEF LeaseRunsOut, Claimed
  <1>2. \A d \in Commitments : d # c => outbox'[d] = outbox[d]
    BY DEF LeaseRunsOut, IInv, TypeOK
  <1>3. claims' = claims /\ overrun \subseteq overrun'
    BY DEF LeaseRunsOut, workerVars
  <1> QED
    BY <1>1, <1>2, <1>3, ClaimIsCommitment, LockKept

\* The reset takes up only what is PROCESSING without a lease.
LEMMA LockReset ==
    ASSUME IInv, LockInv, NEW p \in Processes, ResetExpired(p)
    PROVE  LockInv'
  <1>1. \A c \in Commitments :
           outbox[c].status # "PROCESSING" \/ outbox[c].lease # "expired" => outbox'[c] = outbox[c]
    BY DEF ResetExpired
  <1>2. \A w \in Invocations : \A i \in 1 .. Len(claims[w]) :
           claims[w][i] \notin overrun => outbox'[claims[w][i]] = outbox[claims[w][i]]
    BY <1>1, ClaimIsCommitment DEF LockInv, ClaimsAreLeased
  <1>3. claims' = claims /\ overrun' = overrun
    BY DEF ResetExpired, workerVars
  <1> QED
    BY <1>2, <1>3, LockKept

\* What an audit writes.
LEMMA AuditWrites ==
    ASSUME IInv, NEW p \in Processes, AuditWrite(p)
    PROVE  /\ looking[p] \in Commitments
           /\ \A c \in Commitments : c # looking[p] => outbox'[c] = outbox[c]
           /\ outbox[looking[p]].status # "FAILED" => looking[p] \in overrun'
           /\ overrun \subseteq overrun'
  <1>1. looking[p] \in Commitments
    BY DEF AuditWrite, IInv, AboutToConfirm
  <1>2. \A c \in Commitments : c # looking[p] => outbox'[c] = outbox[c]
    <2>1. CASE SetStatus(looking[p], "CONFIRMED")
      BY <1>1, <2>1 DEF SetStatus, IInv, TypeOK
    <2>2. CASE SetRetry(looking[p])
      BY <1>1, <2>2 DEF SetRetry, IInv, TypeOK
    <2> QED
      BY <2>1, <2>2 DEF AuditWrite
  <1>3. overrun' = overrun \cup {c \in {looking[p]} : outbox[c].status # "FAILED"}
    BY DEF AuditWrite
  <1> QED
    BY <1>1, <1>2, <1>3

\* A sweep writes to a FAILED record, which nobody holds, or overruns the record.
LEMMA LockAuditWrite ==
    ASSUME IInv, LockInv, NEW p \in Processes, AuditWrite(p)
    PROVE  LockInv'
  <1>1. /\ \A c \in Commitments : c # looking[p] => outbox'[c] = outbox[c]
        /\ outbox[looking[p]].status # "FAILED" => looking[p] \in overrun'
        /\ overrun \subseteq overrun'
    BY AuditWrites
  <1>2. claims' = claims
    BY DEF AuditWrite, workerVars
  <1>3. \A w \in Invocations : \A i \in 1 .. Len(claims[w]) :
           claims[w][i] \notin overrun' => outbox'[claims[w][i]] = outbox[claims[w][i]]
    BY <1>1, ClaimIsCommitment DEF LockInv, ClaimsAreLeased
  <1> QED
    BY <1>1, <1>2, <1>3, LockKept

\* A crash gives claims up.
LEMMA LockCrash ==
    ASSUME IInv, LockInv,
           \/ \E w \in Invocations : Abandon(w)
           \/ \E p \in Processes : Crash(p)
    PROVE  LockInv'
  <1>1. /\ outbox' = outbox /\ overrun' = overrun
        /\ \A v \in Invocations : claims'[v] \in {claims[v], <<>>}
    <2>1. ASSUME NEW w \in Invocations, Abandon(w)
          PROVE  /\ outbox' = outbox /\ overrun' = overrun
                 /\ \A v \in Invocations : claims'[v] \in {claims[v], <<>>}
      BY <2>1 DEF Abandon, IInv, TypeOK
    <2>2. ASSUME NEW p \in Processes, Crash(p)
          PROVE  /\ outbox' = outbox /\ overrun' = overrun
                 /\ \A v \in Invocations : claims'[v] \in {claims[v], <<>>}
      BY <2>2 DEF Crash, IInv, TypeOK
    <2> QED
      BY <2>1, <2>2
  <1>2. \A v \in Invocations : claims'[v] = claims[v] \/ 1 .. Len(claims'[v]) = {}
    BY <1>1
  <1> QED
    BY <1>1, <1>2 DEF LockInv, ClaimsAreLeased, ClaimedOnce

\* The rest leaves the records and the claims alone.
LEMMA LockStill ==
    ASSUME IInv, LockInv, outbox' = outbox, claims' = claims, overrun' = overrun
    PROVE  LockInv'
  BY LockKept

LEMMA InitLock == Init => LockInv
  BY DEF Init, LockInv, ClaimsAreLeased, ClaimedOnce

LEMMA NextLock ==
    ASSUME IInv, LockInv, [Next]_vars
    PROVE  LockInv'
  <1>1. CASE Application
    <2>1. ASSUME NEW c \in Commitments, Enqueue(c)
          PROVE  LockInv'
      BY <2>1, LockCreate DEF Enqueue, workerVars
    <2>2. ASSUME NEW c \in Commitments, Save(c) \/ EnqueueLost(c)
          PROVE  LockInv'
      BY <2>2, LockStill DEF Save, EnqueueLost, workerVars
    <2> QED
      BY <1>1, <2>1, <2>2 DEF Application
  <1>2. ASSUME NEW w \in Invocations, Worker(w)
        PROVE  LockInv'
    <2>1. CASE Claim(w)
      BY <2>1, LockClaim
    <2>2. CASE Confirm(w) \/ Fail(w)
      BY <2>2, LockDone
    <2>3. CASE ~Claim(w) /\ ~Confirm(w) /\ ~Fail(w)
      BY <1>2, <2>3, LockStill
         DEF Worker, EndClaims, Endorse, EndorseFails, NotConnected, Committed,
             Invalidated, CommitTimeout, CheckExisting, CheckFails, ConfirmLost, ReadAttempts
    <2> QED
      BY <2>1, <2>2, <2>3
  <1>3. ASSUME NEW p \in Processes, Sweep(p)
        PROVE  LockInv'
    <2>1. CASE Refill(p)
      BY <2>1, LockCreate DEF Refill, Missing, workerVars, IInv, TypeOK
    <2>2. CASE ScanFailed(p) \/ AuditRead(p) \/ EndSweep(p)
      BY <2>2, LockStill DEF ScanFailed, AuditRead, EndSweep, workerVars
    <2> QED
      BY <1>3, <2>1, <2>2, LockReset, LockAuditWrite DEF Sweep
  <1>4. CASE Time
    BY <1>4, LockLease DEF Time
  <1>5. CASE Channel
    BY <1>5, LockStill DEF Channel, LimboSettles, ForeignCommit, workerVars
  <1>6. CASE Crashes
    BY <1>6, LockCrash DEF Crashes
  <1>7. CASE UNCHANGED vars
    BY <1>7, LockStill DEF vars, workerVars
  <1> QED
    BY <1>1, <1>2, <1>3, <1>4, <1>5, <1>6, <1>7 DEF Next

\* A record that a poll still has to process is PROCESSING and no second poll holds it,
\* for any number of processes, overlapping polls and sweeps, records per poll, faults
\* and crashes, until its lease runs out under a poll or a sweep writes to it late.
THEOREM OutboxLeaseIsALock == Spec => []LeaseIsALock
  <1>1. IInv /\ LockInv /\ [Next]_vars => LockInv'
    BY NextLock
  <1>2. LockInv => LeaseIsALock
    BY DEF LockInv, ClaimsAreLeased, ClaimedOnce, LeaseIsALock, Claimed
  <1> QED
    BY <1>1, <1>2, InitLock, OutboxInvariant, PTL DEF Spec

\* Nothing else takes a CONFIRMED record back: a poll writes only what it holds, which
\* is PROCESSING, the reset only what is PROCESSING, the audit only what is FAILED.
THEOREM OutboxConfirmedStays == Spec => ConfirmedStays
  <1>1. ASSUME IInv, LockInv, [Next]_vars, NEW c \in Commitments \ overrun',
               outbox[c].status = "CONFIRMED"
        PROVE  outbox'[c].status = "CONFIRMED"
    <2>1. CASE outbox' = outbox
      BY <1>1, <2>1
    <2>2. CASE \E d \in Commitments : CreateRecord(d)
      BY <1>1, <2>2 DEF CreateRecord, Recorded, IInv, TypeOK
    <2>3. CASE \E w \in Invocations : Claim(w)
      BY <1>1, <2>3 DEF Claim, NextToClaim, Oldest, Newest, Claimable, IInv, TypeOK
    <2>4. ASSUME NEW w \in Invocations, Confirm(w) \/ Fail(w)
          PROVE  outbox'[c].status = "CONFIRMED"
      <3>1. /\ Head(claims[w]) \in Commitments /\ overrun' = overrun
            /\ Head(claims[w]) \notin overrun => outbox[Head(claims[w])].status = "PROCESSING"
        BY <1>1, <2>4, PollHolds DEF LockInv, ClaimsAreLeased, Confirm, Fail
      <3>2. c # Head(claims[w])
        BY <1>1, <3>1
      <3> QED
        BY <1>1, <2>4, <3>1, <3>2 DEF Confirm, Fail, SetStatus, IInv, TypeOK
    <2>5. ASSUME NEW d \in Commitments, LeaseRunsOut(d)
          PROVE  outbox'[c].status = "CONFIRMED"
      BY <1>1, <2>5 DEF LeaseRunsOut, IInv, TypeOK, Record
    <2>6. ASSUME NEW p \in Processes, ResetExpired(p)
          PROVE  outbox'[c].status = "CONFIRMED"
      BY <1>1, <2>6 DEF ResetExpired
    <2>7. ASSUME NEW p \in Processes, AuditWrite(p)
          PROVE  outbox'[c].status = "CONFIRMED"
      BY <1>1, <2>7, AuditWrites
    <2> QED
      BY <1>1, <2>1, <2>2, <2>3, <2>4, <2>5, <2>6, <2>7, OutboxWrites
  <1>2. IInv /\ LockInv /\ [Next]_vars => LockInv'
    BY NextLock
  <1>3. IInv /\ LockInv /\ [Next]_vars =>
           [\A c \in Commitments \ overrun' :
               outbox[c].status = "CONFIRMED" => outbox'[c].status = "CONFIRMED"]_vars
    BY <1>1
  <1> QED
    BY <1>2, <1>3, InitLock, OutboxInvariant, PTL DEF Spec, ConfirmedStays
=============================================================================
