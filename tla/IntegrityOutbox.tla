--------------------------- MODULE IntegrityOutbox ---------------------------
(***************************************************************************)
(* The transactional outbox that carries integrity commitments from        *)
(* MongoDB to the Hyperledger Fabric ledger:                               *)
(*                                                                         *)
(*   backend/src/Services/integrityOutbox.service.js  worker, reconciler   *)
(*   backend/src/Services/fabric.service.js           createCommitment,    *)
(*                                                    getCommitment        *)
(*   backend/src/models/integrityOutbox.models.js     the stored record    *)
(*                                                                         *)
(* Several backend processes run the same worker against one database.  A  *)
(* worker's timer does not await the previous poll, so one process may     *)
(* have several polls ("invocations" below) in progress at once.  An       *)
(* invocation claims up to BatchSize records, one atomic findOneAndUpdate  *)
(* each, and then processes them one after the other; every database or    *)
(* Fabric call of that processing is a step of its own, because anything   *)
(* may happen between two awaits.                                          *)
(*                                                                         *)
(* A commitment stands for one commitment id with its immutable fields.    *)
(***************************************************************************)
EXTENDS Naturals, Sequences, FiniteSets

CONSTANTS
    Commitments,    \* commitment ids the application may enqueue
    Structural,     \* those of a SecurityEvent, Batch or Exam; the rest are Results
    Reconciled,     \* those the sweep re-creates when their record is missing
    Processes,      \* backend processes
    Invocations,    \* worker polls that may be in progress at one time
    ProcessOf,      \* the process of each invocation
    MaxAttempts,    \* maxAttempts of a record
    BatchSize,      \* BATCH_SIZE
    Foreign,        \* ids under which somebody else may commit other contents
    MaxFaults,      \* bound on failed calls to Fabric and to MongoDB
    MaxCrashes      \* bound on process crashes and abandoned polls

ASSUME CommitmentsAssumption == /\ Structural \subseteq Commitments
                                /\ Reconciled \subseteq Commitments
                                /\ Foreign \subseteq Commitments
                                /\ IsFiniteSet(Commitments)
ASSUME ProcessAssumption == ProcessOf \in [Invocations -> Processes]
ASSUME BoundAssumption == /\ MaxAttempts \in Nat \ {0}
                          /\ BatchSize \in Nat \ {0}
                          /\ MaxFaults \in Nat
                          /\ MaxCrashes \in Nat

VARIABLES
    saved,      \* entities stored in MongoDB
    enqueuing,  \* entities whose request handler has not reached its enqueue
    outbox,     \* IntegrityOutbox collection, by commitment id
    ledger,     \* what the channel holds under each commitment id
    height,     \* LEDGER_HEIGHT
    limbo,      \* ordered transactions no client waits for any more
    pc,         \* where each invocation is
    claims,     \* records each invocation still has to process
    endorsed,   \* LEDGER_HEIGHT read by the endorsement of its transaction
    permanent,  \* shouldPermanentlyFail, as each invocation computed it
    rpc,        \* where the reconciler of each process is
    audit,      \* FAILED records its sweep still has to look at
    looking,    \* the one it has asked Fabric about
    overrun,    \* records whose lease ran out under a poll, or that a sweep wrote late
    faults,     \* failed calls so far
    crashes     \* crashes so far

appVars    == <<saved, enqueuing>>
fabricVars == <<ledger, height, limbo>>
workerVars == <<pc, claims, endorsed, permanent>>
sweepVars  == <<rpc, audit, looking>>
boundVars  == <<faults, crashes>>
vars == <<appVars, outbox, fabricVars, workerVars, sweepVars, overrun, boundVars>>

Statuses == {"NONE", "PENDING", "PROCESSING", "CONFIRMED", "FAILED"}
Leases   == {"none", "running", "expired"}
Record   == [status: Statuses, attempts: 0..MaxAttempts, lease: Leases, born: Nat]
Tx       == [id: Commitments, at: Nat]
NoRecord == [status |-> "NONE", attempts |-> 0, lease |-> "none", born |-> 0]
Locations == {"idle", "submit", "commit", "check", "confirm",
              "attempts", "fail"}

TypeOK ==
    /\ saved \subseteq Commitments
    /\ enqueuing \subseteq saved
    /\ outbox \in [Commitments -> Record]
    /\ ledger \in [Commitments -> {"absent", "same", "other"}]
    /\ height \in Nat
    /\ limbo \subseteq Tx
    /\ pc \in [Invocations -> Locations]
    /\ claims \in [Invocations -> Seq(Commitments)]
    /\ endorsed \in [Invocations -> Nat]
    /\ permanent \in [Invocations -> BOOLEAN]
    /\ rpc \in [Processes -> {"idle", "scan", "audit", "found", "missing", "refill"}]
    /\ audit \in [Processes -> SUBSET Commitments]
    /\ looking \in [Processes -> Commitments \cup {"nothing"}]
    /\ overrun \subseteq Commitments
    /\ faults \in 0..MaxFaults
    /\ crashes \in 0..MaxCrashes

Recorded == {c \in Commitments : outbox[c].status # "NONE"}

Init ==
    /\ saved = {}
    /\ enqueuing = {}
    /\ outbox = [c \in Commitments |-> NoRecord]
    /\ ledger = [c \in Commitments |-> "absent"]
    /\ height = 0
    /\ limbo = {}
    /\ pc = [w \in Invocations |-> "idle"]
    /\ claims = [w \in Invocations |-> <<>>]
    /\ endorsed = [w \in Invocations |-> 0]
    /\ permanent = [w \in Invocations |-> FALSE]
    /\ rpc = [p \in Processes |-> "idle"]
    /\ audit = [p \in Processes |-> {}]
    /\ looking = [p \in Processes |-> "nothing"]
    /\ overrun = {}
    /\ faults = 0
    /\ crashes = 0

-----------------------------------------------------------------------------
(* The database operations the handlers use.                               *)

\* IntegrityOutbox.create; on a duplicate id the unique index refuses and the
\* error is swallowed, so an existing record is left alone.
CreateRecord(c) ==
    outbox' = IF c \in Recorded THEN outbox
              ELSE [outbox EXCEPT ![c] = [status |-> "PENDING", attempts |-> 0,
                                          lease |-> "none",
                                          born |-> Cardinality(Recorded)]]

\* A $set of status and a cleared lease, addressed by _id alone: no condition
\* on the status the record has or on who holds it.
SetStatus(c, s) ==
    outbox' = [outbox EXCEPT ![c].status = s, ![c].lease = "none"]

\* A record that waits for its n+1st attempt.
Pending(c, n) == [status |-> "PENDING", attempts |-> n, lease |-> "none",
                  born |-> outbox[c].born]

SetRetry(c) == outbox' = [outbox EXCEPT ![c] = Pending(c, 0)]

Fault == faults < MaxFaults /\ faults' = faults + 1

-----------------------------------------------------------------------------
(* The application: a handler stores the entity, then enqueues its         *)
(* commitment in a second, separate write.                                 *)

Save(c) ==
    /\ c \notin saved
    /\ saved' = saved \cup {c}
    /\ enqueuing' = enqueuing \cup {c}
    /\ UNCHANGED <<outbox, fabricVars, workerVars, sweepVars, boundVars, overrun>>

Enqueue(c) ==
    /\ c \in enqueuing
    /\ enqueuing' = enqueuing \ {c}
    /\ CreateRecord(c)
    /\ UNCHANGED <<saved, fabricVars, workerVars, sweepVars, boundVars, overrun>>

\* The second write fails; the handlers log the error and answer as if it had
\* succeeded.
EnqueueLost(c) ==
    /\ c \in enqueuing
    /\ Fault
    /\ enqueuing' = enqueuing \ {c}
    /\ UNCHANGED <<saved, outbox, fabricVars, workerVars, sweepVars, crashes, overrun>>

-----------------------------------------------------------------------------
(* The worker.                                                             *)

Claimed(w) == {claims[w][i] : i \in 1..Len(claims[w])}

\* Mutant: no limit on the attempts.
ClaimableForever(w) ==
    {c \in Commitments : \/ outbox[c].status = "PENDING"
                         \/ outbox[c].status = "PROCESSING" /\ outbox[c].lease = "expired"
                                                            /\ c \notin Claimed(w)}

\* Mutant: a PROCESSING record is claimed whether its lease has run out or not.
ClaimableIgnoringLease(w) ==
    {c \in Commitments : /\ outbox[c].status \in {"PENDING", "PROCESSING"}
                         /\ c \notin Claimed(w)
                         /\ outbox[c].attempts < MaxAttempts}

\* baseFilter: PENDING, or PROCESSING with a lease that had run out when the
\* poll began (never one this poll has just taken), with attempts left.
Claimable(w) ==
    {c \in Commitments :
        /\ \/ outbox[c].status = "PENDING"
           \/ outbox[c].status = "PROCESSING" /\ outbox[c].lease = "expired"
                                              /\ c \notin Claimed(w)
        /\ outbox[c].attempts < MaxAttempts}

Oldest(S) == {c \in S : \A d \in S : outbox[c].born <= outbox[d].born}
Newest(S) == {c \in S : \A d \in S : outbox[c].born >= outbox[d].born}

\* The oldest structural commitment first, else the newest Result.
NextToClaim(w) ==
    IF Claimable(w) \cap Structural # {} THEN Oldest(Claimable(w) \cap Structural)
                                         ELSE Newest(Claimable(w))

\* updateDoc: the claim takes the lease and spends an attempt.
Leased(c) == [status |-> "PROCESSING", attempts |-> outbox[c].attempts + 1,
              lease |-> "running", born |-> outbox[c].born]

Claim(w) ==
    /\ pc[w] = "idle"
    /\ Len(claims[w]) < BatchSize
    /\ \E c \in NextToClaim(w) :
          /\ outbox' = [outbox EXCEPT ![c] = Leased(c)]
          /\ claims' = [claims EXCEPT ![w] = Append(@, c)]
    /\ UNCHANGED <<appVars, fabricVars, pc, endorsed, permanent, sweepVars, boundVars, overrun>>

EndClaims(w) ==
    /\ pc[w] = "idle" /\ claims[w] # <<>>
    /\ Len(claims[w]) = BatchSize \/ Claimable(w) = {}
    /\ pc' = [pc EXCEPT ![w] = "submit"]
    /\ UNCHANGED <<appVars, outbox, fabricVars, claims, endorsed, permanent,
                   sweepVars, boundVars, overrun>>

\* submitTransaction is endorsed: the peer found no commitment under this id
\* and read LEDGER_HEIGHT; the transaction goes to the orderer.
Endorse(w) ==
    /\ pc[w] = "submit"
    /\ ledger[Head(claims[w])] = "absent"
    /\ endorsed' = [endorsed EXCEPT ![w] = height]
    /\ pc' = [pc EXCEPT ![w] = "commit"]
    /\ UNCHANGED <<appVars, outbox, fabricVars, claims, permanent, sweepVars, boundVars, overrun>>

\* The chaincode rejects the id as a duplicate, or the call itself fails;
\* either way createCommitment goes on to ask for the existing commitment.
EndorseFails(w) ==
    /\ pc[w] = "submit"
    /\ \/ ledger[Head(claims[w])] # "absent" /\ UNCHANGED faults
       \/ Fault
    /\ pc' = [pc EXCEPT ![w] = "check"]
    /\ UNCHANGED <<appVars, outbox, fabricVars, claims, endorsed, permanent,
                   sweepVars, crashes, overrun>>

\* _ensureConnected throws before anything is sent; no check follows.
NotConnected(w) ==
    /\ pc[w] = "submit"
    /\ Fault
    /\ pc' = [pc EXCEPT ![w] = "attempts"]
    /\ UNCHANGED <<appVars, outbox, fabricVars, claims, endorsed, permanent,
                   sweepVars, crashes, overrun>>

\* Fabric validates an ordered transaction against the two keys its
\* endorsement read, the commitment id and LEDGER_HEIGHT.
Valid(c, at) == ledger[c] = "absent" /\ at = height

\* submitTransaction returns or throws; what it had read goes with it.
EndCommit(w, next) ==
    /\ pc' = [pc EXCEPT ![w] = next]
    /\ endorsed' = [endorsed EXCEPT ![w] = 0]

WriteLedger(c) ==
    /\ ledger' = [ledger EXCEPT ![c] = "same"]
    /\ height' = height + 1

\* The commit status arrives: the commitment is on the ledger.
Committed(w) ==
    /\ pc[w] = "commit"
    /\ Valid(Head(claims[w]), endorsed[w])
    /\ WriteLedger(Head(claims[w]))
    /\ EndCommit(w, "confirm")
    /\ UNCHANGED <<appVars, outbox, limbo, claims, permanent, sweepVars, boundVars, overrun>>

\* The commit status arrives: another transaction came first (MVCC conflict).
Invalidated(w) ==
    /\ pc[w] = "commit"
    /\ ~Valid(Head(claims[w]), endorsed[w])
    /\ EndCommit(w, "check")
    /\ UNCHANGED <<appVars, outbox, fabricVars, claims, permanent, sweepVars, boundVars, overrun>>

Orphan(w) == [id |-> Head(claims[w]), at |-> endorsed[w]]

\* The commit status does not arrive in time; the transaction is still ordered.
CommitTimeout(w) ==
    /\ pc[w] = "commit"
    /\ Fault
    /\ limbo' = limbo \cup {Orphan(w)}
    /\ EndCommit(w, "check")
    /\ UNCHANGED <<appVars, outbox, ledger, height, claims, permanent, sweepVars, crashes, overrun>>

\* The fate of a transaction nobody waits for: written if valid, else dropped.
LimboSettles(t) ==
    /\ t \in limbo
    /\ limbo' = limbo \ {t}
    /\ IF Valid(t.id, t.at) THEN WriteLedger(t.id) ELSE UNCHANGED <<ledger, height>>
    /\ UNCHANGED <<appVars, outbox, workerVars, sweepVars, boundVars, overrun>>

\* Mutant: any rejected submit is taken for a harmless duplicate.
CheckAssumesDuplicate(w) ==
    /\ pc[w] = "check"
    /\ pc' = [pc EXCEPT ![w] = "confirm"]
    /\ UNCHANGED <<appVars, outbox, fabricVars, claims, endorsed, permanent,
                   sweepVars, boundVars, overrun>>

\* evaluateTransaction('GetCommitment') after a failed submit: a commitment
\* with the same immutable fields counts as confirmed; one that differs
\* (COMMITMENT_CONFLICT) or none is an error.
CheckExisting(w) ==
    /\ pc[w] = "check"
    /\ pc' = [pc EXCEPT ![w] =
                 IF ledger[Head(claims[w])] = "same" THEN "confirm" ELSE "attempts"]
    /\ UNCHANGED <<appVars, outbox, fabricVars, claims, endorsed, permanent,
                   sweepVars, boundVars, overrun>>

CheckFails(w) ==
    /\ pc[w] = "check"
    /\ Fault
    /\ pc' = [pc EXCEPT ![w] = "attempts"]
    /\ UNCHANGED <<appVars, outbox, fabricVars, claims, endorsed, permanent,
                   sweepVars, crashes, overrun>>

\* The record is done with: on to the next claim, or the poll is over.
NextRecord(w) ==
    /\ claims' = [claims EXCEPT ![w] = Tail(@)]
    /\ pc' = [pc EXCEPT ![w] = IF Tail(claims[w]) = <<>> THEN "idle" ELSE "submit"]

Confirm(w) ==
    /\ pc[w] = "confirm"
    /\ SetStatus(Head(claims[w]), "CONFIRMED")
    /\ NextRecord(w)
    /\ UNCHANGED <<appVars, fabricVars, endorsed, permanent, sweepVars, boundVars, overrun>>

\* The CONFIRMED write fails inside the try block, so the catch block runs.
ConfirmLost(w) ==
    /\ pc[w] = "confirm"
    /\ Fault
    /\ pc' = [pc EXCEPT ![w] = "attempts"]
    /\ UNCHANGED <<appVars, outbox, fabricVars, claims, endorsed, permanent,
                   sweepVars, crashes, overrun>>

\* The catch block reads attemptCount first and writes the status afterwards.
ReadAttempts(w) ==
    /\ pc[w] = "attempts"
    /\ permanent' = [permanent EXCEPT ![w] =
                        outbox[Head(claims[w])].attempts >= MaxAttempts]
    /\ pc' = [pc EXCEPT ![w] = "fail"]
    /\ UNCHANGED <<appVars, outbox, fabricVars, claims, endorsed, sweepVars, boundVars, overrun>>

Fail(w) ==
    /\ pc[w] = "fail"
    /\ SetStatus(Head(claims[w]), IF permanent[w] THEN "FAILED" ELSE "PENDING")
    /\ permanent' = [permanent EXCEPT ![w] = FALSE]
    /\ NextRecord(w)
    /\ UNCHANGED <<appVars, fabricVars, endorsed, sweepVars, boundVars, overrun>>

\* The lease runs out: 120 s, against up to 150 s of Fabric timeouts for each
\* of up to BatchSize records, so that a poll may still be busy with it.
LeaseRunsOut(c) ==
    /\ outbox[c].lease = "running"
    /\ outbox' = [outbox EXCEPT ![c].lease = "expired"]
    /\ overrun' = overrun \cup {d \in {c} : \E w \in Invocations : d \in Claimed(w)}
    /\ UNCHANGED <<appVars, fabricVars, workerVars, sweepVars, boundVars>>

-----------------------------------------------------------------------------
(* The reconciliation sweep of process p (reconcileUncommittedEntities).   *)

\* Mutant: the filter asks for the lease only.
ResetUnleased(p) ==
    /\ rpc[p] = "idle"
    /\ outbox' = [c \in Commitments |->
                    IF c \in Recorded /\ outbox[c].lease # "running"
                    THEN Pending(c, outbox[c].attempts)
                    ELSE outbox[c]]
    /\ rpc' = [rpc EXCEPT ![p] = "scan"]
    /\ UNCHANGED <<appVars, fabricVars, workerVars, audit, looking, boundVars, overrun>>

\* Step 1: PROCESSING records whose lease ran out go back to PENDING; their
\* attempt count stays.
ResetExpired(p) ==
    /\ rpc[p] = "idle"
    /\ outbox' = [c \in Commitments |->
                    IF outbox[c].status = "PROCESSING" /\ outbox[c].lease = "expired"
                    THEN Pending(c, outbox[c].attempts)
                    ELSE outbox[c]]
    /\ rpc' = [rpc EXCEPT ![p] = "scan"]
    /\ UNCHANGED <<appVars, fabricVars, workerVars, audit, looking, boundVars, overrun>>

\* Where the sweep goes with these records of its list left.
NextAudit(S) == IF S = {} THEN "refill" ELSE "audit"

Failed == {c \in Commitments : outbox[c].status = "FAILED"}

\* Step 2: the FAILED records, as they are now.
ScanFailed(p) ==
    /\ rpc[p] = "scan"
    /\ audit' = [audit EXCEPT ![p] = Failed]
    /\ rpc' = [rpc EXCEPT ![p] = NextAudit(Failed)]
    /\ UNCHANGED <<appVars, outbox, fabricVars, workerVars, looking, boundVars, overrun>>

\* getCommitment: a commitment under this id, whatever its contents, or none.
AuditRead(p) ==
    /\ rpc[p] = "audit"
    /\ \E c \in audit[p] :
          /\ audit' = [audit EXCEPT ![p] = @ \ {c}]
          /\ looking' = [looking EXCEPT ![p] = c]
          /\ \/ /\ rpc' = [rpc EXCEPT ![p] = IF ledger[c] = "absent" THEN "missing"
                                                                     ELSE "found"]
                /\ UNCHANGED faults
             \/ Fault /\ rpc' = [rpc EXCEPT ![p] = "missing"]
    /\ UNCHANGED <<appVars, outbox, fabricVars, workerVars, crashes, overrun>>

AuditWrite(p) ==
    /\ \/ rpc[p] = "found" /\ SetStatus(looking[p], "CONFIRMED")
       \/ rpc[p] = "missing" /\ SetRetry(looking[p])
    /\ rpc' = [rpc EXCEPT ![p] = NextAudit(audit[p])]
    /\ looking' = [looking EXCEPT ![p] = "nothing"]
    /\ overrun' = overrun \cup {c \in {looking[p]} : outbox[c].status # "FAILED"}
    /\ UNCHANGED <<appVars, fabricVars, workerVars, audit, boundVars>>

\* Mutant: the sweep re-creates Result records only.
MissingResults == ((saved \cap Reconciled) \ Structural) \ Recorded

\* Steps 3 to 5: enqueue what is stored but has no record at all.
Missing == (saved \cap Reconciled) \ Recorded

Refill(p) ==
    /\ rpc[p] = "refill"
    /\ \E c \in Missing : CreateRecord(c)
    /\ UNCHANGED <<appVars, fabricVars, workerVars, sweepVars, boundVars, overrun>>

EndSweep(p) ==
    /\ rpc[p] = "refill"
    /\ Missing = {}
    /\ rpc' = [rpc EXCEPT ![p] = "idle"]
    /\ UNCHANGED <<appVars, outbox, fabricVars, workerVars, audit, looking, boundVars, overrun>>

-----------------------------------------------------------------------------
(* Another client of the channel commits under an id of ours.              *)

ForeignCommit(c) ==
    /\ c \in Foreign
    /\ ledger[c] = "absent"
    /\ ledger' = [ledger EXCEPT ![c] = "other"]
    /\ height' = height + 1
    /\ UNCHANGED <<appVars, outbox, limbo, workerVars, sweepVars, boundVars, overrun>>

-----------------------------------------------------------------------------
(* Crashes.                                                                *)

Busy(w) == pc[w] \in {"attempts", "fail"} \/ (pc[w] = "idle" /\ claims[w] # <<>>)

\* A database call outside the try block throws: the poll ends there and the
\* records it had claimed stay PROCESSING.
Abandon(w) ==
    /\ Busy(w)
    /\ crashes < MaxCrashes
    /\ crashes' = crashes + 1
    /\ pc' = [pc EXCEPT ![w] = "idle"]
    /\ claims' = [claims EXCEPT ![w] = <<>>]
    /\ permanent' = [permanent EXCEPT ![w] = FALSE]
    /\ UNCHANGED <<appVars, outbox, fabricVars, endorsed, sweepVars, faults, overrun>>

\* A process dies with its polls, its sweep and the handlers it was running;
\* what MongoDB and Fabric were sent stays sent.
Crash(p) ==
    LET dead == {w \in Invocations : ProcessOf[w] = p} IN
    /\ crashes < MaxCrashes
    /\ crashes' = crashes + 1
    /\ limbo' = limbo \cup {Orphan(w) : w \in {v \in dead : pc[v] = "commit"}}
    /\ pc' = [w \in Invocations |-> IF w \in dead THEN "idle" ELSE pc[w]]
    /\ claims' = [w \in Invocations |-> IF w \in dead THEN <<>> ELSE claims[w]]
    /\ endorsed' = [w \in Invocations |-> IF w \in dead THEN 0 ELSE endorsed[w]]
    /\ permanent' = [w \in Invocations |-> w \notin dead /\ permanent[w]]
    /\ rpc' = [rpc EXCEPT ![p] = "idle"]
    /\ audit' = [audit EXCEPT ![p] = {}]
    /\ looking' = [looking EXCEPT ![p] = "nothing"]
    /\ \E lost \in SUBSET enqueuing : enqueuing' = enqueuing \ lost
    /\ UNCHANGED <<saved, outbox, ledger, height, faults, overrun>>

-----------------------------------------------------------------------------
Application == \E c \in Commitments : Save(c) \/ Enqueue(c) \/ EnqueueLost(c)

Worker(w) ==
    \/ Claim(w) \/ EndClaims(w)
    \/ Endorse(w) \/ EndorseFails(w) \/ NotConnected(w)
    \/ Committed(w) \/ Invalidated(w) \/ CommitTimeout(w)
    \/ CheckExisting(w) \/ CheckFails(w)
    \/ Confirm(w) \/ ConfirmLost(w) \/ ReadAttempts(w) \/ Fail(w)

Sweep(p) ==
    \/ ResetExpired(p) \/ ScanFailed(p) \/ AuditRead(p) \/ AuditWrite(p)
    \/ Refill(p) \/ EndSweep(p)

Time == \E c \in Commitments : LeaseRunsOut(c)

Channel == (\E t \in limbo : LimboSettles(t)) \/ (\E c \in Commitments : ForeignCommit(c))

Crashes == \/ \E w \in Invocations : Abandon(w)
           \/ \E p \in Processes : Crash(p)

Next ==
    \/ Application
    \/ \E w \in Invocations : Worker(w)
    \/ \E p \in Processes : Sweep(p)
    \/ Time
    \/ Channel
    \/ Crashes

Spec == Init /\ [][Next]_vars

\* Timers fire and calls return: each poll and each sweep goes on, a handler
\* that has begun goes on to its enqueue, and leases run out.
Fairness ==
    /\ \A c \in Commitments : WF_vars(Enqueue(c)) /\ WF_vars(LeaseRunsOut(c))
    /\ \A w \in Invocations : WF_vars(Worker(w))
    /\ \A p \in Processes : WF_vars(Sweep(p))

FairSpec == Spec /\ Fairness

-----------------------------------------------------------------------------
(* What the outbox promises.                                               *)

\* A record is CONFIRMED only if the ledger holds a commitment under its id,
\* whichever of the worker, the catch-block check and the sweep confirmed it.
ConfirmedOnLedger ==
    \A c \in Commitments : outbox[c].status = "CONFIRMED" => ledger[c] # "absent"

\* What the worker confirms is on the ledger with the record's own fields, which
\* createCommitment compares when the id is taken.  Only the sweep, which looks
\* a FAILED record up by its id, may confirm what somebody else has committed.
FoundBySweep(c) == \E p \in Processes : rpc[p] = "found" /\ looking[p] = c /\ rpc'[p] # "found"

ConfirmedMatches ==
    [][\A c \in Commitments :
          outbox[c].status # "CONFIRMED" /\ outbox'[c].status = "CONFIRMED"
          => ledger[c] = "same" \/ FoundBySweep(c)]_vars

\* The lease is a lock: a record some poll still has to process is PROCESSING,
\* and no second poll has claimed it as well, until its lease runs out under
\* a poll or a sweep writes to it from a list that is out of date.
LeaseIsALock ==
    \A v, w \in Invocations :
        /\ \A c \in Claimed(w) \ overrun : outbox[c].status = "PROCESSING"
        /\ v # w => Claimed(v) \cap Claimed(w) \subseteq overrun

\* Nothing else than these two takes a CONFIRMED record back.
ConfirmedStays ==
    [][\A c \in Commitments \ overrun' :
          outbox[c].status = "CONFIRMED" => outbox'[c].status = "CONFIRMED"]_vars

\* A record that waits and has no attempt left: no poll may claim it, nobody counts
\* it as failed.  A crash in the last attempt leaves one behind, or a poll that
\* writes PENDING when another has spent the last attempt.
Stuck(c) == /\ outbox[c].status = "PENDING" /\ outbox[c].attempts = MaxAttempts
            /\ crashes > 0 \/ c \in overrun

\* Every stored batch, exam or result whose kind the sweep knows is in the end
\* CONFIRMED for good, however often calls to Fabric and MongoDB, the enqueue among
\* them, failed on the way (finitely often), and whatever late polls and sweeps wrote,
\* unless it is left stuck.
SavedIsConfirmed ==
    \A c \in Reconciled : c \in saved ~> []((outbox[c].status = "CONFIRMED") \/ Stuck(c))

-----------------------------------------------------------------------------
(* Why ConfirmedOnLedger holds: whoever is about to write CONFIRMED has    *)
(* seen the commitment on the ledger, and the ledger forgets nothing.      *)

Processing(w) == pc[w] # "idle"

AboutToConfirm ==
    /\ \A w \in Invocations :
          /\ Processing(w) => claims[w] # <<>>
          /\ pc[w] = "confirm" => ledger[Head(claims[w])] = "same"
    /\ \A p \in Processes :
          /\ rpc[p] \in {"found", "missing"} => looking[p] \in Commitments
          /\ rpc[p] = "found" => ledger[looking[p]] # "absent"

IInv == TypeOK /\ AboutToConfirm /\ ConfirmedOnLedger
=============================================================================
