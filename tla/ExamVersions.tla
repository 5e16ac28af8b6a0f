---------------------------- MODULE ExamVersions ----------------------------
(***************************************************************************)
(* The versions of one exam's commitment, and the verification that        *)
(* compares the stored exam with the newest of them:                       *)
(*                                                                         *)
(*   backend/src/controllers/exam.controllers.js     createExam            *)
(*   backend/src/controllers/admin.controllers.js    updateExamStatus      *)
(*   backend/src/Services/integrityOutbox.service.js worker, sweep and     *)
(*                                                   recommit job          *)
(*   backend/src/Services/integrityVerification.service.js  verifyExam     *)
(*   backend/src/Services/integrityWatcher.service.js       checkIntegrity *)
(*                                                                         *)
(* What is hashed of an exam (title, questions, duration, schedule) is a   *)
(* number: every write that changes it makes a new one, and the hash of a  *)
(* content is the content.  IntegrityOutbox models leases, attempts and    *)
(* Fabric's validation; here a record that fails is PENDING or FAILED, and *)
(* a submission writes the ledger in one step.                             *)
(***************************************************************************)
EXTENDS Naturals, FiniteSets, FiniteSetsExt

CONSTANTS
    Admins,      \* requests of updateExamStatus that may be in progress
    Workers,     \* polls of the outbox worker
    Jobs,        \* recommit jobs
    Checks,      \* verifications in progress
    Tampering,   \* the exam may also be written past the application
    MaxWrites,   \* bound on the writes of the exam
    MaxEvents    \* bound on the rest: enqueues that are lost, submissions that
                 \* fail, runners that die, recommit jobs and verifications

ASSUME BoundAssumption == MaxWrites \in Nat /\ MaxEvents \in Nat
ASSUME RunnerAssumption == Workers \cap Jobs = {}
ASSUME TamperingAssumption == Tampering \in BOOLEAN

VARIABLES
    exam,      \* what is hashed of the stored exam
    contents,  \* how many contents it has had
    creating,  \* createExam has not reached its enqueue
    outbox,    \* the exam's IntegrityOutbox records, by version
    ledger,    \* the hash the channel holds for each version
    request,   \* where each updateExamStatus is, and what it has read
    pc,        \* where each poll and each recommit job is
    at,        \* the version it works on
    phase,     \* the recommit jobs: off, reset, or looping over todo
    todo,      \* versions a job still has to commit
    running,   \* _recommitJob.status = 'running'
    sweep,     \* what the reconciler has read
    check,     \* where each verification is, and what it has read
    writes,    \* writes of the exam so far, its creation aside
    events     \* other events so far

examVars   == <<exam, contents, creating>>
commitVars == <<outbox, ledger>>
jobVars    == <<phase, todo, running>>
runVars    == <<pc, at, jobVars>>
boundVars  == <<writes, events>>
vars == <<examVars, commitVars, request, runVars, sweep, check, boundVars>>

None     == 0
Versions == 1..(MaxWrites + 1)
Contents == 1..(MaxWrites + 1)
Runners  == Workers \cup Jobs

Record == [status: {"NONE", "PENDING", "PROCESSING", "CONFIRMED", "FAILED"},
           hash: Contents \cup {None}, prev: Contents \cup {None}]
NoRecord   == [status |-> "NONE", hash |-> None, prev |-> None]
NoRequest  == [at |-> "idle", doc |-> None, version |-> 1, prev |-> None]
NoCheck    == [at |-> "idle", doc |-> None, version |-> 1]
IdleSweep  == [at |-> "idle", version |-> 1, doc |-> None]

TypeOK ==
    /\ contents \in Contents
    /\ contents <= writes + 1
    /\ exam \in 1..contents
    /\ creating \in BOOLEAN
    /\ outbox \in [Versions -> Record]
    /\ ledger \in [Versions -> Contents \cup {None}]
    /\ request \in [Admins -> [at: {"idle", "latest", "enqueue"},
                               doc: Contents \cup {None}, version: Versions,
                               prev: Contents \cup {None}]]
    /\ pc \in [Runners -> {"idle", "poll", "submit", "confirm", "fail"}]
    /\ at \in [Runners -> Versions]
    /\ phase \in [Jobs -> {"off", "reset", "loop"}]
    /\ todo \in [Jobs -> SUBSET Versions]
    /\ running \in BOOLEAN
    /\ sweep \in [at: {"idle", "found", "missing", "refill"},
                  version: Versions, doc: Contents \cup {None}]
    /\ check \in [Checks -> [at: {"idle", "version", "ask", "pending", "valid", "alarm"},
                             doc: Contents \cup {None}, version: Versions]]
    /\ writes \in 0..MaxWrites
    /\ events \in 0..MaxEvents

Init ==
    /\ exam = 1
    /\ contents = 1
    /\ creating = TRUE
    /\ outbox = [v \in Versions |-> NoRecord]
    /\ ledger = [v \in Versions |-> None]
    /\ request = [a \in Admins |-> NoRequest]
    /\ pc = [r \in Runners |-> "idle"]
    /\ at = [r \in Runners |-> 1]
    /\ phase = [j \in Jobs |-> "off"]
    /\ todo = [j \in Jobs |-> {}]
    /\ running = FALSE
    /\ sweep = IdleSweep
    /\ check = [k \in Checks |-> NoCheck]
    /\ writes = 0
    /\ events = 0

\* One of the events MaxEvents bounds.
Event == events < MaxEvents /\ events' = events + 1

-----------------------------------------------------------------------------
(* The collection.                                                         *)

HasStatus(S)  == {v \in Versions : outbox[v].status \in S}
Recorded      == HasStatus({"PENDING", "PROCESSING", "CONFIRMED", "FAILED"})
Confirmed     == HasStatus({"CONFIRMED"})
SetStatus(v, s) == outbox' = [outbox EXCEPT ![v].status = s]

\* Mutant: without a CONFIRMED version the count starts at 0.
LatestOrZero == IF Confirmed = {} THEN 0 ELSE Max(Confirmed)

\* The newest CONFIRMED version; both updateExamStatus and verifyExam take 1
\* when there is none.
LatestVersion == IF Confirmed = {} THEN 1 ELSE Max(Confirmed)

\* Mutant: a record that is there already is overwritten.
OverwriteRecord(v, doc, prev) ==
    outbox' = [outbox EXCEPT ![v] = [status |-> "PENDING", hash |-> doc, prev |-> prev]]

\* enqueueCommitment: the unique index on the commitment id refuses a version
\* that is recorded already, and the refusal is swallowed.
CreateRecord(v, doc, prev) ==
    outbox' = IF v \in Recorded THEN outbox
              ELSE [outbox EXCEPT ![v] = [status |-> "PENDING", hash |-> doc,
                                          prev |-> prev]]

-----------------------------------------------------------------------------
(* The handlers that write the exam.                                       *)

\* createExam and createExamination enqueue version 1 once the exam is stored.
EnqueueFirst ==
    /\ creating
    /\ creating' = FALSE
    /\ CreateRecord(1, exam, None)
    /\ UNCHANGED <<exam, contents, ledger, request, runVars, sweep, check, boundVars>>

\* The enqueue fails, which is only logged, or its process dies.
EnqueueFirstLost ==
    /\ creating
    /\ Event
    /\ creating' = FALSE
    /\ UNCHANGED <<exam, contents, commitVars, request, runVars, sweep, check, writes>>

\* One of the writes MaxWrites bounds.
Write == writes < MaxWrites /\ writes' = writes + 1

NewContent ==
    /\ exam' = contents + 1
    /\ contents' = contents + 1

\* findByIdAndUpdate: a new schedule or duration changes what is hashed, a mere
\* change of status does not; the handler keeps the document it gets back.
UpdateExam(a) ==
    /\ request[a].at = "idle"
    /\ Write
    /\ NewContent \/ UNCHANGED <<exam, contents>>
    /\ request' = [request EXCEPT ![a] = [NoRequest EXCEPT !.at = "latest", !.doc = exam']]
    /\ UNCHANGED <<creating, commitVars, runVars, sweep, check, events>>

\* Mutant: the next version follows the newest recorded one, confirmed or not.
ReadNewest(a) ==
    LET newest == IF Recorded = {} THEN 1 ELSE Max(Recorded) IN
    /\ request[a].at = "latest"
    /\ newest + 1 \in Versions
    /\ request' = [request EXCEPT ![a].at = "enqueue", ![a].version = newest + 1,
                                  ![a].prev = outbox[newest].hash]
    /\ UNCHANGED <<examVars, commitVars, runVars, sweep, check, boundVars>>

\* The newest CONFIRMED record gives the next version and the previous hash
\* ('' without one).  MaxWrites bounds the versions there can be.
ReadLatest(a) ==
    /\ request[a].at = "latest"
    /\ LatestVersion + 1 \in Versions
    /\ request' = [request EXCEPT ![a].at = "enqueue",
                      ![a].version = LatestVersion + 1,
                      ![a].prev = IF Confirmed = {} THEN None
                                  ELSE outbox[LatestVersion].hash]
    /\ UNCHANGED <<examVars, commitVars, runVars, sweep, check, boundVars>>

EndRequest(a) == request' = [request EXCEPT ![a] = NoRequest]

EnqueueNext(a) ==
    /\ request[a].at = "enqueue"
    /\ CreateRecord(request[a].version, request[a].doc, request[a].prev)
    /\ EndRequest(a)
    /\ UNCHANGED <<examVars, ledger, runVars, sweep, check, boundVars>>

\* Either database call fails, which is only logged, or the process dies.
EnqueueNextLost(a) ==
    /\ request[a].at # "idle"
    /\ Event
    /\ EndRequest(a)
    /\ UNCHANGED <<examVars, commitVars, runVars, sweep, check, writes>>

\* A write of the stored exam that no handler made.
EditExam ==
    /\ Tampering
    /\ Write
    /\ NewContent
    /\ UNCHANGED <<creating, commitVars, request, runVars, sweep, check, events>>

-----------------------------------------------------------------------------
(* The polls of the worker and the recommit jobs.                          *)

\* PENDING, or PROCESSING under a lease that ran out, which any lease may.
Claimable == HasStatus({"PENDING", "PROCESSING"})

\* A runner at work on a record.
Busy(r) == pc[r] \in {"submit", "confirm", "fail"}

TakeUp(r, v) ==
    /\ SetStatus(v, "PROCESSING")
    /\ pc' = [pc EXCEPT ![r] = "submit"]
    /\ at' = [at EXCEPT ![r] = v]

\* A poll does not begin while a recommit job is running; one that has begun
\* claims all the same.
Poll(w) ==
    /\ pc[w] = "idle"
    /\ ~running
    /\ pc' = [pc EXCEPT ![w] = "poll"]
    /\ UNCHANGED <<examVars, commitVars, request, at, jobVars, sweep, check, boundVars>>

EndPoll(w) ==
    /\ pc[w] = "poll"
    /\ Claimable = {}
    /\ pc' = [pc EXCEPT ![w] = "idle"]
    /\ UNCHANGED <<examVars, commitVars, request, at, jobVars, sweep, check, boundVars>>

Claim(w) ==
    /\ pc[w] = "poll"
    /\ \E v \in Claimable : TakeUp(w, v)
    /\ UNCHANGED <<examVars, ledger, request, jobVars, sweep, check, boundVars>>

\* createCommitment: the commitment is written, or one with the same fields is
\* there already; one with other fields is a conflict.
Submit(r) ==
    /\ pc[r] = "submit"
    /\ ledger' = IF ledger[at[r]] = None THEN [ledger EXCEPT ![at[r]] = outbox[at[r]].hash]
                 ELSE ledger
    /\ pc' = [pc EXCEPT ![r] = IF ledger'[at[r]] = outbox[at[r]].hash THEN "confirm"
                               ELSE "fail"]
    /\ UNCHANGED <<examVars, outbox, request, at, jobVars, sweep, check, boundVars>>

\* The call fails, whether or not the transaction is ordered all the same.
SubmitFails(r) ==
    /\ pc[r] = "submit"
    /\ Event
    /\ \/ UNCHANGED ledger
       \/ /\ ledger[at[r]] = None
          /\ ledger' = [ledger EXCEPT ![at[r]] = outbox[at[r]].hash]
    /\ pc' = [pc EXCEPT ![r] = "fail"]
    /\ UNCHANGED <<examVars, outbox, request, at, jobVars, sweep, check, writes>>

Release(r, s) ==
    /\ SetStatus(at[r], s)
    /\ pc' = [pc EXCEPT ![r] = "idle"]
    /\ at' = [at EXCEPT ![r] = 1]
    /\ UNCHANGED <<examVars, ledger, request, jobVars, sweep, check, boundVars>>

\* The status is written by _id alone, whatever happened to the record since.
Confirm(r) == pc[r] = "confirm" /\ Release(r, "CONFIRMED")

\* The worker gives up when the attempts are spent, the job at once.
Fail(r) ==
    /\ pc[r] = "fail"
    /\ \/ Release(r, "FAILED")
       \/ r \in Workers /\ Release(r, "PENDING")

\* The process dies, or a database call fails, and the record stays as it is.
Abandon(r) ==
    /\ Busy(r)
    /\ Event
    /\ pc' = [pc EXCEPT ![r] = "idle"]
    /\ at' = [at EXCEPT ![r] = 1]
    /\ UNCHANGED <<examVars, commitVars, request, jobVars, sweep, check, writes>>

-----------------------------------------------------------------------------
(* startRecommitJob.  Its guard reads the flag long before the flag is set. *)

\* The records the modes reset: every one, the unfinished ones, none.
ResetSets == {Recorded, HasStatus({"PROCESSING", "FAILED"}), {}}

StartJob(j) ==
    /\ phase[j] = "off"
    /\ ~running
    /\ Event
    /\ \E S \in ResetSets :
          outbox' = [v \in Versions |-> IF v \in S
                                        THEN [outbox[v] EXCEPT !.status = "PENDING"]
                                        ELSE outbox[v]]
    /\ phase' = [phase EXCEPT ![j] = "reset"]
    /\ UNCHANGED <<examVars, ledger, request, pc, at, todo, running, sweep,
                   check, writes>>

ListPending(j) ==
    /\ phase[j] = "reset"
    /\ phase' = [phase EXCEPT ![j] = "loop"]
    /\ todo' = [todo EXCEPT ![j] = HasStatus({"PENDING"})]
    /\ running' = TRUE
    /\ UNCHANGED <<examVars, commitVars, request, pc, at, sweep, check, boundVars>>

\* The job takes a record over without looking at its status or its lease.
TakeOver(j) ==
    /\ phase[j] = "loop"
    /\ pc[j] = "idle"
    /\ \E v \in todo[j] : TakeUp(j, v) /\ todo' = [todo EXCEPT ![j] = @ \ {v}]
    /\ UNCHANGED <<examVars, ledger, request, phase, running, sweep,
                   check, boundVars>>

\* The list is done with, or an admin asked the job to stop.
EndJob(j) ==
    /\ phase[j] = "loop"
    /\ pc[j] = "idle"
    /\ phase' = [phase EXCEPT ![j] = "off"]
    /\ todo' = [todo EXCEPT ![j] = {}]
    /\ running' = FALSE
    /\ UNCHANGED <<examVars, commitVars, request, pc, at, sweep, check, boundVars>>

-----------------------------------------------------------------------------
(* The reconciler.                                                         *)

\* getCommitment for a FAILED record; an error counts as missing.
AuditFailed ==
    /\ sweep.at = "idle"
    /\ \E v \in HasStatus({"FAILED"}) :
          \/ /\ sweep' = [sweep EXCEPT !.version = v,
                             !.at = IF ledger[v] = None THEN "missing" ELSE "found"]
             /\ UNCHANGED events
          \/ Event /\ sweep' = [sweep EXCEPT !.version = v, !.at = "missing"]
    /\ UNCHANGED <<examVars, commitVars, request, runVars, check, writes>>

SettleFailed ==
    /\ \/ sweep.at = "found" /\ SetStatus(sweep.version, "CONFIRMED")
       \/ sweep.at = "missing" /\ SetStatus(sweep.version, "PENDING")
    /\ sweep' = IdleSweep
    /\ UNCHANGED <<examVars, ledger, request, runVars, check, boundVars>>

\* Step 5 reads the exam, then the recorded ids, and enqueues version 1, and
\* only version 1, where it is missing.
ReadUncommitted ==
    /\ sweep.at = "idle"
    /\ 1 \notin Recorded
    /\ sweep' = [IdleSweep EXCEPT !.at = "refill", !.doc = exam]
    /\ UNCHANGED <<examVars, commitVars, request, runVars, check, boundVars>>

Refill ==
    /\ sweep.at = "refill"
    /\ CreateRecord(1, sweep.doc, None)
    /\ sweep' = IdleSweep
    /\ UNCHANGED <<examVars, ledger, request, runVars, check, boundVars>>

-----------------------------------------------------------------------------
(* The watcher's check of the exam.  Any update of the exam, and a request *)
(* of the integrity endpoints at any time, starts verifyExam.              *)

\* The version has done its service once the ledger has answered.
Proceed(k, step) == check' = [check EXCEPT ![k].at = step, ![k].version = 1]
Finish(k)        == check' = [check EXCEPT ![k] = NoCheck]

ReadExam(k) ==
    /\ check[k].at = "idle"
    /\ Event
    /\ check' = [check EXCEPT ![k] = [at |-> "version", doc |-> exam, version |-> 1]]
    /\ UNCHANGED <<examVars, commitVars, request, runVars, sweep, writes>>

ReadVersion(k) ==
    /\ check[k].at = "version"
    /\ check' = [check EXCEPT ![k].at = "ask", ![k].version = LatestVersion]
    /\ UNCHANGED <<examVars, commitVars, request, runVars, sweep, boundVars>>

Verdict(k) == IF ledger[check[k].version] = None THEN "COMMITMENT_NOT_FOUND"
              ELSE IF ledger[check[k].version] = check[k].doc THEN "HASH_MATCH"
              ELSE "HASH_MISMATCH"

\* Mutant: a commitment the ledger does not have does not speak against the exam.
AskLeniently(k) ==
    /\ check[k].at = "ask"
    /\ Proceed(k, IF Verdict(k) = "HASH_MISMATCH" THEN "pending" ELSE "valid")
    /\ UNCHANGED <<examVars, commitVars, request, runVars, sweep, boundVars>>

\* Mutant: a missing commitment is announced like a wrong one.
AskStrictly(k) ==
    /\ check[k].at = "ask"
    /\ Proceed(k, IF Verdict(k) = "HASH_MATCH" THEN "valid" ELSE "pending")
    /\ UNCHANGED <<examVars, commitVars, request, runVars, sweep, boundVars>>

\* verifyCommitment: only a mismatch is followed up.
AskLedger(k) ==
    /\ check[k].at = "ask"
    /\ \/ Verdict(k) = "HASH_MATCH" /\ Proceed(k, "valid")
       \/ Verdict(k) = "HASH_MISMATCH" /\ Proceed(k, "pending")
       \/ Verdict(k) = "COMMITMENT_NOT_FOUND" /\ Finish(k)
    /\ UNCHANGED <<examVars, commitVars, request, runVars, sweep, boundVars>>

\* The call fails: the reason is the error's code and nobody is told.
AskFails(k) ==
    /\ check[k].at = "ask"
    /\ Finish(k)
    /\ UNCHANGED <<examVars, commitVars, request, runVars, sweep, boundVars>>

\* The mismatch is put down to an update on its way, or announced.
LookForPending(k) ==
    /\ check[k].at = "pending"
    /\ IF HasStatus({"PENDING", "PROCESSING"}) = {} THEN Proceed(k, "alarm") ELSE Finish(k)
    /\ UNCHANGED <<examVars, commitVars, request, runVars, sweep, boundVars>>

EndCheck(k) ==
    /\ check[k].at \in {"valid", "alarm"}
    /\ Finish(k)
    /\ UNCHANGED <<examVars, commitVars, request, runVars, sweep, boundVars>>

-----------------------------------------------------------------------------
Request(a) == UpdateExam(a) \/ ReadLatest(a) \/ EnqueueNext(a) \/ EnqueueNextLost(a)

Polling(w) == Poll(w) \/ EndPoll(w) \/ Claim(w)

Run(r) == Submit(r) \/ SubmitFails(r) \/ Confirm(r) \/ Fail(r) \/ Abandon(r)

Job(j) == StartJob(j) \/ ListPending(j) \/ TakeOver(j) \/ EndJob(j)

Sweep == AuditFailed \/ SettleFailed \/ ReadUncommitted \/ Refill

Verification(k) == \/ ReadExam(k) \/ ReadVersion(k) \/ AskLedger(k) \/ AskFails(k)
                   \/ LookForPending(k) \/ EndCheck(k)

Next ==
    \/ EnqueueFirst \/ EnqueueFirstLost \/ EditExam
    \/ \E a \in Admins : Request(a)
    \/ \E w \in Workers : Polling(w)
    \/ \E r \in Runners : Run(r)
    \/ \E j \in Jobs : Job(j)
    \/ Sweep
    \/ \E k \in Checks : Verification(k)

Spec == Init /\ [][Next]_vars

-----------------------------------------------------------------------------
(* What the versions and their verification promise.                       *)

\* A record is CONFIRMED only when the ledger holds its own hash, through every
\* reset, takeover and audit (createCommitment, the sweep, startRecommitJob).
ConfirmedVersionHolds ==
    \A v \in Confirmed : ledger[v] = outbox[v].hash /\ ledger[v] # None

\* The hash chain of the versions: from version 3 on, a version on the ledger
\* follows one that is on the ledger, and its previousCommitmentHash is that
\* one's hash (updateExamStatus).  Version 2 may follow nothing.
Follows(v, prev) == \/ ledger[v - 1] # None /\ prev = ledger[v - 1]
                    \/ v = 2 /\ prev = None

LedgerIsChained ==
    \A v \in Versions : ledger[v] # None /\ v > 1 => Follows(v, outbox[v].prev)

\* verifyExam reports an exam valid only for a content that some handler or the
\* sweep enqueued and that the ledger holds; an edit nobody enqueued never is.
ValidIsCommitted ==
    \A k \in Checks :
        check[k].at = "valid" => \E v \in Recorded : /\ ledger[v] = check[k].doc
                                                     /\ outbox[v].hash = check[k].doc

\* The watcher announces a breach only when the ledger holds, for some version,
\* another content than the exam it has read (checkIntegrity).
AlarmHasEvidence ==
    \A k \in Checks :
        check[k].at = "alarm" => \E v \in Versions : ledger[v] \notin {None, check[k].doc}

-----------------------------------------------------------------------------
(* Why they hold: the ledger holds only hashes of recorded versions,       *)
(* records keep their fields, and whoever goes on to a write has read, from *)
(* a ledger that forgets nothing, what justifies it.                       *)

RecordsHold ==
    /\ \A v \in Versions : ledger[v] # None => v \in Recorded /\ ledger[v] = outbox[v].hash
    /\ \A v \in Recorded : /\ outbox[v].hash # None
                           /\ v > 1 => Follows(v, outbox[v].prev)
    /\ \A v \in Confirmed : ledger[v] # None

RequestsHold ==
    \A a \in Admins :
        /\ request[a].at # "idle" => request[a].doc # None
        /\ request[a].at = "enqueue" => /\ request[a].version > 1
                                        /\ Follows(request[a].version, request[a].prev)

RunnersHold ==
    /\ \A r \in Runners : /\ Busy(r) => at[r] \in Recorded
                          /\ pc[r] = "confirm" => ledger[at[r]] # None
    /\ \A j \in Jobs : todo[j] \subseteq Recorded

SweepHolds ==
    /\ sweep.at \in {"found", "missing"} => sweep.version \in Recorded
    /\ sweep.at = "found" => ledger[sweep.version] # None
    /\ sweep.at = "refill" => sweep.doc # None

ChecksHold ==
    \A k \in Checks :
        /\ check[k].at # "idle" => check[k].doc # None
        /\ check[k].at = "valid" => \E v \in Versions : ledger[v] = check[k].doc
        /\ check[k].at \in {"pending", "alarm"} =>
              \E v \in Versions : ledger[v] \notin {None, check[k].doc}

IInv == /\ TypeOK /\ RecordsHold /\ RequestsHold /\ RunnersHold /\ SweepHolds
        /\ ChecksHold
=============================================================================
