---------------------------- MODULE ExamAttempt ----------------------------
(***************************************************************************)
(* The attempts of one student at one exam: the Result documents, from the *)
(* moment the exam is opened until a score is stored and its commitment is *)
(* handed to the integrity outbox.                                         *)
(*                                                                         *)
(*   backend/src/controllers/student.controllers.js   open, submit, ping   *)
(*   backend/src/controllers/cheating.controllers.js  incidents, terminate,*)
(*                                                    unblock, new attempt *)
(*   backend/src/Services/examExpiration.service.js   the 30 s worker      *)
(*   backend/src/models/result.models.js              document and index   *)
(*                                                                         *)
(* Each handler is a chain of awaited database calls; each call is a step, *)
(* so requests of one student (several tabs, the 5 s ping, the automatic   *)
(* submit), polls of several backend processes and the admin interleave.   *)
(*                                                                         *)
(* A handler works on the document it loaded.  Mongoose's save() writes    *)
(* only the paths whose value differs from the loaded one, and checks and  *)
(* increments __v only when an array (latestAnswers) was replaced.         *)
(***************************************************************************)
EXTENDS Naturals, FiniteSets

CONSTANTS
    Attempts,       \* Result documents that may come to exist
    Requests,       \* HTTP requests that may be in progress at one time
    Workers,        \* polls of the expiration worker and of the reconciler
    Kinds,          \* handlers that may be called
    Sheets,         \* answer sheets
    Blank,          \* the sheet with no answers
    Score,          \* correct answers on each sheet
    MaxViolations,  \* MAX_VIOLATIONS
    AdminStatuses,  \* statuses an admin may give the exam
    MaxIncidents,   \* bound on the incidents recorded
    Fallible,       \* which calls may fail: "finalize", "enqueue"
    MaxFaults,      \* bound on how many of them do
    MaxCrashes      \* bound on handlers and polls cut off between two calls

AllKinds == {"open", "submit", "ping", "incident", "terminate", "authorize"}

ASSUME SheetAssumption == /\ Blank \in Sheets
                          /\ Score \in [Sheets -> Nat]
                          /\ Score[Blank] = 0
ASSUME BoundAssumption == /\ MaxViolations \in Nat \ {0}
                          /\ MaxIncidents \in Nat
                          /\ MaxFaults \in Nat
                          /\ MaxCrashes \in Nat
ASSUME ActorAssumption == /\ Requests \cap Workers = {}
                          /\ Kinds \subseteq AllKinds
                          /\ Fallible \subseteq {"finalize", "enqueue"}
                          /\ AdminStatuses \subseteq
                                {"Scheduled", "Live", "GracePeriod", "Completed"}

VARIABLES
    examStatus, \* exam.status
    clock,      \* the time, against scheduledAt, endsAt and endsAt + 5 min
    results,    \* Result collection
    incidents,  \* CheatingIncident documents of this student and exam
    blocked,    \* student.isBlocked
    commits,    \* commitments enqueued for the results
    at,         \* the call each handler or poll makes next
    kind,       \* the handler of each request
    id,         \* the Result it has loaded ...
    doc,        \* ... and that document, with what it assigned to it since
    sheet,      \* the answers in the request
    faults,
    crashes,
    unsent      \* history: attempts whose submission could not be enqueued

examVars  == <<examStatus, clock>>
localVars == <<kind, id, doc, sheet>>
boundVars == <<faults, crashes, unsent>>
vars == <<examVars, results, incidents, blocked, commits, at, localVars, boundVars>>

Actors   == Requests \cup Workers
Statuses == {"Scheduled", "Live", "GracePeriod", "Completed"}
Active   == {"Live", "GracePeriod"}
Attempt  == [status : {"Absent", "InProgress", "Completed", "Terminated"},
             terminated : BOOLEAN, reset : BOOLEAN, resetAt : Nat,
             answers : Sheets, score : Nat, version : Nat]
Digest   == [score : Nat, status : {"Absent", "InProgress", "Completed", "Terminated"},
             terminated : BOOLEAN]
Commitment == [attempt : Attempts, version : Nat, holds : Digest,
               owner : {"id", "document"}]
Locations == {"idle", "open", "openFind", "openCreate",
              "submit", "submitExam", "submitExpire", "submitSave",
              "submitEnqueue",
              "ping", "pingAnswers", "pingIncident",
              "incident", "incidentCreate", "incidentLog",
              "terminate", "find", "save", "create", "findAgain", "block",
              "authorize", "authorizeFind", "authorizeSave",
              "start", "grace", "snapshot", "finalize", "finalizeEnqueue", "complete",
              "sweep"}

NoAttempt == [status |-> "Absent", terminated |-> FALSE, reset |-> FALSE,
              resetAt |-> 0, answers |-> Blank, score |-> 0, version |-> 0]

TypeOK ==
    /\ examStatus \in Statuses
    /\ clock \in {"before", "running", "grace", "late"}
    /\ results \in [Attempts -> Attempt]
    /\ incidents \in Nat
    /\ blocked \in BOOLEAN
    /\ commits \subseteq Commitment
    /\ at \in [Actors -> Locations]
    /\ kind \in [Actors -> AllKinds]
    /\ id \in [Actors -> Attempts \cup {"none"}]
    /\ doc \in [Actors -> Attempt]
    /\ sheet \in [Actors -> Sheets]
    /\ faults \in Nat
    /\ crashes \in Nat
    /\ unsent \subseteq Attempts

Existing == {a \in Attempts : results[a].status # "Absent"}
Current  == {a \in Existing : ~results[a].reset}

Init ==
    /\ examStatus = "Scheduled"
    /\ clock = "before"
    /\ results = [a \in Attempts |-> NoAttempt]
    /\ incidents = 0
    /\ blocked = FALSE
    /\ commits = {}
    /\ at = [x \in Actors |-> "idle"]
    /\ kind = [x \in Actors |-> "open"]
    /\ id = [x \in Actors |-> "none"]
    /\ doc = [x \in Actors |-> NoAttempt]
    /\ sheet = [x \in Actors |-> Blank]
    /\ faults = 0
    /\ crashes = 0
    /\ unsent = {}

-----------------------------------------------------------------------------
(* The database operations the handlers use.                               *)

\* The handler's next call is l; it has answered when l is "idle".
Go(x, l) ==
    /\ at' = [at EXCEPT ![x] = l]
    /\ IF l = "idle"
       THEN /\ kind'  = [kind EXCEPT ![x] = "open"]
            /\ id'    = [id EXCEPT ![x] = "none"]
            /\ doc'   = [doc EXCEPT ![x] = NoAttempt]
            /\ sheet' = [sheet EXCEPT ![x] = Blank]
       ELSE UNCHANGED localVars

\* Loads document a and goes on to l.
Load(x, a, l) ==
    /\ at'  = [at EXCEPT ![x] = l]
    /\ id'  = [id EXCEPT ![x] = a]
    /\ doc' = [doc EXCEPT ![x] = results[a]]
    /\ UNCHANGED <<kind, sheet>>

\* save(): a path is written when its new value differs from the loaded one.
Written(stored, loaded, new) == IF new = loaded THEN stored ELSE new

Merge(stored, loaded, new) ==
    [status     |-> Written(stored.status, loaded.status, new.status),
     terminated |-> Written(stored.terminated, loaded.terminated, new.terminated),
     reset      |-> Written(stored.reset, loaded.reset, new.reset),
     resetAt    |-> Written(stored.resetAt, loaded.resetAt, new.resetAt),
     answers    |-> Written(stored.answers, loaded.answers, new.answers),
     score      |-> Written(stored.score, loaded.score, new.score),
     version    |-> IF new.answers = loaded.answers THEN stored.version
                                                    ELSE stored.version + 1]

\* Mutant: the save ignores __v.
VersionUnchecked(x, new) == TRUE

\* The __v condition a save that replaces the array carries.
VersionMatches(x, new) ==
    new.answers = doc[x].answers \/ results[id[x]].version = doc[x].version

Store(x, new) == results' = [results EXCEPT ![id[x]] = Merge(@, doc[x], new)]

\* The document as the handler holds it once it is saved.
Saved(x, new) ==
    IF new.answers = doc[x].answers THEN new
                                    ELSE [new EXCEPT !.version = @ + 1]

Terminated(d) == [d EXCEPT !.status = "Terminated", !.terminated = TRUE]

\* Result.create under the partial unique index: at most one document with
\* resetByAdmin = false; a second one is refused with error 11000.
NewAttempt(s) == [NoAttempt EXCEPT !.status = s, !.terminated = (s = "Terminated")]

\* Mutant: no unique index.
CreateUnindexed(s) ==
    \E a \in Attempts \ Existing : results' = [results EXCEPT ![a] = NewAttempt(s)]

Create(s) ==
    IF Current = {}
    THEN \E a \in Attempts \ Existing : results' = [results EXCEPT ![a] = NewAttempt(s)]
    ELSE UNCHANGED results

\* Mutant: every commitment is a version 1.
EnqueueVersionOne(a, v, d, o) ==
    commits' = IF \E c \in commits : c.attempt = a /\ c.version = 1 THEN commits
               ELSE commits \cup
                    {[attempt |-> a, version |-> 1, owner |-> o,
                      holds |-> [score |-> d.score, status |-> d.status,
                                 terminated |-> d.terminated]]}

\* enqueueResultCommitment: the commitment id is derived from __v + 1, and an
\* id that is already in the outbox is left alone.
Enqueue(a, v, d, o) ==
    commits' = IF \E c \in commits : c.attempt = a /\ c.version = v THEN commits
               ELSE commits \cup
                    {[attempt |-> a, version |-> v, owner |-> o,
                      holds |-> [score |-> d.score, status |-> d.status,
                                 terminated |-> d.terminated]]}

\* A call that may fail does.
Fault(call) == call \in Fallible /\ faults < MaxFaults /\ faults' = faults + 1

\* Incidents recorded after the most recent reset by an admin.
StrikesOf(rs, n) ==
    LET resets == {rs[a].resetAt : a \in Attempts}
    IN  n - (CHOOSE m \in resets : \A k \in resets : k <= m)

-----------------------------------------------------------------------------
(* verifyStudentJWT: a request is let in when the student is not blocked.  *)

Recorders == {x \in Requests : kind[x] \in {"incident", "ping"}}

Begin(r) ==
    /\ at[r] = "idle"
    /\ \E k \in Kinds, s \in Sheets :
        /\ k # "authorize" => ~blocked
        /\ k \notin {"submit", "ping"} => s = Blank
        /\ k \in {"incident", "ping"} => incidents + Cardinality(Recorders) < MaxIncidents
        /\ at' = [at EXCEPT ![r] = k]
        /\ kind' = [kind EXCEPT ![r] = k]
        /\ sheet' = [sheet EXCEPT ![r] = s]
    /\ UNCHANGED <<examVars, results, incidents, blocked, commits, id, doc, boundVars>>

-----------------------------------------------------------------------------
(* getExamById                                                             *)

Open(r) ==
    /\ at[r] = "open"
    /\ Go(r, IF examStatus \in Active THEN "openFind" ELSE "idle")
    /\ UNCHANGED <<examVars, results, incidents, blocked, commits, boundVars>>

OpenFind(r) ==
    /\ at[r] = "openFind"
    /\ Go(r, IF Current = {} THEN "openCreate" ELSE "idle")
    /\ UNCHANGED <<examVars, results, incidents, blocked, commits, boundVars>>

OpenCreate(r) ==
    /\ at[r] = "openCreate"
    /\ Create("InProgress")
    /\ Go(r, "idle")
    /\ UNCHANGED <<examVars, incidents, blocked, commits, boundVars>>

-----------------------------------------------------------------------------
(* submitExamResult                                                        *)

Submit(r) ==
    /\ at[r] = "submit"
    /\ \/ \E a \in Current : results[a].status = "InProgress" /\ Load(r, a, "submitExam")
       \/ /\ \A a \in Current : results[a].status # "InProgress"
          /\ Go(r, "idle")
    /\ UNCHANGED <<examVars, results, incidents, blocked, commits, boundVars>>

SubmitExam(r) ==
    /\ at[r] = "submitExam"
    /\ Go(r, CASE examStatus \notin Active -> "idle"
               [] examStatus \in Active /\ clock = "late" -> "submitExpire"
               [] OTHER -> "submitSave")
    /\ UNCHANGED <<examVars, results, incidents, blocked, commits, boundVars>>

\* Too late even for the grace period: "Exam duration exceeded."
SubmitExpire(r) ==
    /\ at[r] = "submitExpire"
    /\ Store(r, Terminated(doc[r]))
    /\ Go(r, "idle")
    /\ UNCHANGED <<examVars, incidents, blocked, commits, boundVars>>

\* Mutant: the score is stored without the answers it was given for.
GradedOnly(d, s) == [d EXCEPT !.status = "Completed", !.score = Score[s]]

Graded(d, s) == [d EXCEPT !.status = "Completed", !.score = Score[s], !.answers = s]

\* The save that replaces latestAnswers; a concurrent replacement makes it
\* fail with a VersionError.
SubmitSave(r) ==
    /\ at[r] = "submitSave"
    /\ LET new == Graded(doc[r], sheet[r])
       IN  IF VersionMatches(r, new)
           THEN /\ Store(r, new)
                /\ at' = [at EXCEPT ![r] = "submitEnqueue"]
                /\ doc' = [doc EXCEPT ![r] = Saved(r, new)]
                /\ UNCHANGED <<kind, id, sheet>>
           ELSE Go(r, "idle") /\ UNCHANGED results
    /\ UNCHANGED <<examVars, incidents, blocked, commits, boundVars>>

SubmitEnqueue(r) ==
    /\ at[r] = "submitEnqueue"
    /\ Enqueue(id[r], doc[r].version + 1, doc[r], "id")
    /\ Go(r, "idle")
    /\ UNCHANGED <<examVars, results, incidents, blocked, boundVars>>

-----------------------------------------------------------------------------
(* pingSession.  All incidents count, whatever an admin has reset.  Below  *)
(* the limit only lastActiveAt is written.                                 *)

PingStrikes == incidents

Ping(r) ==
    /\ at[r] = "ping"
    /\ Go(r, IF PingStrikes < MaxViolations THEN "idle" ELSE "pingAnswers")
    /\ UNCHANGED <<examVars, results, incidents, blocked, commits, boundVars>>

\* One updateOne: the status is checked where the answers are written.
PingAnswers(r) ==
    /\ at[r] = "pingAnswers"
    /\ results' = [a \in Attempts |->
                     IF a \in Current /\ results[a].status = "InProgress"
                     THEN [results[a] EXCEPT !.answers = sheet[r]] ELSE results[a]]
    /\ Go(r, "find")
    /\ UNCHANGED <<examVars, incidents, blocked, commits, boundVars>>

PingIncident(r) ==
    /\ at[r] = "pingIncident"
    /\ incidents' = incidents + 1
    /\ Go(r, "block")
    /\ UNCHANGED <<examVars, results, blocked, commits, boundVars>>

-----------------------------------------------------------------------------
(* recordIncident: counts first, then records.                             *)

Strikes == StrikesOf(results, incidents)

Incident(r) ==
    /\ at[r] = "incident"
    /\ Go(r, IF Strikes + 1 >= MaxViolations THEN "incidentCreate" ELSE "incidentLog")
    /\ UNCHANGED <<examVars, results, incidents, blocked, commits, boundVars>>

IncidentCreate(r) ==
    /\ at[r] \in {"incidentCreate", "incidentLog"}
    /\ incidents' = incidents + 1
    /\ Go(r, IF at[r] = "incidentCreate" THEN "find" ELSE "idle")
    /\ UNCHANGED <<examVars, results, blocked, commits, boundVars>>

-----------------------------------------------------------------------------
(* terminateAttempt looks for any document of the student and the exam,    *)
(* reset or not, and which one findOne returns is up to the query plan.    *)

Terminate(r) ==
    /\ at[r] = "terminate"
    /\ \/ \E a \in Existing :
            IF results[a].terminated THEN Go(r, "idle") ELSE Load(r, a, "save")
       \/ Existing = {} /\ Go(r, "create")
    /\ UNCHANGED <<examVars, results, incidents, blocked, commits, boundVars>>

(* What ping, incident and terminate share.                                *)

AfterTermination(r) ==
    IF kind[r] = "ping" THEN {"pingIncident"}
    ELSE IF kind[r] = "incident" THEN {"block"}
    ELSE {"block", "idle"}  \* terminateAttempt: autoBlockStudent or not

Find(r) ==
    /\ at[r] = "find"
    /\ \/ \E a \in Current :
            IF results[a].terminated THEN Go(r, "block") ELSE Load(r, a, "save")
       \/ Current = {} /\ Go(r, "create")
    /\ UNCHANGED <<examVars, results, incidents, blocked, commits, boundVars>>

SaveTerminated(r) ==
    /\ at[r] = "save"
    /\ Store(r, Terminated(doc[r]))
    /\ \E l \in AfterTermination(r) : Go(r, l)
    /\ UNCHANGED <<examVars, incidents, blocked, commits, boundVars>>

CreateTerminated(r) ==
    /\ at[r] = "create"
    /\ Create("Terminated")
    /\ \E l \in (IF Current = {} THEN AfterTermination(r) ELSE {"findAgain"}) : Go(r, l)
    /\ UNCHANGED <<examVars, incidents, blocked, commits, boundVars>>

\* After error 11000: load the document that won, without looking at it.
FindAgain(r) ==
    /\ at[r] = "findAgain"
    /\ \/ \E a \in Current : Load(r, a, "save")
       \/ Current = {} /\ \E l \in AfterTermination(r) : Go(r, l)
    /\ UNCHANGED <<examVars, results, incidents, blocked, commits, boundVars>>

\* isBlocked and a new sessionVersion: the tokens in use stop working.
Block(r) ==
    /\ at[r] = "block"
    /\ blocked' = TRUE
    /\ Go(r, "idle")
    /\ UNCHANGED <<examVars, results, incidents, commits, boundVars>>

-----------------------------------------------------------------------------
(* The admin: unblockStudent, authorizeNewAttempt, updateExamStatus.       *)

Unblock ==
    /\ blocked
    /\ blocked' = FALSE
    /\ UNCHANGED <<examVars, results, incidents, commits, at, localVars, boundVars>>

Authorize(r) ==
    /\ at[r] = "authorize"
    /\ Go(r, IF blocked THEN "idle" ELSE "authorizeFind")
    /\ UNCHANGED <<examVars, results, incidents, blocked, commits, boundVars>>

\* A reset is worth looking at only while another document may be created.
AuthorizeFind(r) ==
    /\ at[r] = "authorizeFind"
    /\ \/ \E a \in Current :
            /\ results[a].terminated
            /\ Existing # Attempts
            /\ Load(r, a, "authorizeSave")
       \/ /\ \A a \in Current : results[a].terminated => Existing = Attempts
          /\ Go(r, "idle")
    /\ UNCHANGED <<examVars, results, incidents, blocked, commits, boundVars>>

AuthorizeSave(r) ==
    /\ at[r] = "authorizeSave"
    /\ Store(r, [doc[r] EXCEPT !.reset = TRUE, !.resetAt = incidents])
    /\ Go(r, "idle")
    /\ UNCHANGED <<examVars, incidents, blocked, commits, boundVars>>

\* Any status at any time.  Going Live again sets scheduledAt and endsAt anew.
AdminSetStatus(s) ==
    /\ s \in AdminStatuses
    /\ examStatus' = s
    /\ clock' = IF s = "Live" /\ examStatus # "Live" THEN "running" ELSE clock
    /\ UNCHANGED <<results, incidents, blocked, commits, at, localVars, boundVars>>

-----------------------------------------------------------------------------
(* The expiration worker.  Each stage loads the exams it is about, then    *)
(* saves their new status, whatever the status has become in between.      *)

Poll(w) ==
    /\ at[w] = "idle"
    /\ \/ examStatus = "Scheduled" /\ clock # "before" /\ Go(w, "start")
       \/ examStatus = "Live" /\ clock \in {"grace", "late"} /\ Go(w, "grace")
       \/ /\ examStatus = "GracePeriod" /\ clock = "late"
          /\ Go(w, "snapshot")
    /\ UNCHANGED <<examVars, results, incidents, blocked, commits, boundVars>>

\* Mutants: the grace period ends where it begins; a status not in the life cycle.
NextStatusNoGrace(l) == IF l = "start" THEN "Live" ELSE "Completed"
NextStatusArchived(l) == CASE l = "start" -> "Live"
                           [] l = "grace" -> "GracePeriod"
                           [] l = "complete" -> "Archived"

NextStatus(l) == CASE l = "start" -> "Live"
                   [] l = "grace" -> "GracePeriod"
                   [] l = "complete" -> "Completed"

SaveExam(w) ==
    /\ at[w] \in {"start", "grace", "complete"}
    /\ examStatus' = NextStatus(at[w])
    /\ Go(w, "idle")
    /\ UNCHANGED <<clock, results, incidents, blocked, commits, boundVars>>

\* The results in progress; there is at most one of this student.
Snapshot(w) ==
    /\ at[w] = "snapshot"
    /\ \/ \E a \in Current : results[a].status = "InProgress" /\ Load(w, a, "finalize")
       \/ /\ \A a \in Current : results[a].status # "InProgress"
          /\ Go(w, "complete")
    /\ UNCHANGED <<examVars, results, incidents, blocked, commits, boundVars>>

\* finalizeResult grades the answers of the snapshot.
Finalize(w) ==
    /\ at[w] = "finalize"
    /\ LET new == [doc[w] EXCEPT !.status = "Completed", !.score = Score[doc[w].answers]]
       IN  /\ Store(w, new)
           /\ at' = [at EXCEPT ![w] = "finalizeEnqueue"]
           /\ doc' = [doc EXCEPT ![w] = new]
    /\ UNCHANGED <<examVars, incidents, blocked, commits, kind, id, sheet, boundVars>>

\* An error in it is logged, and the exam is completed all the same.
FinalizeFails(w) ==
    /\ at[w] = "finalize"
    /\ Fault("finalize")
    /\ Go(w, "complete")
    /\ UNCHANGED <<examVars, results, incidents, blocked, commits, crashes, unsent>>

\* The student is populated here, so what is hashed in place of the student's
\* id is the printed document.
FinalizeEnqueue(w) ==
    /\ at[w] = "finalizeEnqueue"
    /\ Enqueue(id[w], doc[w].version + 1, doc[w], "document")
    /\ Go(w, "complete")
    /\ UNCHANGED <<examVars, results, incidents, blocked, boundVars>>

-----------------------------------------------------------------------------
(* The reconciler's sweep: a Completed result without a version 1.         *)

\* Mutant: it looks at terminated results only.
SweepTerminated(w) ==
    /\ at[w] = "idle"
    /\ \E a \in Existing : /\ results[a].status = "Terminated"
                           /\ ~\E c \in commits : c.attempt = a /\ c.version = 1
                           /\ Load(w, a, "sweep")
    /\ UNCHANGED <<examVars, results, incidents, blocked, commits, boundVars>>

SweepLoad(w) ==
    /\ at[w] = "idle"
    /\ \E a \in Existing : /\ results[a].status = "Completed"
                           /\ ~\E c \in commits : c.attempt = a /\ c.version = 1
                           /\ Load(w, a, "sweep")
    /\ UNCHANGED <<examVars, results, incidents, blocked, commits, boundVars>>

SweepEnqueue(w) ==
    /\ at[w] = "sweep"
    /\ Enqueue(id[w], 1, doc[w], "id")
    /\ Go(w, "idle")
    /\ UNCHANGED <<examVars, results, incidents, blocked, boundVars>>

\* The outbox cannot be written.  Submission and worker log it and go on, as if
\* they had enqueued; the sweep ends, and tries again in its next cycle.
EnqueueFails(x) ==
    /\ at[x] \in {"submitEnqueue", "finalizeEnqueue", "sweep"}
    /\ Fault("enqueue")
    /\ unsent' = IF at[x] = "submitEnqueue" THEN unsent \cup {id[x]} ELSE unsent
    /\ Go(x, IF at[x] = "finalizeEnqueue" THEN "complete" ELSE "idle")
    /\ UNCHANGED <<examVars, results, incidents, blocked, commits, crashes>>

-----------------------------------------------------------------------------
(* The environment.                                                        *)

Tick ==
    /\ clock # "late"
    /\ clock' = CASE clock = "before"  -> "running"
                  [] clock = "running" -> "grace"
                  [] clock = "grace"   -> "late"
    /\ UNCHANGED <<examStatus, results, incidents, blocked, commits, at, localVars, boundVars>>

\* The process dies between two calls of x.
Crash(x) ==
    /\ at[x] # "idle"
    /\ crashes < MaxCrashes
    /\ crashes' = crashes + 1
    /\ Go(x, "idle")
    /\ UNCHANGED <<examVars, results, incidents, blocked, commits, faults, unsent>>

RequestStep(r) ==
    \/ Open(r) \/ OpenFind(r) \/ OpenCreate(r)
    \/ Submit(r) \/ SubmitExam(r) \/ SubmitExpire(r) \/ SubmitSave(r) \/ SubmitEnqueue(r)
    \/ Ping(r) \/ PingAnswers(r) \/ PingIncident(r)
    \/ Incident(r) \/ IncidentCreate(r)
    \/ Terminate(r)
    \/ Find(r) \/ SaveTerminated(r) \/ CreateTerminated(r) \/ FindAgain(r) \/ Block(r)
    \/ Authorize(r) \/ AuthorizeFind(r) \/ AuthorizeSave(r)

WorkerStep(w) ==
    \/ Poll(w) \/ SaveExam(w) \/ Snapshot(w)
    \/ Finalize(w) \/ FinalizeFails(w) \/ FinalizeEnqueue(w)

SweepStep(w) == SweepLoad(w) \/ SweepEnqueue(w)

Next ==
    \/ \E r \in Requests : Begin(r) \/ RequestStep(r)
    \/ \E w \in Workers : WorkerStep(w) \/ SweepStep(w)
    \/ \E x \in Actors : EnqueueFails(x) \/ Crash(x)
    \/ \E s \in AdminStatuses : AdminSetStatus(s)
    \/ Unblock
    \/ Tick

Spec == Init /\ [][Next]_vars

\* The event loop runs what was started, timers fire, and time passes.
Fairness ==
    /\ \A r \in Requests : WF_vars(RequestStep(r))
    /\ \A w \in Workers : WF_vars(WorkerStep(w)) /\ WF_vars(SweepStep(w))
    /\ WF_vars(Tick)

FairSpec == Spec /\ Fairness

-----------------------------------------------------------------------------
(* Properties                                                              *)

Quiet == \A x \in Actors : at[x] = "idle"

\* At most one sheet with answers is ever accepted for an attempt: a second
\* submission, from another tab or from the automatic submit, is refused
\* (submitExamResult, "Prevent duplicate submissions.").
AcceptedOnce == \A a \in Attempts : results[a].version <= 1

\* A student never has two attempts that count at one exam, however the
\* opens, terminations and authorisations interleave (the partial unique index).
OneCurrentAttempt == \A a, b \in Current : a = b

\* An attempt is set aside only after it was terminated: an admin never
\* authorises a second try over an attempt that runs or was handed in.
ResetWasTerminated == \A a \in Attempts : results[a].reset => results[a].terminated

Newest(a) == {c \in commits : c.attempt = a /\ \A d \in commits : d.attempt = a => d.version <= c.version}

\* What verifyResult compares once the newest commitment is confirmed.
Verifies(a) ==
    \E c \in Newest(a) :
        /\ c.owner = "id"
        /\ c.holds = [score |-> results[a].score, status |-> results[a].status,
                      terminated |-> results[a].terminated]

\* When nothing is in progress, a handed-in attempt that nobody terminated
\* verifies, although the worker may have graded it from a stale snapshot, enqueued
\* that, or failed to, and the sweep may have refilled it meanwhile; unless its own
\* enqueue was lost, for which the sweep makes up with a version 1 only.
SubmittedVerifies ==
    Quiet /\ crashes = 0 =>
        \A a \in Attempts \ unsent :
            results[a].version = 1 /\ ~results[a].terminated => Verifies(a)

\* ... and its score is the score of the answers stored with it.
ScoreIsEarned ==
    Quiet => \A a \in Attempts :
                results[a].status = "Completed" /\ ~results[a].terminated
                => results[a].score = Score[results[a].answers]

\* An attempt in progress before the grace period has run out is finished
\* eventually: by the student, by a termination or by the worker.
AttemptEnds ==
    \A a \in Attempts : (results[a].status = "InProgress" /\ clock # "late")
                        ~> results[a].status # "InProgress"

\* Every attempt that stays completed gets a commitment, even when the enqueue
\* fails ("reconciler will retry") or the process dies before it.  A submission that was too
\* late may still turn the worker's Completed into Terminated (submitExamResult).
CompletedIsCommitted ==
    \A a \in Attempts : results[a].status = "Completed"
                        ~> \/ \E c \in commits : c.attempt = a
                           \/ results[a].status # "Completed"

\* The inductive invariant behind the three of them: what a handler that has
\* loaded a document may rely on although others keep writing it.
Grading == {"submitExam", "submitExpire", "submitSave", "finalize"}
Holding == Grading \cup {"save", "authorizeSave", "submitEnqueue", "finalizeEnqueue", "sweep"}

LoadedOf(x) ==
    /\ at[x] \in Holding =>
        /\ id[x] \in Existing
        /\ doc[x].terminated => results[id[x]].terminated
        /\ doc[x].status = "Terminated" => doc[x].terminated
    /\ at[x] \in Grading =>
        /\ doc[x].status = "InProgress"
        /\ doc[x].version = 0
        /\ ~doc[x].terminated
    /\ at[x] = "authorizeSave" => results[id[x]].terminated

Loaded == \A x \in Actors : LoadedOf(x)

UnsubmittedIsVersion0 ==
    \A a \in Attempts : results[a].status = "InProgress" => results[a].version = 0

\* The status may leave "Terminated" again, the mark stays.
LifeCycle ==
    \A a \in Attempts :
        /\ results[a].status = "Absent" => results[a] = NoAttempt
        /\ results[a].status = "InProgress" => ~results[a].terminated
        /\ results[a].status = "Terminated" => results[a].terminated

IInv == /\ TypeOK
        /\ Loaded
        /\ LifeCycle
        /\ UnsubmittedIsVersion0
        /\ AcceptedOnce
        /\ OneCurrentAttempt
        /\ ResetWasTerminated

-----------------------------------------------------------------------------
(* What the project's texts say and the code does not do.                  *)

\* A result the worker finalized and nobody changed verifies, so that a
\* mismatch means an "unauthorized modification", as the alert has it.
FinalizedVerifies ==
    Quiet => \A a \in Attempts :
                results[a].status = "Completed" /\ results[a].version = 0 => Verifies(a) \/ Newest(a) = {}

=============================================================================
