------------------------------ MODULE TakeExam ------------------------------
(***************************************************************************)
(* The exam page in the student's browser, over a network that loses       *)
(* requests and answers, against the server's part of an attempt.          *)
(*                                                                         *)
(*   frontend/src/pages/student/TakeExam.jsx                               *)
(*   frontend/src/utils/useAntiCheating.js                                 *)
(*   backend/src/controllers/student.controllers.js   open, submit, ping   *)
(*   backend/src/controllers/cheating.controllers.js  incident, terminate  *)
(*   backend/src/middlewares/auth.middleware.js       who is let in        *)
(*                                                                         *)
(* What the page must not lose is kept in localStorage: the answers of a   *)
(* started exam, a submission that met no server, and incidents that could *)
(* not be reported.  They survive a reload, and an attempt.                *)
(*                                                                         *)
(* The page sends calls and goes on when an answer or an error comes back; *)
(* meanwhile its timers and events run.  The handlers of the server are    *)
(* one step each here; ExamAttempt takes them apart.                       *)
(*                                                                         *)
(* Whoever blocks the student, or logs in elsewhere, ends the session, so  *)
(* the calls of a page that is open are answered 401 from then on, which   *)
(* the page takes no notice of: it goes on, and what it does is stored     *)
(* nowhere.                                                                *)
(***************************************************************************)
EXTENDS Naturals

CONSTANTS
    None,           \* nothing stored, nothing shown
    MaxAttempts,    \* attempts an admin lets the student have
    MaxWarnings,    \* MAX_WARNINGS and MAX_VIOLATIONS
    MaxViolations,  \* bound on the violations the page detects
    MaxFaults       \* bound on the calls the network loses and the logins elsewhere

ASSUME BoundAssumption == /\ MaxAttempts \in Nat \ {0}
                          /\ MaxWarnings \in Nat \ {0}
                          /\ MaxViolations \in Nat
                          /\ MaxFaults \in Nat
                          /\ None \notin Nat

VARIABLES
    \* the page
    page,        \* "closed", "loaded" or "started" (isStarted)
    answers,     \* the attempt in which the sheet was filled in, 0 when blank
    shown,       \* a score is shown
    terminated,  \* isTerminated
    restricted,  \* isRestricted
    submitting,  \* isSubmitting
    warnings,    \* warningCountRef
    timeUp,      \* timeLeft is 0
    ticking,     \* nobody has cleared the interval that counts down
    sees,        \* the isSubmitting that the memoised handleAutoSubmit looks at
    call,        \* the call of each kind in flight
    \* localStorage and sessionStorage
    saved,       \* zl_exam_session: the answers
    pending,     \* zl_pending_submit: the payload
    queue,       \* zl_incident_queue: how many
    token,       \* studentToken: the sessionVersion in it
    cache,       \* answers to the GETs of an opening, not older than a minute
    \* the server
    exam,        \* "live", "grace", "late" (the worker has yet to see it) or "closed"
    attempt,     \* attempts that were opened
    status,      \* of the newest one, "none" when it was set aside
    accepted,    \* the sheet each attempt was completed with
    reports,     \* CheatingIncident documents, reported by the page
    audits,      \* ... and those a ping has added
    base,        \* how many of them precede the reset
    blocked,     \* student.isBlocked
    session,     \* student.sessionVersion
    \* history
    violations,  \* violations detected and to be reported
    forgotten,   \* an incident was removed that nobody had sent
    faults

flagVars    == <<shown, terminated, restricted, submitting, warnings>>
pageVars    == <<page, answers, timeUp, ticking, sees, flagVars>>
storageVars == <<saved, pending, queue, token, cache>>
serverVars  == <<exam, attempt, status, accepted, reports, audits, base, blocked, session>>
ghostVars   == <<violations, forgotten>>
vars == <<pageVars, call, storageVars, serverVars, ghostVars, faults>>

Attempts == 1..MaxAttempts
Sheets   == 0..MaxAttempts
Kinds    == {"submit", "sync", "incident", "flush"}
Idle     == [at |-> "idle", load |-> 0, count |-> 0, token |-> 0, reply |-> "none", mine |-> TRUE]

TypeOK ==
    /\ page \in {"closed", "loaded", "started"}
    /\ answers \in Sheets
    /\ shown \in BOOLEAN /\ terminated \in BOOLEAN /\ restricted \in BOOLEAN
    /\ submitting \in BOOLEAN /\ timeUp \in BOOLEAN /\ ticking \in BOOLEAN /\ sees \in BOOLEAN
    /\ warnings \in Nat
    /\ call \in [Kinds -> [at : {"idle", "sent", "back"}, load : Nat, count : Nat, token : Nat,
                           reply : {"none", "ok", "refused", "denied", "terminate", "lost"},
                           mine : BOOLEAN]]
    /\ saved \in Sheets \cup {None}
    /\ pending \in Sheets \cup {None}
    /\ queue \in Nat /\ token \in Nat
    /\ cache \in [count : Nat, over : BOOLEAN, results : BOOLEAN] \cup {None}
    /\ exam \in {"live", "grace", "late", "closed"}
    /\ attempt \in {0} \cup Attempts
    /\ status \in {"none", "InProgress", "Completed", "Terminated"}
    /\ accepted \in [Attempts -> Sheets \cup {None}]
    /\ reports \in Nat /\ audits \in Nat /\ base \in Nat /\ session \in Nat
    /\ blocked \in BOOLEAN
    /\ violations \in Nat /\ forgotten \in BOOLEAN /\ faults \in Nat

Init ==
    /\ page = "closed" /\ answers = 0 /\ timeUp = FALSE /\ ticking = FALSE /\ sees = FALSE
    /\ shown = FALSE /\ terminated = FALSE /\ restricted = FALSE /\ submitting = FALSE
    /\ warnings = 0
    /\ call = [k \in Kinds |-> Idle]
    /\ saved = None /\ pending = None /\ queue = 0 /\ token = 0 /\ cache = None
    /\ exam = "live"
    /\ attempt = 0 /\ status = "none" /\ accepted = [a \in Attempts |-> None]
    /\ reports = 0 /\ audits = 0 /\ base = 0 /\ blocked = FALSE /\ session = 0
    /\ violations = 0 /\ forgotten = FALSE /\ faults = 0

-----------------------------------------------------------------------------
(* The server.                                                             *)

\* The answer to a call, or its error; nobody waits for it when the page that
\* called is gone.
Answer(k, reply) ==
    call' = [call EXCEPT ![k] = IF @.mine THEN [@ EXCEPT !.at = "back", !.reply = reply] ELSE Idle]

\* validateSession: the version is compared before isBlocked is looked at, and
\* every block has raised it.
LetIn(t) == t = session

\* Incidents since the reset.
Count == reports + audits - base

\* submitExamResult: an attempt in progress is completed while the exam goes on,
\* and terminated by who comes later than five minutes after its end.
ServeSubmit(k) ==
    IF ~LetIn(call[k].token) THEN UNCHANGED serverVars /\ Answer(k, "denied")
    ELSE IF status # "InProgress" THEN UNCHANGED serverVars /\ Answer(k, "refused")
    ELSE /\ UNCHANGED <<exam, attempt, reports, audits, base, blocked, session>>
         /\ CASE exam = "closed" -> UNCHANGED <<status, accepted>> /\ Answer(k, "denied")
              [] exam = "late"   -> /\ status' = "Terminated"
                                    /\ UNCHANGED accepted
                                    /\ Answer(k, "denied")
              [] OTHER           -> /\ status' = "Completed"
                                    /\ accepted' = [accepted EXCEPT ![attempt] = call[k].load]
                                    /\ Answer(k, "ok")

\* A block ends the session with it.
Block == blocked' = TRUE /\ session' = session + 1

\* recordIncident: the incident that reaches the limit terminates and blocks.
ServeIncident(k) ==
    IF ~LetIn(call[k].token) THEN UNCHANGED serverVars /\ Answer(k, "denied")
    ELSE /\ reports' = reports + 1
         /\ UNCHANGED <<exam, attempt, accepted, audits, base>>
         /\ IF Count + 1 >= MaxWarnings
            THEN status' = "Terminated" /\ Block /\ Answer(k, "terminate")
            ELSE UNCHANGED <<status, blocked, session>> /\ Answer(k, "ok")

Serve(k) ==
    /\ call[k].at = "sent"
    /\ IF k \in {"submit", "sync"} THEN ServeSubmit(k) ELSE ServeIncident(k)
    /\ UNCHANGED <<pageVars, storageVars, ghostVars, faults>>

\* The request does not arrive, or its answer does not.
Lose(k) ==
    /\ call[k].at = "sent" \/ (call[k].at = "back" /\ call[k].reply # "lost")
    /\ faults < MaxFaults
    /\ faults' = faults + 1
    /\ Answer(k, "lost")
    /\ UNCHANGED <<pageVars, storageVars, serverVars, ghostVars>>

\* terminateAttempt with autoBlockStudent, if the call gets through, and finds an
\* attempt that was not terminated: it takes any one of the student and the exam,
\* also one that was set aside.
PostTerminate ==
    \/ /\ LetIn(token) /\ status \in {"InProgress", "Completed"}
       /\ status' = "Terminated"
       /\ Block
       /\ \/ restricted' = TRUE /\ UNCHANGED faults
          \/ faults < MaxFaults /\ faults' = faults + 1 /\ UNCHANGED restricted
       /\ UNCHANGED <<exam, attempt, accepted, reports, audits, base>>
    \/ /\ LetIn(token) => status \in {"none", "Terminated"} \/ attempt > 1
       /\ UNCHANGED <<restricted, serverVars, faults>>
    \/ /\ faults < MaxFaults
       /\ faults' = faults + 1
       /\ UNCHANGED <<restricted, serverVars>>

\* authorizeNewAttempt, after unblockStudent.
Authorize ==
    /\ status = "Terminated"
    /\ attempt < MaxAttempts
    /\ status' = "none"
    /\ base' = reports + audits
    /\ blocked' = FALSE
    /\ UNCHANGED <<pageVars, call, storageVars, exam, attempt, accepted, reports, audits, session,
                   ghostVars, faults>>

\* loginStudent with forceLogout in another browser, which a blocked student may not:
\* the token of this one is no longer let in.  Bounded: while the last attempt is taken
\* here, and together with the lost calls.
LoginElsewhere ==
    /\ ~blocked
    /\ page # "closed" /\ status = "InProgress" /\ attempt = MaxAttempts
    /\ faults < MaxFaults
    /\ faults' = faults + 1
    /\ session' = session + 1
    /\ UNCHANGED <<pageVars, call, storageVars, exam, attempt, status, accepted, reports, audits,
                   base, blocked, ghostVars>>

\* The exam ends, and its grace period does.
EndsAt ==
    /\ \/ exam = "live" /\ exam' = "grace"
       \/ exam = "grace" /\ exam' = "late"
    /\ UNCHANGED <<pageVars, call, storageVars, attempt, status, accepted, reports, audits, base,
                   blocked, session, ghostVars, faults>>

\* The expiration worker closes the exam and finalizes the attempt in progress:
\* blank, since pings below the violation limit store no answers.
Expire ==
    /\ exam = "late"
    /\ exam' = "closed"
    /\ IF status = "InProgress"
       THEN status' = "Completed" /\ accepted' = [accepted EXCEPT ![attempt] = 0]
       ELSE UNCHANGED <<status, accepted>>
    /\ UNCHANGED <<pageVars, call, storageVars, attempt, reports, audits, base, blocked, session,
                   ghostVars, faults>>

-----------------------------------------------------------------------------
(* Opening, answering, closing.                                            *)

Send(k, load, count) ==
    call' = [call EXCEPT ![k] = [Idle EXCEPT !.at = "sent", !.load = load, !.count = count, !.token = token]]

\* What an opening sets up: the page resumes what localStorage has; the time that
\* is left and the count of the incidents are what the answers said.
Opened(count, over) ==
    /\ page' = IF saved = None THEN "loaded" ELSE "started"
    /\ ticking' = (saved # None)
    /\ answers' = IF saved = None THEN 0 ELSE saved
    /\ timeUp' = over /\ warnings' = count
    /\ sees' = FALSE
    /\ shown' = FALSE /\ terminated' = FALSE /\ restricted' = FALSE /\ submitting' = FALSE
    /\ UNCHANGED <<call, saved, pending, queue, ghostVars, faults>>

\* fetchExam, answered by the server, after a new login when the session was ended:
\* an attempt is opened where there is none, whether or not the time is up.
FetchExam ==
    /\ page = "closed"
    /\ ~blocked /\ exam # "closed"
    /\ \/ status = "InProgress" /\ UNCHANGED <<attempt, status>>
       \/ /\ status = "none" /\ attempt < MaxAttempts
          /\ attempt' = attempt + 1
          /\ status' = "InProgress"
    /\ Opened(Count, exam # "live")
    /\ token' = session
    /\ cache' = [count |-> Count, over |-> (exam # "live"), results |-> TRUE]
    /\ UNCHANGED <<exam, accepted, reports, audits, base, blocked, session>>

\* fetchExam within a minute of an opening with the same token: nobody asks the
\* server, except for the results when a submission has removed them.
FetchCached ==
    /\ page = "closed"
    /\ cache # None
    /\ cache.results \/ (LetIn(token) /\ status \in {"none", "InProgress"})
    /\ Opened(cache.count, cache.over)
    /\ cache' = [cache EXCEPT !.results = TRUE]
    /\ UNCHANGED <<token, serverVars>>

\* Every change of a running exam is written to localStorage.
StartExam ==
    /\ page = "loaded" /\ ~shown
    /\ page' = "started"
    /\ ticking' = TRUE
    /\ saved' = answers
    /\ UNCHANGED <<answers, timeUp, sees, flagVars, call, pending, queue, token, cache, serverVars,
                   ghostVars, faults>>

\* The effects that watch, ping and save are active.
Running == page = "started" /\ ~shown /\ ~terminated /\ ~restricted

\* A new sheet also renews handleAutoSubmit, which sees isSubmitting as it is then.
OptionSelect ==
    /\ Running
    /\ answers' = attempt
    /\ saved' = attempt
    /\ sees' = submitting
    /\ UNCHANGED <<page, timeUp, ticking, flagVars, call, pending, queue, token, cache, serverVars,
                   ghostVars, faults>>

\* The countdown gets to zero, however late: it started from what the opening said.
TimeOut ==
    /\ page = "started" /\ ~shown /\ ~terminated
    /\ ticking /\ ~timeUp
    /\ timeUp' = TRUE
    /\ UNCHANGED <<page, answers, ticking, sees, flagVars, call, storageVars, serverVars, ghostVars,
                   faults>>

\* The page is closed or reloaded: calls in flight still reach the server, but
\* nobody waits for them.
Close ==
    /\ page # "closed"
    /\ page' = "closed"
    /\ answers' = 0 /\ timeUp' = FALSE /\ ticking' = FALSE /\ sees' = FALSE
    /\ shown' = FALSE /\ terminated' = FALSE /\ restricted' = FALSE /\ submitting' = FALSE
    /\ warnings' = 0
    /\ call' = [k \in Kinds |-> IF call[k].at = "sent" THEN [call[k] EXCEPT !.mine = FALSE] ELSE Idle]
    /\ forgotten' = (forgotten \/ call["incident"].at # "idle")
    /\ UNCHANGED <<storageVars, serverVars, violations, faults>>

NoTermination == UNCHANGED <<terminated, restricted, ticking, saved, serverVars, faults>>

\* handleForceTermination: not a pending submission and not the queue, but the
\* saved session is removed, and the timer.
ForceTermination ==
    IF terminated THEN NoTermination
    ELSE /\ terminated' = TRUE
         /\ ticking' = FALSE
         /\ saved' = None
         /\ PostTerminate

\* endSession of the proctoring controller, and its event to the page; the call the
\* page makes then finds an attempt that has been terminated.
ProctorEnds ==
    /\ status = "InProgress"
    /\ status' = "Terminated"
    /\ IF Running
       THEN terminated' = TRUE /\ ticking' = FALSE /\ saved' = None
       ELSE UNCHANGED <<terminated, ticking, saved>>
    /\ UNCHANGED <<page, answers, timeUp, sees, shown, restricted, submitting, warnings, call,
                   pending, queue, token, cache, exam, attempt, accepted, reports, audits, base,
                   blocked, session, ghostVars, faults>>

-----------------------------------------------------------------------------
(* Handing in.                                                             *)

\* A call for the results removes what is cached of them.
PostResults(k, load) ==
    /\ call[k].at = "idle"
    /\ submitting' = TRUE
    /\ Send(k, load, 0)
    /\ cache' = IF cache = None THEN None ELSE [cache EXCEPT !.results = FALSE]

\* submitExamData; nothing sets the interval again that it clears.
SubmitExamData ==
    /\ ~shown /\ ~terminated
    /\ PostResults("submit", answers)
    /\ ticking' = FALSE
    /\ UNCHANGED <<page, answers, timeUp, sees, shown, terminated, restricted, warnings, saved,
                   pending, queue, token, serverVars, ghostVars, faults>>

\* confirmSubmission, from the button.
Submit == page = "started" /\ ~restricted /\ ~submitting /\ SubmitExamData

\* The effect runs when the time is up or something it depends on has changed, also
\* on a page that was not started.  It looks at the flag as it is, and so does
\* handleAutoSubmit at the flag as it was when the answers changed last.
AutoSubmit == page # "closed" /\ timeUp /\ ~submitting /\ ~sees /\ SubmitExamData

Done(k) == call' = [call EXCEPT ![k] = Idle]

\* "Exam session not found or already completed." makes the page look at the results.
Found == call["submit"].reply = "refused" /\ LetIn(token) /\ status = "Completed"

Seen(seen) ==
    /\ submitting' = FALSE
    /\ shown' = (shown \/ seen)
    /\ saved' = IF seen THEN None ELSE saved
    /\ UNCHANGED <<page, answers, timeUp, ticking, sees, terminated, restricted, warnings, queue,
                   token, cache, serverVars, ghostVars>>

\* Mutant: isSubmitting is reset on success only.
ReturnSubmitStuck ==
    LET c == call["submit"] IN
    /\ c.at = "back"
    /\ Done("submit")
    /\ pending' = IF c.reply = "lost" THEN c.load ELSE pending
    /\ IF c.reply = "ok" \/ Found THEN Seen(TRUE)
       ELSE UNCHANGED <<pageVars, saved, queue, token, cache, serverVars, ghostVars>>
    /\ UNCHANGED faults

\* Mutant: "already completed" is believed without a look at the results.
ReturnSubmitBelieves ==
    LET c == call["submit"] IN
    /\ c.at = "back"
    /\ Done("submit")
    /\ pending' = IF c.reply = "lost" THEN c.load ELSE pending
    /\ Seen(c.reply \in {"ok", "refused"})
    /\ UNCHANGED faults

\* The payload is kept only when there was no answer; an error is only shown.
ReturnSubmit ==
    LET c == call["submit"] IN
    /\ c.at = "back"
    /\ Done("submit")
    /\ pending' = IF c.reply = "lost" THEN c.load ELSE pending
    /\ \/ Seen(c.reply = "ok" \/ Found) /\ UNCHANGED faults
       \/ Found /\ faults < MaxFaults /\ faults' = faults + 1 /\ Seen(FALSE)

\* The ping hands in what is pending.  Its closure never sees isSubmitting.
SyncPending ==
    /\ Running
    /\ pending # None
    /\ PostResults("sync", pending)
    /\ UNCHANGED <<page, answers, timeUp, ticking, sees, shown, terminated, restricted, warnings,
                   saved, pending, queue, token, serverVars, ghostVars, faults>>

ReturnSync ==
    LET ok == call["sync"].reply = "ok" IN
    /\ call["sync"].at = "back"
    /\ Done("sync")
    /\ Seen(ok)
    /\ pending' = IF ok THEN None ELSE pending
    /\ UNCHANGED faults

\* pingSession at the violation limit, which counts what precedes the reset as well:
\* it terminates, adds an incident, blocks, and answers 403.
AtLimit == reports + audits >= MaxWarnings

PingBlocks ==
    /\ Running /\ LetIn(token) /\ AtLimit
    /\ status' = "Terminated"
    /\ audits' = IF status = "Terminated" THEN audits ELSE audits + 1
    /\ Block
    /\ \/ restricted' = TRUE /\ UNCHANGED faults
       \/ faults < MaxFaults /\ faults' = faults + 1 /\ UNCHANGED restricted
    /\ UNCHANGED <<page, answers, timeUp, ticking, sees, shown, terminated, submitting, warnings,
                   call, storageVars, exam, attempt, accepted, reports, base, ghostVars>>

-----------------------------------------------------------------------------
(* Violations.                                                             *)

\* handleViolation: at the limit the page terminates itself, below it the
\* incident is reported.
Violation ==
    /\ Running
    /\ violations < MaxViolations
    /\ IF warnings >= MaxWarnings
       THEN ForceTermination /\ UNCHANGED <<warnings, call, violations>>
       ELSE /\ call["incident"].at = "idle"
            /\ warnings' = warnings + 1
            /\ Send("incident", 0, warnings + 1)
            /\ violations' = violations + 1
            /\ NoTermination
    /\ UNCHANGED <<page, answers, timeUp, sees, shown, submitting, pending, queue, token, cache,
                   forgotten>>

Synced(n) == IF n > warnings THEN n ELSE warnings

\* Mutant: a report that failed is only logged.
QueuedNever(reply) == queue

\* A report without a good answer is queued.
Queued(reply) == IF reply \in {"lost", "denied"} THEN queue + 1 ELSE queue

ReturnIncident ==
    LET c == call["incident"] IN
    /\ c.at = "back"
    /\ Done("incident")
    /\ warnings' = IF c.reply \in {"ok", "terminate"} THEN Synced(Count) ELSE warnings
    /\ queue' = Queued(c.reply)
    /\ IF c.reply = "terminate" \/ c.count >= MaxWarnings THEN ForceTermination ELSE NoTermination
    /\ UNCHANGED <<page, answers, timeUp, sees, shown, submitting, pending, token, cache, ghostVars>>

\* Mutant: a single incident waits for another one.
FlushQueueLong ==
    /\ Running /\ LetIn(token) /\ ~AtLimit
    /\ queue > 1
    /\ call["flush"].at = "idle"
    /\ Send("flush", queue, queue)
    /\ UNCHANGED <<pageVars, storageVars, serverVars, ghostVars, faults>>

\* A ping that was answered well sends what was queued when it looked, one after
\* the other.
FlushQueue ==
    /\ Running /\ LetIn(token) /\ ~AtLimit
    /\ queue > 0
    /\ call["flush"].at = "idle"
    /\ Send("flush", queue, queue)
    /\ UNCHANGED <<pageVars, storageVars, serverVars, ghostVars, faults>>

\* After the last good answer the whole key is removed, however much was added
\* meanwhile; an error leaves it all.
ReturnFlush ==
    LET c == call["flush"]
        good == c.reply \in {"ok", "terminate"}
        last == c.count = 1
    IN
    /\ c.at = "back"
    /\ IF good /\ ~last
       THEN call' = [call EXCEPT !["flush"] = [c EXCEPT !.at = "sent", !.reply = "none", !.count = c.count - 1]]
       ELSE Done("flush")
    /\ queue' = IF good /\ last THEN 0 ELSE queue
    /\ forgotten' = (forgotten \/ (good /\ last /\ queue # c.load))
    /\ warnings' = IF good THEN Synced(Count) ELSE warnings
    /\ IF c.reply = "terminate" THEN ForceTermination ELSE NoTermination
    /\ UNCHANGED <<page, answers, timeUp, sees, shown, submitting, pending, token, cache, violations>>

-----------------------------------------------------------------------------
Return == ReturnSubmit \/ ReturnSync \/ ReturnIncident \/ ReturnFlush

Next ==
    \/ \E k \in Kinds : Serve(k) \/ Lose(k)
    \/ Authorize \/ ProctorEnds \/ LoginElsewhere \/ EndsAt \/ Expire
    \/ FetchExam \/ FetchCached \/ StartExam \/ OptionSelect \/ TimeOut \/ Close
    \/ Submit \/ AutoSubmit \/ SyncPending \/ PingBlocks
    \/ Violation \/ FlushQueue
    \/ Return

Spec == Init /\ [][Next]_vars

\* Every call ends with an answer or an error, effects run, pings go on.
Fairness ==
    /\ \A k \in Kinds : WF_vars(Serve(k))
    /\ WF_vars(ReturnSubmit) /\ WF_vars(ReturnSync)
    /\ WF_vars(ReturnIncident) /\ WF_vars(ReturnFlush)
    /\ WF_vars(AutoSubmit) /\ WF_vars(FlushQueue) /\ WF_vars(PingBlocks)

FairSpec == Spec /\ Fairness

-----------------------------------------------------------------------------
(* Properties                                                              *)

\* A score is shown only for an attempt the server has accepted, whichever of
\* the submissions in flight and of the pings got the answer.
ShownIsAccepted == shown => accepted[attempt] # None

\* A detected violation is stored by the server, in flight, or queued in the
\* browser; it is forgotten only when the page is closed under its report, or
\* when a flush removes what was queued meanwhile.
Unreported == LET c == call["incident"]
              IN IF c.at = "sent" \/ (c.at = "back" /\ c.reply \in {"lost", "denied"}) THEN 1 ELSE 0

IncidentsAccounted == ~forgotten => violations <= reports + queue + Unreported

\* When the time is up on an open page whose session is valid, the attempt is handed
\* in, or ended in another way, however often calls are lost before and whatever else
\* is handed in meanwhile; excepted is an answer that changed during a submission,
\* for handleAutoSubmit sees that submission until an answer changes again.
TimeUpIsHandedIn ==
    (timeUp /\ page # "closed" /\ ~terminated /\ ~sees /\ LetIn(token) /\ status = "InProgress")
    ~> (status # "InProgress" \/ page = "closed" \/ terminated \/ sees \/ ~LetIn(token))

\* While the exam runs in a session that is valid, what was queued is reported in
\* the end, whatever else is lost, handed in or detected meanwhile.
QueueIsReported ==
    (Running /\ LetIn(token) /\ queue > 0) ~> (queue = 0 \/ ~Running \/ ~LetIn(token))

=============================================================================
