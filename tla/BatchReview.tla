---------------------------- MODULE BatchReview ----------------------------
(***************************************************************************)
(* A batch of questions on its way from the professor to the question bank *)
(* and, as a Merkle root, to the integrity outbox.                         *)
(*                                                                         *)
(*   backend/src/controllers/professor.controllers.js  edit, submit        *)
(*   backend/src/controllers/admin.controllers.js      review, delete      *)
(*   backend/src/Services/integrityOutbox.service.js   enqueue, sweep      *)
(*                                                                         *)
(* Each handler loads the batch, checks it, and saves what it changed of   *)
(* its copy.  Mongoose makes the save of a replaced array or of an array   *)
(* element conditional on the __v that was loaded, but not that of a field *)
(* or of a $push or $pull.                                                 *)
(***************************************************************************)
EXTENDS Naturals

CONSTANTS
    Requests,    \* requests being handled at the same time
    Questions,   \* draft questions of the batch
    MaxOps       \* bound on the requests

ASSUME BoundAssumption == MaxOps \in Nat /\ Questions # {}

VARIABLES
    batch,       \* the stored document
    bank,        \* Question documents: the acceptance they come from, the draft
    commitment,  \* the root enqueued as version 1 of the batch, 0 when none
    sweep,       \* the root the reconciler has read and not enqueued yet, 0 when none
    inserts,     \* insertMany calls so far; a root is named by its call
    at, op, doc, \* of a request: how far, what, its copy
    question,    \* ... the question it is about, the insertMany it made
    inserted,
    ops,
    \* history
    late,        \* a professor's save reached a batch that is no longer a draft
    reopened,    \* an accepted batch got another status
    failed,      \* an acceptance stopped after insertMany
    dropped      \* the roots whose questions an admin has deleted

reqVars   == <<at, op, doc, question, inserted>>
ghostVars == <<late, reopened, failed, dropped>>
vars      == <<batch, bank, commitment, sweep, inserts, reqVars, ops, ghostVars>>

Editable  == {"Draft", "MarkForReview"}
Statuses  == {"Draft", "Submitted", "Accepted", "Rejected", "MarkForReview"}
Changes   == {"add", "edit", "remove"}
Own       == Changes \cup {"submit", "discard"}
Decisions == {"Accept", "Reject", "MarkForReview"}
Ops       == Own \cup Decisions \cup {"delete"}

\* A question is a plain draft, or redacted to its hash and the id in the bank.
Batch == [status : Statuses, questions : [Questions -> {"none", "plain", "redacted"}],
          root : Nat, version : Nat, gone : BOOLEAN]

TypeOK ==
    /\ batch \in Batch
    /\ bank \subseteq Nat \X Questions
    /\ commitment \in Nat
    /\ sweep \in Nat
    /\ inserts \in Nat
    /\ at \in [Requests -> {"idle", "loaded", "inserted", "emptied", "enqueue"}]
    /\ op \in [Requests -> Ops]
    /\ doc \in [Requests -> Batch]
    /\ question \in [Requests -> Questions]
    /\ inserted \in [Requests -> Nat]
    /\ ops \in Nat
    /\ late \in BOOLEAN /\ reopened \in BOOLEAN /\ failed \in BOOLEAN
    /\ dropped \subseteq Nat

\* Where a request is about no question.
NoQuestion == CHOOSE q \in Questions : TRUE

\* createBatch.
NewBatch == [status |-> "Draft", questions |-> [q \in Questions |-> "none"],
             root |-> 0, version |-> 0, gone |-> FALSE]

Init ==
    /\ batch = NewBatch
    /\ bank = {} /\ commitment = 0 /\ sweep = 0 /\ inserts = 0
    /\ at = [r \in Requests |-> "idle"] /\ op = [r \in Requests |-> "add"]
    /\ doc = [r \in Requests |-> NewBatch]
    /\ question = [r \in Requests |-> NoQuestion]
    /\ inserted = [r \in Requests |-> 0]
    /\ ops = 0
    /\ late = FALSE /\ reopened = FALSE /\ failed = FALSE /\ dropped = {}

-----------------------------------------------------------------------------
(* Loading, and the checks on the copy.                                    *)

Listed(b) == {q \in Questions : b.questions[q] # "none"}

Load(r, o, q) ==
    /\ at[r] = "idle"
    /\ ops < MaxOps
    /\ ops' = ops + 1
    /\ at' = [at EXCEPT ![r] = "loaded"]
    /\ op' = [op EXCEPT ![r] = o]
    /\ doc' = [doc EXCEPT ![r] = batch]
    /\ question' = [question EXCEPT ![r] = q]
    /\ UNCHANGED <<batch, bank, commitment, sweep, inserts, inserted, ghostVars>>

\* Only a draft, or one sent back, may be changed.
Change(r, o, q) ==
    /\ o \in Changes
    /\ batch.status \in Editable
    /\ IF o = "add" THEN batch.questions[q] = "none" ELSE batch.questions[q] # "none"
    /\ Load(r, o, q)

\* submitBatch wants questions, each with its options.
Submit(r) ==
    /\ batch.status \in Editable
    /\ Listed(batch) # {}
    /\ \A q \in Questions : batch.questions[q] # "redacted"
    /\ Load(r, "submit", NoQuestion)

Discard(r) ==
    /\ batch.status # "Submitted"
    /\ Load(r, "discard", NoQuestion)

\* Mutant: an accepted batch may be accepted again.
ReviewAnew(r, o) ==
    /\ o \in Decisions
    /\ o = "Accept" => Listed(batch) # {}
    /\ Load(r, o, NoQuestion)

\* reviewBatch: an acceptance only of what is not accepted, and not empty; any
\* other decision on any batch.
Review(r, o) ==
    /\ o \in Decisions
    /\ o = "Accept" => batch.status # "Accepted" /\ Listed(batch) # {}
    /\ Load(r, o, NoQuestion)

Delete(r) == Load(r, "delete", NoQuestion)

-----------------------------------------------------------------------------
(* Saving.                                                                 *)

Finish(r) ==
    /\ at' = [at EXCEPT ![r] = "idle"]
    /\ op' = [op EXCEPT ![r] = "add"]
    /\ doc' = [doc EXCEPT ![r] = NewBatch]
    /\ question' = [question EXCEPT ![r] = NoQuestion]
    /\ inserted' = [inserted EXCEPT ![r] = 0]
    /\ UNCHANGED ops

\* A field is sent if it differs from the loaded one.
Status(r, s) == IF s # doc[r].status THEN s ELSE batch.status

Reopens(s) == reopened' = (reopened \/ (batch.status = "Accepted" /\ s # "Accepted"))

\* $push and $pull go through whatever happened since; an edit of an element must
\* find the version it has loaded.
SaveChange(r) ==
    /\ at[r] = "loaded" /\ op[r] \in Changes
    /\ IF op[r] = "edit" /\ doc[r].version # batch.version
       THEN UNCHANGED <<batch, late>>
       ELSE /\ batch' = [batch EXCEPT
                  !.questions[question[r]] = CASE op[r] = "remove" -> "none"
                                               [] op[r] = "edit" /\ @ = "none" -> "none"
                                               [] OTHER -> "plain",
                  !.version = IF op[r] = "edit" THEN @ ELSE @ + 1]
            /\ late' = (late \/ batch.status \notin Editable)
    /\ Finish(r)
    /\ UNCHANGED <<bank, commitment, sweep, inserts, reopened, failed, dropped>>

SaveSubmit(r) ==
    /\ at[r] = "loaded" /\ op[r] = "submit"
    /\ batch' = [batch EXCEPT !.status = Status(r, "Submitted")]
    /\ Reopens(batch'.status)
    /\ Finish(r)
    /\ UNCHANGED <<bank, commitment, sweep, inserts, late, failed, dropped>>

SaveDiscard(r) ==
    /\ at[r] = "loaded" /\ op[r] = "discard"
    /\ batch' = [batch EXCEPT !.gone = TRUE]
    /\ Finish(r)
    /\ UNCHANGED <<bank, commitment, sweep, inserts, ghostVars>>

\* Mutant: the root is enqueued before the batch is saved.
InsertCommits(r) ==
    /\ at[r] = "loaded" /\ op[r] = "Accept"
    /\ inserts' = inserts + 1
    /\ bank' = bank \cup {<<inserts', q>> : q \in Listed(doc[r])}
    /\ inserted' = [inserted EXCEPT ![r] = inserts']
    /\ at' = [at EXCEPT ![r] = "inserted"]
    /\ commitment' = IF commitment = 0 THEN inserts' ELSE commitment
    /\ UNCHANGED <<batch, sweep, op, doc, question, ops, ghostVars>>

\* insertMany comes before the save of the batch.
Insert(r) ==
    /\ at[r] = "loaded" /\ op[r] = "Accept"
    /\ inserts' = inserts + 1
    /\ bank' = bank \cup {<<inserts', q>> : q \in Listed(doc[r])}
    /\ inserted' = [inserted EXCEPT ![r] = inserts']
    /\ at' = [at EXCEPT ![r] = "inserted"]
    /\ UNCHANGED <<batch, commitment, sweep, op, doc, question, ops, ghostVars>>

\* Mutant: the loaded version is not asked for.
InTimeAlways(r) == TRUE

\* The array is replaced: the save matches the loaded version only.
InTime(r) == doc[r].version = batch.version

\* Mutant: the drafts stay as they are.
RedactedNot(b) == b.questions

Redacted(b) == [q \in Questions |-> IF b.questions[q] = "none" THEN "none" ELSE "redacted"]

\* A VersionError leaves the inserted questions behind.
SaveAccept(r) ==
    /\ at[r] = "inserted"
    /\ IF InTime(r)
       THEN /\ batch' = [batch EXCEPT !.status = "Accepted", !.questions = Redacted(doc[r]),
                                      !.root = inserted[r], !.version = @ + 1]
            /\ at' = [at EXCEPT ![r] = "enqueue"]
            /\ UNCHANGED <<op, doc, question, inserted, ops, failed>>
       ELSE /\ failed' = TRUE
            /\ Finish(r)
            /\ UNCHANGED batch
    /\ UNCHANGED <<bank, commitment, sweep, inserts, late, reopened, dropped>>

\* The process stops between insertMany and the save, or before the enqueue.
AcceptStops(r) ==
    /\ at[r] \in {"inserted", "enqueue"}
    /\ failed' = (failed \/ at[r] = "inserted")
    /\ Finish(r)
    /\ UNCHANGED <<batch, bank, commitment, sweep, inserts, late, reopened, dropped>>

\* The outbox ignores a second record of version 1.
Committed(old, root) == IF old = 0 THEN root ELSE old

Enqueue(r) ==
    /\ at[r] = "enqueue"
    /\ commitment' = Committed(commitment, inserted[r])
    /\ Finish(r)
    /\ UNCHANGED <<batch, bank, sweep, inserts, ghostVars>>

\* A rejection replaces the array by an empty one.
SaveReject(r) ==
    /\ at[r] = "loaded" /\ op[r] = "Reject"
    /\ IF InTime(r)
       THEN /\ batch' = [batch EXCEPT !.status = Status(r, "Rejected"), !.version = @ + 1,
                                      !.questions = [q \in Questions |-> "none"]]
            /\ Reopens(batch'.status)
       ELSE UNCHANGED <<batch, reopened>>
    /\ Finish(r)
    /\ UNCHANGED <<bank, commitment, sweep, inserts, late, failed, dropped>>

SaveMark(r) ==
    /\ at[r] = "loaded" /\ op[r] = "MarkForReview"
    /\ batch' = [batch EXCEPT !.status = Status(r, "MarkForReview")]
    /\ Reopens(batch'.status)
    /\ Finish(r)
    /\ UNCHANGED <<bank, commitment, sweep, inserts, late, failed, dropped>>

\* The questions of an accepted batch, by their ids.
OfRoot(d) == {<<d.root, q>> : q \in {p \in Questions : d.questions[p] = "redacted"}}

\* deleteBatch of an accepted batch empties its part of the bank first.
EmptyBank(r) ==
    /\ at[r] = "loaded" /\ op[r] = "delete"
    /\ IF doc[r].status = "Accepted" /\ doc[r].root # 0
       THEN /\ bank' = bank \ OfRoot(doc[r])
            /\ dropped' = dropped \cup {doc[r].root}
       ELSE UNCHANGED <<bank, dropped>>
    /\ at' = [at EXCEPT ![r] = "emptied"]
    /\ UNCHANGED <<batch, commitment, sweep, inserts, op, doc, question, inserted, ops, late,
                   reopened, failed>>

SaveDelete(r) ==
    /\ at[r] = "emptied"
    /\ batch' = [batch EXCEPT !.gone = TRUE]
    /\ Finish(r)
    /\ UNCHANGED <<bank, commitment, sweep, inserts, ghostVars>>

\* Mutant: a deleted batch is left out.
SweepKept ==
    /\ sweep = 0
    /\ batch.status = "Accepted" /\ batch.root # 0 /\ ~batch.gone
    /\ commitment = 0
    /\ sweep' = batch.root
    /\ UNCHANGED <<batch, bank, commitment, inserts, reqVars, ops, ghostVars>>

\* The reconciler reads the accepted batches, deleted ones too, and then which of
\* them have a record; one that comes in between refuses the enqueue below.
Sweep ==
    /\ sweep = 0
    /\ batch.status = "Accepted" /\ batch.root # 0
    /\ commitment = 0
    /\ sweep' = batch.root
    /\ UNCHANGED <<batch, bank, commitment, inserts, reqVars, ops, ghostVars>>

\* The batch as it was read, whatever has become of it.
SweepEnqueue ==
    /\ sweep # 0
    /\ commitment' = Committed(commitment, sweep)
    /\ sweep' = 0
    /\ UNCHANGED <<batch, bank, inserts, reqVars, ops, ghostVars>>

-----------------------------------------------------------------------------
Next ==
    \/ \E r \in Requests :
          \/ \E o \in Changes, q \in Questions : Change(r, o, q)
          \/ Submit(r) \/ Discard(r) \/ Delete(r)
          \/ \E o \in Decisions : Review(r, o)
          \/ SaveChange(r) \/ SaveSubmit(r) \/ SaveDiscard(r)
          \/ Insert(r) \/ SaveAccept(r) \/ AcceptStops(r) \/ Enqueue(r)
          \/ SaveReject(r) \/ SaveMark(r)
          \/ EmptyBank(r) \/ SaveDelete(r)
    \/ Sweep \/ SweepEnqueue

Spec == Init /\ [][Next]_vars

\* The reconciler goes on.
FairSpec == Spec /\ WF_vars(Sweep) /\ WF_vars(SweepEnqueue)

-----------------------------------------------------------------------------
(* Properties                                                              *)

\* While a batch is accepted, its root stays: a second acceptance, or a decision
\* taken on the batch as it was, never replaces what was approved.
RootStays ==
    [][batch.status = "Accepted" /\ batch'.status = "Accepted" => batch'.root = batch.root]_vars

\* No draft text is left in an accepted batch ("Redact plaintext content from
\* draft questions upon acceptance") and each of its questions is in the bank,
\* unless a professor's save came late or the bank was emptied for it.
AcceptedIsInBank ==
    batch.status = "Accepted" /\ ~late =>
        \A q \in Listed(batch) :
            /\ batch.questions[q] = "redacted"
            /\ <<batch.root, q>> \in bank \/ batch.root \in dropped

\* The bank holds no question twice and none that nobody approved: what is in it
\* belongs to the accepted batch or to an acceptance in progress, unless one
\* stopped half-way or the batch was changed after its acceptance.
BankIsApproved ==
    \A b \in bank :
        \/ late \/ reopened \/ failed
        \/ batch.status = "Accepted" /\ b[1] = batch.root /\ batch.questions[b[2]] = "redacted"
        \/ \E r \in Requests : at[r] = "inserted" /\ inserted[r] = b[1]

\* What is committed is the root of the accepted batch, by whichever of the
\* handler and the sweep, unless the batch was taken up again.
CommittedIsRoot ==
    commitment # 0 /\ ~reopened => batch.status = "Accepted" /\ commitment = batch.root

\* An accepted batch gets its commitment, also when the process stops first.
AcceptedIsCommitted == batch.status = "Accepted" ~> (commitment # 0 \/ batch.status # "Accepted")
=============================================================================
