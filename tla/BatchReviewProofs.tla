------------------------- MODULE BatchReviewProofs -------------------------
(***************************************************************************)
(* For any number of requests and of questions: the safety properties of   *)
(* BatchReview.  They follow from IInv.  Its heart is that an acceptance   *)
(* raises __v, so that a copy with the stored version that was no accepted *)
(* batch when it was loaded is no accepted batch now (CopiesInTime), and   *)
(* that each insertMany has a number of its own (NumbersUsed).             *)
(***************************************************************************)
EXTENDS BatchReview, TLAPS

\* A copy is at most as new as the batch, and as new only if it is accepted when
\* the batch is.  Who is about to accept has not loaded an accepted batch.
CopiesInTime ==
    \A r \in Requests : at[r] # "idle" =>
        /\ doc[r].version <= batch.version
        /\ doc[r].version = batch.version /\ batch.status = "Accepted"
              => doc[r].status = "Accepted"
        /\ op[r] = "Accept" /\ at[r] \in {"loaded", "inserted"} => doc[r].status # "Accepted"

\* Only an acceptance inserts questions.
InsertedAccepts == \A r \in Requests : at[r] = "inserted" => op[r] = "Accept"

\* Numbers of insertMany calls are not given twice.
NumbersUsed ==
    /\ \A b \in bank : b[1] <= inserts
    /\ \A r \in Requests : inserted[r] <= inserts

\* The questions of an acceptance in progress are its copy's, all in the bank.
InsertedInBank ==
    \A r \in Requests : at[r] = "inserted" =>
        /\ \A b \in bank : b[1] = inserted[r] => b[2] \in Listed(doc[r])
        /\ \A q \in Listed(doc[r]) : <<inserted[r], q>> \in bank \/ inserted[r] \in dropped

\* What waits to be enqueued, by a request or by the reconciler, is the root of the
\* batch.
EnqueuesRoot ==
    /\ \A r \in Requests : at[r] = "enqueue" /\ ~reopened =>
           batch.status = "Accepted" /\ inserted[r] = batch.root
    /\ sweep # 0 /\ ~reopened => batch.status = "Accepted" /\ sweep = batch.root

IInv == /\ TypeOK /\ CopiesInTime /\ InsertedAccepts /\ NumbersUsed /\ InsertedInBank
        /\ EnqueuesRoot /\ CommittedIsRoot /\ AcceptedIsInBank /\ BankIsApproved

-----------------------------------------------------------------------------
(* Types.                                                                  *)

LEMMA NewBatchType == NewBatch \in Batch
BY DEF NewBatch, Batch, Statuses

LEMMA NoQuestionType == NoQuestion \in Questions
BY BoundAssumption DEF NoQuestion

LEMMA TypeInit == Init => TypeOK
<1> SUFFICES ASSUME Init PROVE TypeOK
  OBVIOUS
<1>1. NewBatch \in Batch /\ NoQuestion \in Questions /\ "add" \in Ops
  BY NewBatchType, NoQuestionType DEF Ops, Own, Changes
<1> QED BY <1>1 DEF Init, TypeOK

\* A request that is over leaves its variables as they were before it.
LEMMA FinishType ==
  ASSUME TypeOK, NEW r \in Requests, Finish(r)
  PROVE  /\ at' \in [Requests -> {"idle", "loaded", "inserted", "emptied", "enqueue"}]
         /\ op' \in [Requests -> Ops]
         /\ doc' \in [Requests -> Batch]
         /\ question' \in [Requests -> Questions]
         /\ inserted' \in [Requests -> Nat]
         /\ ops' \in Nat
BY NewBatchType, NoQuestionType DEF TypeOK, Finish, Ops, Own, Changes

LEMMA LoadType ==
  ASSUME TypeOK, NEW r \in Requests, NEW o \in Ops, NEW q \in Questions, Load(r, o, q)
  PROVE  TypeOK'
BY DEF TypeOK, Load, ghostVars

\* The fields a save may send.
LEMMA StatusType ==
  ASSUME TypeOK, NEW r \in Requests, NEW s \in Statuses
  PROVE  Status(r, s) \in Statuses
BY DEF TypeOK, Status, Batch

LEMMA RedactedType ==
  ASSUME NEW b \in Batch
  PROVE  Redacted(b) \in [Questions -> {"none", "plain", "redacted"}]
BY DEF Redacted

LEMMA BatchType ==
  ASSUME NEW b \in Batch
  PROVE  /\ b.version \in Nat /\ b.version + 1 \in Nat /\ b.root \in Nat /\ b.gone \in BOOLEAN
         /\ b.status \in Statuses /\ b.questions \in [Questions -> {"none", "plain", "redacted"}]
BY DEF Batch

LEMMA BatchWithStatus ==
  ASSUME NEW b \in Batch, NEW s \in Statuses
  PROVE  [b EXCEPT !.status = s] \in Batch
BY DEF Batch

LEMMA BatchGone ==
  ASSUME NEW b \in Batch
  PROVE  [b EXCEPT !.gone = TRUE] \in Batch
BY DEF Batch

LEMMA BatchWith ==
  ASSUME NEW b \in Batch, NEW s \in Statuses, NEW v \in Nat, NEW n \in Nat,
         NEW c \in [Questions -> {"none", "plain", "redacted"}]
  PROVE  /\ [b EXCEPT !.status = s, !.questions = c, !.root = n, !.version = v] \in Batch
         /\ [b EXCEPT !.status = s, !.version = v, !.questions = c] \in Batch
BY DEF Batch

LEMMA TypeStep == TypeOK /\ [Next]_vars => TypeOK'
<1> SUFFICES ASSUME TypeOK, [Next]_vars PROVE TypeOK'
  OBVIOUS
<1>0. NoQuestion \in Questions
  BY NoQuestionType
<1>1. ASSUME NEW r \in Requests, NEW o \in Changes, NEW q \in Questions, Change(r, o, q)
      PROVE  TypeOK'
  BY <1>1, LoadType DEF Change, Ops, Own
<1>2. ASSUME NEW r \in Requests, Submit(r) \/ Discard(r) \/ Delete(r)
      PROVE  TypeOK'
  BY <1>0, <1>2, LoadType DEF Submit, Discard, Delete, Ops, Own
<1>3. ASSUME NEW r \in Requests, NEW o \in Decisions, Review(r, o)
      PROVE  TypeOK'
  BY <1>0, <1>3, LoadType DEF Review, Ops
<1>4. ASSUME NEW r \in Requests, SaveChange(r)
      PROVE  TypeOK'
  <2>1. batch' \in Batch
    <3> DEFINE q == question[r]
               new == CASE op[r] = "remove" -> "none"
                        [] op[r] = "edit" /\ batch.questions[q] = "none" -> "none"
                        [] OTHER -> "plain"
               v == IF op[r] = "edit" THEN batch.version ELSE batch.version + 1
    <3>1. new \in {"none", "plain", "redacted"} /\ q \in Questions /\ v \in Nat
      BY DEF TypeOK, Batch
    <3>2. CASE UNCHANGED batch
      BY <3>2 DEF TypeOK
    <3>3. CASE batch' = [batch EXCEPT !.questions[q] = new, !.version = v]
      <4> HIDE DEF new, v, q
      <4> QED BY <3>1, <3>3 DEF TypeOK, Batch
    <3> QED BY <1>4, <3>2, <3>3 DEF SaveChange
  <2> QED BY <1>4, <2>1, FinishType DEF TypeOK, SaveChange
<1>5. ASSUME NEW r \in Requests, SaveSubmit(r) \/ SaveMark(r)
      PROVE  TypeOK'
  <2>1. batch' \in Batch
    <3>1. \E s \in {"Submitted", "MarkForReview"} : batch' = [batch EXCEPT !.status = Status(r, s)]
      BY <1>5 DEF SaveSubmit, SaveMark
    <3>2. \A s \in {"Submitted", "MarkForReview"} : Status(r, s) \in Statuses
      BY StatusType DEF Statuses
    <3> QED BY <3>1, <3>2, BatchWithStatus DEF TypeOK
  <2> QED BY <1>5, <2>1, FinishType DEF TypeOK, SaveSubmit, SaveMark, Reopens
<1>6. ASSUME NEW r \in Requests, SaveDiscard(r) \/ SaveDelete(r)
      PROVE  TypeOK'
  <2>1. batch' \in Batch
    BY <1>6, BatchGone DEF SaveDiscard, SaveDelete, TypeOK
  <2> QED BY <1>6, <2>1, FinishType DEF TypeOK, SaveDiscard, SaveDelete, ghostVars
<1>7. ASSUME NEW r \in Requests, Insert(r)
      PROVE  TypeOK'
  <2>1. bank' \subseteq Nat \X Questions
    BY <1>7 DEF TypeOK, Insert, Listed
  <2> QED BY <1>7, <2>1 DEF TypeOK, Insert, ghostVars
<1>8. ASSUME NEW r \in Requests, SaveAccept(r)
      PROVE  TypeOK'
  <2>1. CASE InTime(r)
    <3>1. batch' = [batch EXCEPT !.status = "Accepted", !.questions = Redacted(doc[r]),
                                 !.root = inserted[r], !.version = batch.version + 1]
      BY <1>8, <2>1 DEF SaveAccept, TypeOK, Batch
    <3>2. batch' \in Batch
      <4>1. "Accepted" \in Statuses /\ batch.version + 1 \in Nat /\ inserted[r] \in Nat
            /\ Redacted(doc[r]) \in [Questions -> {"none", "plain", "redacted"}]
            /\ batch \in Batch
        BY RedactedType, BatchType DEF TypeOK, Statuses
      <4> QED BY <3>1, <4>1, BatchWith
    <3> QED BY <1>8, <2>1, <3>2 DEF TypeOK, SaveAccept
  <2>2. CASE ~InTime(r)
    BY <1>8, <2>2, FinishType DEF TypeOK, SaveAccept
  <2> QED BY <2>1, <2>2
<1>9. ASSUME NEW r \in Requests, AcceptStops(r) \/ Enqueue(r)
      PROVE  TypeOK'
  BY <1>9, FinishType DEF TypeOK, AcceptStops, Enqueue, Committed, ghostVars
<1>10. ASSUME NEW r \in Requests, SaveReject(r)
       PROVE  TypeOK'
  <2>1. CASE InTime(r)
    <3>1. batch' = [batch EXCEPT !.status = Status(r, "Rejected"), !.version = batch.version + 1,
                                 !.questions = [q \in Questions |-> "none"]]
      BY <1>10, <2>1 DEF SaveReject, TypeOK, Batch
    <3>2. batch' \in Batch
      <4>1. Status(r, "Rejected") \in Statuses /\ batch.version + 1 \in Nat
            /\ [q \in Questions |-> "none"] \in [Questions -> {"none", "plain", "redacted"}]
            /\ batch \in Batch
        BY StatusType, BatchType DEF TypeOK, Statuses
      <4> QED BY <3>1, <4>1, BatchWith
    <3> QED BY <1>10, <2>1, <3>2, FinishType DEF TypeOK, SaveReject, Reopens
  <2>2. CASE ~InTime(r)
    BY <1>10, <2>2, FinishType DEF TypeOK, SaveReject
  <2> QED BY <2>1, <2>2
<1>11. ASSUME NEW r \in Requests, EmptyBank(r)
       PROVE  TypeOK'
  <2>1. doc[r].root \in Nat
    BY BatchType DEF TypeOK
  <2>2. bank' \subseteq Nat \X Questions /\ dropped' \subseteq Nat
    BY <1>11, <2>1 DEF TypeOK, EmptyBank
  <2> QED BY <1>11, <2>2 DEF TypeOK, EmptyBank
<1>12. CASE Sweep \/ SweepEnqueue
  <2>1. batch.root \in Nat
    BY BatchType DEF TypeOK
  <2>2. commitment' \in Nat /\ sweep' \in Nat
    BY <1>12, <2>1 DEF TypeOK, Sweep, SweepEnqueue, Committed
  <2> QED BY <1>12, <2>2 DEF TypeOK, Sweep, SweepEnqueue, reqVars, ghostVars
<1>13. CASE UNCHANGED vars
  BY <1>13 DEF TypeOK, vars, reqVars, ghostVars
<1> QED BY <1>1, <1>2, <1>3, <1>4, <1>5, <1>6, <1>7, <1>8, <1>9, <1>10, <1>11, <1>12, <1>13
     DEF Next

-----------------------------------------------------------------------------
(* What a step does.                                                       *)

\* An acceptance that is in time finds a batch that is not accepted.
LEMMA AcceptsOnce ==
  ASSUME TypeOK, CopiesInTime, InsertedAccepts, NEW r \in Requests, at[r] = "inserted", InTime(r)
  PROVE  batch.status # "Accepted"
BY DEF CopiesInTime, InsertedAccepts, InTime

\* A rejection that is in time of an accepted batch makes it a rejected one.
LEMMA RejectsAccepted ==
  ASSUME TypeOK, CopiesInTime, NEW r \in Requests, at[r] = "loaded", InTime(r),
         batch.status = "Accepted"
  PROVE  Status(r, "Rejected") = "Rejected"
BY DEF CopiesInTime, InTime, Status

\* The version never falls, and a batch becomes accepted with a new one.  An
\* accepted batch that gets another status is reopened; its root stays.
LEMMA BatchStep ==
  ASSUME TypeOK, CopiesInTime, InsertedAccepts, [Next]_vars
  PROVE  /\ batch'.version >= batch.version
         /\ batch'.version = batch.version /\ batch'.status = "Accepted"
               => batch.status = "Accepted"
         /\ reopened => reopened'
         /\ batch.status = "Accepted" => \/ batch'.status = "Accepted" /\ batch'.root = batch.root
                                         \/ reopened'
         /\ batch.status = "Accepted" => batch'.root = batch.root
<1> DEFINE Goal == /\ batch'.version >= batch.version
                   /\ batch'.version = batch.version /\ batch'.status = "Accepted"
                         => batch.status = "Accepted"
                   /\ reopened => reopened'
                   /\ batch.status = "Accepted" =>
                         \/ batch'.status = "Accepted" /\ batch'.root = batch.root
                         \/ reopened'
                   /\ batch.status = "Accepted" => batch'.root = batch.root
<1>0. batch.version \in Nat /\ batch \in Batch
  BY BatchType DEF TypeOK
<1>1. CASE batch' = batch /\ reopened' = reopened
  BY <1>0, <1>1
<1>2. ASSUME NEW r \in Requests, SaveChange(r)
      PROVE  Goal
  <2>1. CASE UNCHANGED batch
    BY <1>0, <1>2, <2>1 DEF SaveChange
  <2>2. CASE ~ UNCHANGED batch
    <3>1. \E q, v : /\ v \in {batch.version, batch.version + 1}
                    /\ batch' = [batch EXCEPT !.questions[question[r]] = q, !.version = v]
      BY <1>2, <2>2 DEF SaveChange
    <3>2. /\ batch'.version \in {batch.version, batch.version + 1}
          /\ batch'.status = batch.status /\ batch'.root = batch.root
      BY <1>0, <3>1 DEF Batch
    <3>3. reopened' = reopened
      BY <1>2 DEF SaveChange
    <3> QED BY <1>0, <3>2, <3>3
  <2> QED BY <2>1, <2>2
<1>3. ASSUME NEW r \in Requests, NEW s \in {"Submitted", "MarkForReview"},
             batch' = [batch EXCEPT !.status = Status(r, s)], Reopens(batch'.status)
      PROVE  Goal
  <2>1. batch'.version = batch.version /\ batch'.root = batch.root /\ batch'.status = Status(r, s)
    BY <1>0, <1>3 DEF Batch
  <2>2. reopened => reopened'
    BY <1>3 DEF Reopens
  <2>3. batch.status = "Accepted" /\ batch'.status # "Accepted" => reopened'
    BY <1>3 DEF Reopens
  <2>4. batch'.status = "Accepted" => batch.status = "Accepted"
    BY <2>1 DEF Status
  <2> QED BY <1>0, <2>1, <2>2, <2>3, <2>4
<1>4. ASSUME NEW r \in Requests, SaveDiscard(r) \/ SaveDelete(r)
      PROVE  Goal
  BY <1>0, <1>4 DEF SaveDiscard, SaveDelete, ghostVars, Batch
<1>5. ASSUME NEW r \in Requests, SaveAccept(r)
      PROVE  Goal
  <2>1. CASE InTime(r)
    <3>1. batch.status # "Accepted" /\ reopened' = reopened
      BY <1>5, <2>1, AcceptsOnce DEF SaveAccept
    <3>2. batch'.version = batch.version + 1
      BY <1>0, <1>5, <2>1 DEF SaveAccept, Batch
    <3> QED BY <1>0, <3>1, <3>2
  <2>2. CASE ~InTime(r)
    BY <1>0, <1>5, <2>2 DEF SaveAccept
  <2> QED BY <2>1, <2>2
<1>6. ASSUME NEW r \in Requests, SaveReject(r)
      PROVE  Goal
  <2>1. CASE InTime(r)
    <3>1. /\ batch'.version = batch.version + 1 /\ batch'.root = batch.root
          /\ batch'.status = Status(r, "Rejected")
      BY <1>0, <1>6, <2>1 DEF SaveReject, Batch
    <3>2. reopened => reopened'
      BY <1>6, <2>1 DEF SaveReject, Reopens
    <3>3. batch.status = "Accepted" /\ batch'.status # "Accepted" => reopened'
      BY <1>6, <2>1 DEF SaveReject, Reopens
    <3>4. ~(batch'.version = batch.version)
      BY <1>0, <3>1
    <3>5. batch'.version >= batch.version
      BY <1>0, <3>1
    <3> QED BY <3>1, <3>2, <3>3, <3>4, <3>5
  <2>2. CASE ~InTime(r)
    BY <1>0, <1>6, <2>2 DEF SaveReject
  <2> QED BY <2>1, <2>2
<1>7. CASE ~ \E r \in Requests : \/ SaveChange(r) \/ SaveSubmit(r) \/ SaveMark(r) \/ SaveDiscard(r)
                                 \/ SaveDelete(r) \/ SaveAccept(r) \/ SaveReject(r)
  BY <1>1, <1>7 DEF Next, Change, Submit, Discard, Delete, Review, Load, Insert, AcceptStops,
                    Enqueue, EmptyBank, Sweep, SweepEnqueue, vars, ghostVars
<1> QED BY <1>2, <1>3, <1>4, <1>5, <1>6, <1>7 DEF SaveSubmit, SaveMark

\* A request goes on with its copy, or begins with a copy of the batch.
LEMMA RequestStep ==
  ASSUME TypeOK, InsertedAccepts, [Next]_vars, NEW q \in Requests, at'[q] # "idle"
  PROVE  \/ /\ at[q] # "idle" /\ doc'[q] = doc[q] /\ op'[q] = op[q]
            /\ at'[q] \in {"loaded", "inserted"} => at[q] \in {"loaded", "inserted"}
            /\ at'[q] = "inserted" => op'[q] = "Accept"
         \/ /\ batch' = batch /\ doc'[q] = batch /\ at'[q] = "loaded"
            /\ op'[q] = "Accept" => batch.status # "Accepted"
<1> DEFINE Goal == \/ /\ at[q] # "idle" /\ doc'[q] = doc[q] /\ op'[q] = op[q]
                      /\ at'[q] \in {"loaded", "inserted"} => at[q] \in {"loaded", "inserted"}
                      /\ at'[q] = "inserted" => op'[q] = "Accept"
                   \/ /\ batch' = batch /\ doc'[q] = batch /\ at'[q] = "loaded"
                      /\ op'[q] = "Accept" => batch.status # "Accepted"
<1>1. CASE UNCHANGED reqVars
  BY <1>1 DEF reqVars, InsertedAccepts
<1>2. ASSUME NEW r \in Requests, NEW o, NEW p, Load(r, o, p),
             o = "Accept" => batch.status # "Accepted"
      PROVE  Goal
  BY <1>2 DEF Load, TypeOK, InsertedAccepts
<1>3. ASSUME NEW r \in Requests, Finish(r)
      PROVE  Goal
  BY <1>3 DEF Finish, TypeOK, InsertedAccepts
<1>4. ASSUME NEW r \in Requests, Insert(r)
      PROVE  Goal
  BY <1>4 DEF Insert, TypeOK, InsertedAccepts
<1>5. ASSUME NEW r \in Requests, SaveAccept(r)
      PROVE  Goal
  <2>1. CASE InTime(r)
    BY <1>5, <2>1 DEF SaveAccept, TypeOK, InsertedAccepts
  <2>2. CASE ~InTime(r)
    BY <1>3, <1>5, <2>2 DEF SaveAccept
  <2> QED BY <2>1, <2>2
<1>6. ASSUME NEW r \in Requests, EmptyBank(r)
      PROVE  Goal
  BY <1>6 DEF EmptyBank, TypeOK, InsertedAccepts
<1>7. ASSUME NEW r \in Requests, \/ \E o \in Changes, p \in Questions : Change(r, o, p)
                                 \/ Submit(r) \/ Discard(r) \/ Delete(r)
                                 \/ \E o \in Decisions : Review(r, o)
      PROVE  Goal
  BY <1>2, <1>7 DEF Change, Submit, Discard, Delete, Review, Changes
<1>8. CASE Sweep \/ SweepEnqueue \/ UNCHANGED vars
  BY <1>1, <1>8 DEF Sweep, SweepEnqueue, vars
<1>9. ASSUME NEW r \in Requests, \/ SaveChange(r) \/ SaveSubmit(r) \/ SaveDiscard(r)
                                 \/ AcceptStops(r) \/ Enqueue(r) \/ SaveReject(r) \/ SaveMark(r)
                                 \/ SaveDelete(r)
      PROVE  Goal
  BY <1>3, <1>9 DEF SaveChange, SaveSubmit, SaveDiscard, AcceptStops, Enqueue, SaveReject,
                    SaveMark, SaveDelete
<1> QED BY <1>4, <1>5, <1>6, <1>7, <1>8, <1>9 DEF Next

LEMMA CopiesStep ==
  ASSUME TypeOK, CopiesInTime, InsertedAccepts, [Next]_vars
  PROVE  CopiesInTime' /\ InsertedAccepts'
<1>1. batch.version \in Nat /\ batch'.version \in Nat /\ \A r \in Requests : doc[r].version \in Nat
  <2>1. TypeOK'
    BY TypeStep
  <2> QED BY <2>1, BatchType DEF TypeOK
<1>2. CopiesInTime'
  <2> SUFFICES ASSUME NEW q \in Requests, at'[q] # "idle"
               PROVE  /\ doc'[q].version <= batch'.version
                      /\ doc'[q].version = batch'.version /\ batch'.status = "Accepted"
                            => doc'[q].status = "Accepted"
                      /\ op'[q] = "Accept" /\ at'[q] \in {"loaded", "inserted"}
                            => doc'[q].status # "Accepted"
    BY DEF CopiesInTime
  <2>1. CASE /\ at[q] # "idle" /\ doc'[q] = doc[q] /\ op'[q] = op[q]
             /\ at'[q] \in {"loaded", "inserted"} => at[q] \in {"loaded", "inserted"}
    <3>1. /\ batch'.version >= batch.version
          /\ batch'.version = batch.version /\ batch'.status = "Accepted" => batch.status = "Accepted"
      BY BatchStep
    <3> QED BY <1>1, <2>1, <3>1 DEF CopiesInTime
  <2>2. CASE /\ batch' = batch /\ doc'[q] = batch /\ at'[q] = "loaded"
             /\ op'[q] = "Accept" => batch.status # "Accepted"
    BY <1>1, <2>2
  <2> QED BY <2>1, <2>2, RequestStep
<1>3. InsertedAccepts'
  BY RequestStep DEF InsertedAccepts
<1> QED BY <1>2, <1>3

-----------------------------------------------------------------------------
(* The bank.                                                               *)

\* Four kinds of step: an insertMany, an acceptance that is saved, a deletion that
\* empties the bank, and the rest, which leaves the bank to whom it belonged.
LEMMA BankStep ==
  ASSUME TypeOK, InsertedAccepts, [Next]_vars
  PROVE  \/ \E r \in Requests : Insert(r)
         \/ \E r \in Requests : EmptyBank(r)
         \/ \E r \in Requests : SaveAccept(r) /\ InTime(r)
         \/ /\ UNCHANGED <<bank, inserts, dropped>>
            /\ \A q \in Requests : \/ at'[q] \notin {"inserted", "enqueue"} /\ inserted'[q] = 0
                                   \/ /\ at'[q] = at[q] \/ at'[q] = "loaded"
                                      /\ inserted'[q] = inserted[q] /\ doc'[q] = doc[q]
                                   \/ at'[q] = "loaded" /\ inserted'[q] = inserted[q]
            /\ \A q \in Requests : at[q] = "inserted" => at'[q] = "inserted" \/ failed'
<1> DEFINE Rest == /\ \A q \in Requests : \/ at'[q] \notin {"inserted", "enqueue"} /\ inserted'[q] = 0
                                          \/ /\ at'[q] = at[q] \/ at'[q] = "loaded"
                                             /\ inserted'[q] = inserted[q] /\ doc'[q] = doc[q]
                                          \/ at'[q] = "loaded" /\ inserted'[q] = inserted[q]
                   /\ \A q \in Requests : at[q] = "inserted" => at'[q] = "inserted" \/ failed'
<1>1. ASSUME UNCHANGED reqVars
      PROVE  Rest
  BY <1>1 DEF reqVars
<1>2. ASSUME NEW r \in Requests, Finish(r), at[r] = "inserted" => failed'
      PROVE  Rest
  BY <1>2 DEF Finish, TypeOK
<1>3. ASSUME NEW r \in Requests, NEW o, NEW p, Load(r, o, p)
      PROVE  Rest
  BY <1>3 DEF Load, TypeOK
<1>4. CASE \E r \in Requests : \/ \E o \in Changes, p \in Questions : Change(r, o, p)
                               \/ Submit(r) \/ Discard(r) \/ Delete(r)
                               \/ \E o \in Decisions : Review(r, o)
  <2>1. Rest
    BY <1>3, <1>4 DEF Change, Submit, Discard, Delete, Review
  <2> QED BY <1>4, <2>1 DEF Change, Submit, Discard, Delete, Review, Load, ghostVars
<1>5. CASE \E r \in Requests : \/ SaveChange(r) \/ SaveSubmit(r) \/ SaveDiscard(r) \/ AcceptStops(r)
                               \/ Enqueue(r) \/ SaveReject(r) \/ SaveMark(r) \/ SaveDelete(r)
                               \/ SaveAccept(r) /\ ~InTime(r)
  <2>1. Rest
    BY <1>2, <1>5 DEF SaveChange, SaveSubmit, SaveDiscard, AcceptStops, Enqueue, SaveReject,
                      SaveMark, SaveDelete, SaveAccept
  <2> QED BY <1>5, <2>1 DEF SaveChange, SaveSubmit, SaveDiscard, AcceptStops, Enqueue, SaveReject,
                            SaveMark, SaveDelete, SaveAccept, ghostVars
<1>6. CASE Sweep \/ SweepEnqueue \/ UNCHANGED vars
  BY <1>1, <1>6 DEF Sweep, SweepEnqueue, vars, ghostVars
<1> QED BY <1>4, <1>5, <1>6 DEF Next

\* Numbers and copies of the acceptances in progress.
LEMMA InsertedStep ==
  ASSUME TypeOK, InsertedAccepts, NumbersUsed, InsertedInBank, [Next]_vars
  PROVE  NumbersUsed' /\ InsertedInBank'
<1>0. /\ inserts \in Nat /\ \A r \in Requests : inserted[r] \in Nat
      /\ bank \subseteq Nat \X Questions
  BY DEF TypeOK
<1>1. ASSUME NEW r \in Requests, Insert(r)
      PROVE  NumbersUsed' /\ InsertedInBank'
  <2>1. /\ inserts' = inserts + 1 /\ doc' = doc /\ dropped' = dropped
        /\ bank' = bank \cup {<<inserts', q>> : q \in Listed(doc[r])}
        /\ at' = [at EXCEPT ![r] = "inserted"]
        /\ inserted' = [inserted EXCEPT ![r] = inserts']
    BY <1>1 DEF Insert, ghostVars
  <2>2. \A b \in bank' : \/ b \in bank /\ b[1] <= inserts
                         \/ b[1] = inserts + 1 /\ b[2] \in Listed(doc[r])
    BY <2>1 DEF NumbersUsed
  <2>3. /\ inserted'[r] = inserts + 1 /\ at'[r] = "inserted"
        /\ \A q \in Requests : q # r => inserted'[q] = inserted[q] /\ at'[q] = at[q]
    BY <2>1 DEF TypeOK
  <2>4. NumbersUsed'
    <3>1. \A b \in bank' : b[1] <= inserts'
      BY <1>0, <2>1, <2>2
    <3>2. \A q \in Requests : inserted'[q] <= inserts'
      BY <1>0, <2>1, <2>3 DEF NumbersUsed
    <3> QED BY <3>1, <3>2 DEF NumbersUsed
  <2>5. ASSUME NEW q \in Requests, at'[q] = "inserted"
        PROVE  /\ \A b \in bank' : b[1] = inserted'[q] => b[2] \in Listed(doc[q])
               /\ \A x \in Listed(doc[q]) : <<inserted'[q], x>> \in bank' \/ inserted'[q] \in dropped
    <3>1. CASE q = r
      <4>1. \A b \in bank' : b[1] = inserted'[q] => b[2] \in Listed(doc[q])
        BY <1>0, <2>2, <2>3, <3>1
      <4>2. \A x \in Listed(doc[q]) : <<inserted'[q], x>> \in bank'
        BY <2>1, <2>3, <3>1
      <4> QED BY <4>1, <4>2
    <3>2. CASE q # r
      <4>1. inserted'[q] = inserted[q] /\ at[q] = "inserted" /\ inserted[q] <= inserts
        BY <2>3, <2>5, <3>2 DEF NumbersUsed
      <4>2. \A b \in bank' : b[1] = inserted'[q] => b \in bank
        BY <1>0, <2>2, <4>1
      <4> QED BY <2>1, <4>1, <4>2 DEF InsertedInBank
    <3> QED BY <3>1, <3>2
  <2> QED BY <2>1, <2>4, <2>5 DEF InsertedInBank, Listed
<1>2. ASSUME NEW r \in Requests, EmptyBank(r)
      PROVE  NumbersUsed' /\ InsertedInBank'
  <2>1. /\ inserts' = inserts /\ inserted' = inserted /\ doc' = doc
        /\ bank' \subseteq bank /\ dropped \subseteq dropped'
        /\ \A b \in bank : b \notin bank' => b[1] \in dropped'
        /\ \A q \in Requests : at'[q] = "inserted" => at[q] = "inserted"
    BY <1>2 DEF EmptyBank, OfRoot, TypeOK
  <2>2. NumbersUsed'
    BY <2>1 DEF NumbersUsed
  <2>3. InsertedInBank'
    <3> SUFFICES ASSUME NEW q \in Requests, at'[q] = "inserted"
                 PROVE  /\ \A b \in bank' : b[1] = inserted[q] => b[2] \in Listed(doc[q])
                        /\ \A x \in Listed(doc[q]) : <<inserted[q], x>> \in bank'
                                                     \/ inserted[q] \in dropped'
      BY <2>1 DEF InsertedInBank, Listed
    <3>1. at[q] = "inserted"
      BY <2>1
    <3>2. \A x : <<inserted[q], x>>[1] = inserted[q]
      OBVIOUS
    <3> QED BY <2>1, <3>1, <3>2 DEF InsertedInBank
  <2> QED BY <2>2, <2>3
<1>3. ASSUME NEW r \in Requests, SaveAccept(r), InTime(r)
      PROVE  NumbersUsed' /\ InsertedInBank'
  BY <1>3 DEF SaveAccept, TypeOK, NumbersUsed, InsertedInBank, Listed
<1>4. CASE /\ UNCHANGED <<bank, inserts, dropped>>
           /\ \A q \in Requests : \/ at'[q] \notin {"inserted", "enqueue"} /\ inserted'[q] = 0
                                  \/ /\ at'[q] = at[q] \/ at'[q] = "loaded"
                                     /\ inserted'[q] = inserted[q] /\ doc'[q] = doc[q]
                                  \/ at'[q] = "loaded" /\ inserted'[q] = inserted[q]
  <2>1. NumbersUsed'
    BY <1>0, <1>4 DEF NumbersUsed
  <2>2. InsertedInBank'
    BY <1>4 DEF InsertedInBank, Listed
  <2> QED BY <2>1, <2>2
<1> QED BY <1>1, <1>2, <1>3, <1>4, BankStep

-----------------------------------------------------------------------------
(* The commitment.                                                         *)

LEMMA CommitStep ==
  ASSUME TypeOK, CopiesInTime, InsertedAccepts, EnqueuesRoot, CommittedIsRoot, [Next]_vars
  PROVE  EnqueuesRoot' /\ CommittedIsRoot'
<1>0. /\ reopened => reopened'
      /\ batch.status = "Accepted" => \/ batch'.status = "Accepted" /\ batch'.root = batch.root
                                      \/ reopened'
  BY BatchStep
<1>1. ASSUME NEW r \in Requests, SaveAccept(r), InTime(r)
      PROVE  EnqueuesRoot' /\ CommittedIsRoot'
  <2>1. /\ batch' = [batch EXCEPT !.status = "Accepted", !.questions = Redacted(doc[r]),
                                  !.root = inserted[r], !.version = @ + 1]
        /\ UNCHANGED <<inserted, commitment, sweep, reopened>>
        /\ at' = [at EXCEPT ![r] = "enqueue"] /\ at[r] = "inserted"
    BY <1>1 DEF SaveAccept
  <2>2. batch'.status = "Accepted" /\ batch'.root = inserted[r]
    BY <2>1 DEF TypeOK, Batch
  <2>3. batch.status # "Accepted"
    BY <1>1, <2>1, AcceptsOnce
  <2>4. \A q \in Requests : q # r => at'[q] = at[q]
    BY <2>1 DEF TypeOK
  <2> QED BY <2>1, <2>2, <2>3, <2>4 DEF EnqueuesRoot, CommittedIsRoot
<1>2. ASSUME NEW r \in Requests, Insert(r) \/ EmptyBank(r)
      PROVE  EnqueuesRoot' /\ CommittedIsRoot'
  <2>1. /\ \A q \in Requests : at'[q] = "enqueue" => at[q] = "enqueue" /\ inserted'[q] = inserted[q]
        /\ UNCHANGED <<batch, commitment, sweep, reopened>>
    BY <1>2 DEF Insert, EmptyBank, TypeOK, ghostVars
  <2> QED BY <2>1 DEF EnqueuesRoot, CommittedIsRoot
<1>3. CASE \A q \in Requests : \/ at'[q] \notin {"inserted", "enqueue"} /\ inserted'[q] = 0
                               \/ /\ at'[q] = at[q] \/ at'[q] = "loaded"
                                  /\ inserted'[q] = inserted[q] /\ doc'[q] = doc[q]
                               \/ at'[q] = "loaded" /\ inserted'[q] = inserted[q]
  <2>4. \/ sweep' \in {sweep, 0}
        \/ batch.status = "Accepted" /\ sweep' = batch.root /\ batch' = batch
    BY DEF Next, Change, Submit, Discard, Delete, Review, Load, SaveChange, SaveSubmit, SaveDiscard,
           Insert, SaveAccept, AcceptStops, Enqueue, SaveReject, SaveMark, EmptyBank, SaveDelete,
           Sweep, SweepEnqueue, vars
  <2>1. EnqueuesRoot'
    BY <1>0, <1>3, <2>4 DEF EnqueuesRoot
  <2>2. \/ commitment' = commitment
        \/ sweep # 0 /\ commitment' = Committed(commitment, sweep)
        \/ \E r \in Requests : at[r] = "enqueue" /\ commitment' = Committed(commitment, inserted[r])
    BY DEF Next, Change, Submit, Discard, Delete, Review, Load, SaveChange, SaveSubmit, SaveDiscard,
           Insert, SaveAccept, AcceptStops, Enqueue, SaveReject, SaveMark, EmptyBank, SaveDelete,
           Sweep, SweepEnqueue, Committed, vars
  <2>3. CommittedIsRoot'
    BY <1>0, <2>2 DEF CommittedIsRoot, EnqueuesRoot, Committed
  <2> QED BY <2>1, <2>3
<1> QED BY <1>1, <1>2, <1>3, BankStep

-----------------------------------------------------------------------------
(* The questions of an accepted batch.                                     *)

\* The history only grows.
LEMMA HistoryStep ==
  ASSUME [Next]_vars
  PROVE  (late => late') /\ (reopened => reopened') /\ (failed => failed')
<1> DEFINE Goal == (late => late') /\ (reopened => reopened') /\ (failed => failed')
<1>1. ASSUME NEW r \in Requests
      PROVE  /\ SaveChange(r) => Goal
             /\ SaveSubmit(r) \/ SaveMark(r) => Goal
             /\ SaveReject(r) => Goal
             /\ SaveAccept(r) => Goal
             /\ AcceptStops(r) => Goal
             /\ EmptyBank(r) => Goal
  <2>1. SaveChange(r) => Goal
    <3>1. SaveChange(r) => /\ late' = late \/ late' = (late \/ batch.status \notin Editable)
                           /\ reopened' = reopened /\ failed' = failed
      BY DEF SaveChange
    <3> QED BY <3>1, Zenon
  <2>2. SaveSubmit(r) \/ SaveMark(r) => Goal
    <3>1. SaveSubmit(r) \/ SaveMark(r) =>
            /\ late' = late /\ failed' = failed
            /\ reopened' = (reopened \/ (batch.status = "Accepted" /\ batch'.status # "Accepted"))
      BY DEF SaveSubmit, SaveMark, Reopens
    <3> QED BY <3>1, Zenon
  <2>3. SaveReject(r) => Goal
    <3>1. SaveReject(r) =>
            /\ late' = late /\ failed' = failed
            /\ \/ reopened' = reopened
               \/ reopened' = (reopened \/ (batch.status = "Accepted" /\ batch'.status # "Accepted"))
      BY DEF SaveReject, Reopens
    <3> QED BY <3>1, Zenon
  <2>4. SaveAccept(r) => Goal
    BY DEF SaveAccept
  <2>5. AcceptStops(r) => Goal
    <3>1. AcceptStops(r) => /\ late' = late /\ reopened' = reopened
                            /\ failed' = (failed \/ at[r] = "inserted")
      BY DEF AcceptStops
    <3> QED BY <3>1, Zenon
  <2>6. EmptyBank(r) => Goal
    BY DEF EmptyBank
  <2> QED BY <2>1, <2>2, <2>3, <2>4, <2>5, <2>6
<1>2. ASSUME NEW r \in Requests,
             \/ \E o \in Changes, q \in Questions : Change(r, o, q)
             \/ Submit(r) \/ Discard(r) \/ Delete(r)
             \/ \E o \in Decisions : Review(r, o)
             \/ SaveDiscard(r) \/ Insert(r) \/ Enqueue(r) \/ SaveDelete(r)
      PROVE  Goal
  <2>1. UNCHANGED ghostVars
    BY <1>2 DEF Change, Submit, Discard, Delete, Review, Load, SaveDiscard, Insert, Enqueue, SaveDelete
  <2> QED BY <2>1 DEF ghostVars
<1>3. CASE Sweep \/ SweepEnqueue
  BY <1>3 DEF Sweep, SweepEnqueue, ghostVars
<1>4. CASE UNCHANGED vars
  BY <1>4 DEF vars, ghostVars
<1>5. CASE \E r \in Requests :
             \/ \E o \in Changes, q \in Questions : Change(r, o, q)
             \/ Submit(r) \/ Discard(r) \/ Delete(r)
             \/ \E o \in Decisions : Review(r, o)
             \/ SaveChange(r) \/ SaveSubmit(r) \/ SaveDiscard(r)
             \/ Insert(r) \/ SaveAccept(r) \/ AcceptStops(r) \/ Enqueue(r)
             \/ SaveReject(r) \/ SaveMark(r)
             \/ EmptyBank(r) \/ SaveDelete(r)
  <2>1. PICK r \in Requests :
             \/ \E o \in Changes, q \in Questions : Change(r, o, q)
             \/ Submit(r) \/ Discard(r) \/ Delete(r)
             \/ \E o \in Decisions : Review(r, o)
             \/ SaveChange(r) \/ SaveSubmit(r) \/ SaveDiscard(r)
             \/ Insert(r) \/ SaveAccept(r) \/ AcceptStops(r) \/ Enqueue(r)
             \/ SaveReject(r) \/ SaveMark(r)
             \/ EmptyBank(r) \/ SaveDelete(r)
    BY <1>5
  <2> QED BY <1>1, <1>2, <2>1
<1> QED BY <1>3, <1>4, <1>5 DEF Next

\* But for an acceptance, who is accepted has been so, with the same questions
\* unless a professor's save came late.
LEMMA QuestionsStep ==
  ASSUME TypeOK, CopiesInTime, InsertedAccepts, [Next]_vars,
         ~ \E r \in Requests : SaveAccept(r) /\ InTime(r),
         batch'.status = "Accepted", ~late'
  PROVE  /\ batch.status = "Accepted" /\ batch'.root = batch.root
         /\ batch'.questions = batch.questions
<1> DEFINE Goal == /\ batch.status = "Accepted" /\ batch'.root = batch.root
                   /\ batch'.questions = batch.questions
<1>0. batch \in Batch
  BY DEF TypeOK
<1>1. ASSUME NEW r \in Requests, SaveChange(r)
      PROVE  Goal
  <2>1. CASE UNCHANGED batch
    BY <2>1
  <2>2. CASE ~ UNCHANGED batch
    <3>1. \E q, v : batch' = [batch EXCEPT !.questions[question[r]] = q, !.version = v]
      BY <1>1, <2>2 DEF SaveChange
    <3>2. batch'.status = batch.status
      BY <1>0, <3>1 DEF Batch
    <3>3. late' = (late \/ batch.status \notin Editable)
      BY <1>1, <2>2 DEF SaveChange
    <3> QED BY <3>2, <3>3 DEF Editable
  <2> QED BY <2>1, <2>2
<1>2. ASSUME NEW r \in Requests, NEW s \in {"Submitted", "MarkForReview"},
             batch' = [batch EXCEPT !.status = Status(r, s)]
      PROVE  Goal
  BY <1>0, <1>2 DEF Batch, Status
<1>3. ASSUME NEW r \in Requests, SaveDiscard(r) \/ SaveDelete(r)
      PROVE  Goal
  BY <1>0, <1>3 DEF SaveDiscard, SaveDelete, Batch
<1>4. ASSUME NEW r \in Requests, SaveReject(r)
      PROVE  Goal
  <2>1. CASE InTime(r)
    <3>1. batch'.status = Status(r, "Rejected")
      BY <1>0, <1>4, <2>1 DEF SaveReject, Batch
    <3>2. batch.status = "Accepted"
      BY <3>1 DEF Status
    <3>3. at[r] = "loaded"
      BY <1>4 DEF SaveReject
    <3> QED BY <2>1, <3>1, <3>2, <3>3, RejectsAccepted
  <2>2. CASE ~InTime(r)
    BY <1>4, <2>2 DEF SaveReject
  <2> QED BY <2>1, <2>2
<1>5. CASE batch' = batch
  BY <1>5
<1> QED BY <1>1, <1>2, <1>3, <1>4, <1>5
     DEF Next, Change, Submit, Discard, Delete, Review, Load, SaveSubmit, Insert, SaveAccept,
         AcceptStops, Enqueue, SaveMark, EmptyBank, Sweep, SweepEnqueue, vars

\* The batch after an acceptance.
LEMMA AcceptedBatch ==
  ASSUME TypeOK, NEW r \in Requests, SaveAccept(r), InTime(r)
  PROVE  /\ batch'.status = "Accepted" /\ batch'.root = inserted[r]
         /\ \A q \in Listed(doc[r]) : batch'.questions[q] = "redacted"
         /\ Listed(batch') = Listed(doc[r])
<1>1. batch' = [batch EXCEPT !.status = "Accepted", !.questions = Redacted(doc[r]),
                             !.root = inserted[r], !.version = @ + 1]
  BY DEF SaveAccept
<1>2. /\ batch'.status = "Accepted" /\ batch'.root = inserted[r]
      /\ batch'.questions = Redacted(doc[r])
  BY <1>1 DEF TypeOK, Batch
<1> QED BY <1>2 DEF Redacted, Listed

LEMMA AcceptedStep ==
  ASSUME TypeOK, CopiesInTime, InsertedAccepts, InsertedInBank, AcceptedIsInBank, [Next]_vars
  PROVE  AcceptedIsInBank'
<1> SUFFICES ASSUME batch'.status = "Accepted", ~late', NEW q \in Listed(batch')
             PROVE  /\ batch'.questions[q] = "redacted"
                    /\ <<batch'.root, q>> \in bank' \/ batch'.root \in dropped'
  BY DEF AcceptedIsInBank, Listed
<1>1. ASSUME NEW r \in Requests, SaveAccept(r), InTime(r)
      PROVE  /\ batch'.questions[q] = "redacted"
             /\ <<batch'.root, q>> \in bank' \/ batch'.root \in dropped'
  <2>1. at[r] = "inserted" /\ UNCHANGED <<bank, dropped>>
    BY <1>1 DEF SaveAccept
  <2> QED BY <1>1, <2>1, AcceptedBatch DEF InsertedInBank
<1>2. CASE ~ \E r \in Requests : SaveAccept(r) /\ InTime(r)
  <2>1. /\ batch.status = "Accepted" /\ batch'.root = batch.root
        /\ batch'.questions = batch.questions /\ ~late
    BY <1>2, QuestionsStep, HistoryStep
  <2>2. /\ q \in Listed(batch)
    BY <2>1 DEF Listed
  <2>3. /\ batch.questions[q] = "redacted"
        /\ <<batch.root, q>> \in bank \/ batch.root \in dropped
    BY <2>1, <2>2 DEF AcceptedIsInBank
  <2>4. <<batch.root, q>>[1] = batch.root
    OBVIOUS
  <2>5. /\ dropped \subseteq dropped'
        /\ \A b \in bank : b \in bank' \/ b[1] \in dropped'
    <3>1. ASSUME NEW r \in Requests, EmptyBank(r)
          PROVE  /\ dropped \subseteq dropped'
                 /\ \A b \in bank : b \in bank' \/ b[1] \in dropped'
      BY <3>1 DEF EmptyBank, OfRoot
    <3>2. ASSUME NEW r \in Requests, Insert(r)
          PROVE  dropped' = dropped /\ bank \subseteq bank'
      BY <3>2 DEF Insert, ghostVars
    <3> QED BY <1>2, <3>1, <3>2, BankStep
  <2> QED BY <2>1, <2>3, <2>4, <2>5
<1> QED BY <1>1, <1>2

LEMMA ApprovedStep ==
  ASSUME TypeOK, CopiesInTime, InsertedAccepts, InsertedInBank, BankIsApproved, [Next]_vars
  PROVE  BankIsApproved'
<1> SUFFICES ASSUME NEW b \in bank', ~late', ~reopened', ~failed'
             PROVE  \/ /\ batch'.status = "Accepted" /\ b[1] = batch'.root
                       /\ batch'.questions[b[2]] = "redacted"
                    \/ \E r \in Requests : at'[r] = "inserted" /\ inserted'[r] = b[1]
  BY DEF BankIsApproved
<1> DEFINE Goal == \/ /\ batch'.status = "Accepted" /\ b[1] = batch'.root
                      /\ batch'.questions[b[2]] = "redacted"
                   \/ \E r \in Requests : at'[r] = "inserted" /\ inserted'[r] = b[1]
<1>1. ~late /\ ~reopened /\ ~failed
  BY HistoryStep
<1>2. CASE b \notin bank
  <2>1. PICK r \in Requests : Insert(r)
    BY <1>2, BankStep DEF EmptyBank, SaveAccept
  <2>2. /\ bank' = bank \cup {<<inserts', q>> : q \in Listed(doc[r])}
        /\ at'[r] = "inserted" /\ inserted'[r] = inserts'
    BY <2>1 DEF Insert, TypeOK
  <2>3. b[1] = inserts'
    BY <1>2, <2>2
  <2> QED BY <2>2, <2>3
<1>3. CASE b \in bank /\ batch.status = "Accepted" /\ b[1] = batch.root
           /\ batch.questions[b[2]] = "redacted"
  <2>1. batch'.status = "Accepted"
    BY <1>3, BatchStep
  <2>2. ~ \E r \in Requests : SaveAccept(r) /\ InTime(r)
    BY <1>3, AcceptsOnce DEF SaveAccept
  <2> QED BY <1>3, <2>1, <2>2, QuestionsStep
<1>4. ASSUME b \in bank, NEW r \in Requests, at[r] = "inserted", inserted[r] = b[1]
      PROVE  Goal
  <2>1. ASSUME NEW s \in Requests, SaveAccept(s), InTime(s)
        PROVE  Goal
    <3>1. CASE s = r
      <4>1. b[2] \in Listed(doc[r])
        BY <1>4 DEF InsertedInBank
      <4> QED BY <1>4, <2>1, <3>1, <4>1, AcceptedBatch
    <3>2. CASE s # r
      <4>1. at'[r] = "inserted" /\ inserted'[r] = b[1]
        BY <1>4, <2>1, <3>2 DEF SaveAccept, TypeOK
      <4> QED BY <4>1
    <3> QED BY <3>1, <3>2
  <2>2. ASSUME NEW s \in Requests, Insert(s) \/ EmptyBank(s)
        PROVE  Goal
    <3>1. at'[r] = "inserted" /\ inserted'[r] = inserted[r]
      BY <1>4, <2>2 DEF Insert, EmptyBank, TypeOK
    <3> QED BY <1>4, <3>1
  <2>3. CASE /\ \A q \in Requests : \/ at'[q] \notin {"inserted", "enqueue"} /\ inserted'[q] = 0
                                    \/ /\ at'[q] = at[q] \/ at'[q] = "loaded"
                                       /\ inserted'[q] = inserted[q] /\ doc'[q] = doc[q]
                                    \/ at'[q] = "loaded" /\ inserted'[q] = inserted[q]
             /\ \A q \in Requests : at[q] = "inserted" => at'[q] = "inserted" \/ failed'
    <3>1. at'[r] = "inserted" /\ inserted'[r] = inserted[r]
      BY <1>4, <2>3
    <3> QED BY <1>4, <3>1
  <2> QED BY <2>1, <2>2, <2>3, BankStep
<1> QED BY <1>1, <1>2, <1>3, <1>4 DEF BankIsApproved

-----------------------------------------------------------------------------
(* The theorems.                                                           *)

LEMMA IInvInit == Init => IInv
<1> SUFFICES ASSUME Init PROVE IInv
  OBVIOUS
<1>1. TypeOK
  BY TypeInit
<1> QED BY <1>1 DEF Init, IInv, CopiesInTime, InsertedAccepts, NumbersUsed, InsertedInBank,
                    EnqueuesRoot, CommittedIsRoot, AcceptedIsInBank, BankIsApproved, NewBatch

LEMMA IInvStep == IInv /\ [Next]_vars => IInv'
<1> SUFFICES ASSUME IInv, [Next]_vars PROVE IInv'
  OBVIOUS
<1>1. TypeOK'
  BY TypeStep DEF IInv
<1>2. CopiesInTime' /\ InsertedAccepts'
  BY CopiesStep DEF IInv
<1>3. NumbersUsed' /\ InsertedInBank'
  BY InsertedStep DEF IInv
<1>4. EnqueuesRoot' /\ CommittedIsRoot'
  BY CommitStep DEF IInv
<1>5. AcceptedIsInBank' /\ BankIsApproved'
  BY AcceptedStep, ApprovedStep DEF IInv
<1> QED BY <1>1, <1>2, <1>3, <1>4, <1>5 DEF IInv

THEOREM BatchInvariant == Spec => []IInv
<1> QED BY IInvInit, IInvStep, PTL DEF Spec

\* No draft text is left in an accepted batch and each of its questions is in the
\* bank, unless a professor's save came late or an admin has deleted them.
THEOREM BatchAcceptedIsInBank == Spec => []AcceptedIsInBank
<1>1. IInv => AcceptedIsInBank
  BY DEF IInv
<1> QED BY <1>1, BatchInvariant, PTL

\* The bank holds only what the accepted batch or an acceptance in progress has
\* put there, unless one stopped half-way or the batch was changed afterwards.
THEOREM BatchBankIsApproved == Spec => []BankIsApproved
<1>1. IInv => BankIsApproved
  BY DEF IInv
<1> QED BY <1>1, BatchInvariant, PTL

\* The commitment of the batch is the root it was accepted with, whoever enqueued
\* it, unless the batch was taken up again.
THEOREM BatchCommittedIsRoot == Spec => []CommittedIsRoot
<1>1. IInv => CommittedIsRoot
  BY DEF IInv
<1> QED BY <1>1, BatchInvariant, PTL

\* No step gives an accepted batch another root.
THEOREM BatchRootStays == Spec => RootStays
<1>1. IInv /\ [Next]_vars =>
        [batch.status = "Accepted" /\ batch'.status = "Accepted" => batch'.root = batch.root]_vars
  BY BatchStep DEF IInv
<1> QED BY <1>1, BatchInvariant, PTL DEF Spec, RootStays
=============================================================================
