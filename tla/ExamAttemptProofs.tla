------------------------- MODULE ExamAttemptProofs -------------------------
(***************************************************************************)
(* For any numbers of requests, polls, documents and answer sheets.        *)
(*                                                                         *)
(* The inductive invariant IInv: a document held for grading was loaded    *)
(* in progress with __v = 0, and whatever others write to it, it never     *)
(* returns there.  From it: at most one accepted sheet, at most one        *)
(* current attempt, and resets of terminated attempts only.                *)
(*                                                                         *)
(* SInv adds what a score and a commitment are worth: each attempt is      *)
(* Clean, that is its score is that of its answers and its newest          *)
(* commitment says what is stored, or Excused, by a ping that stored       *)
(* answers and is to terminate it still, or by a crash.  From it: a        *)
(* handed-in attempt verifies, and a completed one has the score it        *)
(* earned.                                                                 *)
(***************************************************************************)
EXTENDS ExamAttempt, TLAPS

Documents == results \in [Attempts -> Attempt] /\ LifeCycle /\ UnsubmittedIsVersion0
             /\ AcceptedOnce /\ OneCurrentAttempt /\ ResetWasTerminated

Locals == /\ at \in [Actors -> Locations]
          /\ kind \in [Actors -> AllKinds]
          /\ id \in [Actors -> Attempts \cup {"none"}]
          /\ doc \in [Actors -> Attempt]
          /\ sheet \in [Actors -> Sheets]

Rest == /\ examStatus \in Statuses
        /\ clock \in {"before", "running", "grace", "late"}
        /\ incidents \in Nat
        /\ blocked \in BOOLEAN
        /\ commits \subseteq Commitment
        /\ faults \in Nat
        /\ crashes \in Nat
        /\ unsent \subseteq Attempts

\* No step makes a document disappear or takes its termination back.
Grows == \A a \in Attempts :
            results[a].status # "Absent" =>
                /\ results'[a].status # "Absent"
                /\ results[a].terminated => results'[a].terminated

\* IInv, by what its parts speak of.
LEMMA Parts == IInv <=> Documents /\ Locals /\ Rest /\ Loaded
  BY DEF IInv, Documents, Locals, Rest, TypeOK

LEMMA NoAttemptType == NoAttempt \in Attempt
  BY SheetAssumption DEF NoAttempt, Attempt

LEMMA Same == ASSUME results' = results, Documents
              PROVE  Documents' /\ Grows
  BY DEF Documents, Grows, LifeCycle, UnsubmittedIsVersion0, AcceptedOnce,
         OneCurrentAttempt, ResetWasTerminated, Current, Existing

\* What others write does not take from a handler what it relies on.
LEMMA OtherKeeps ==
  ASSUME Grows, NEW y \in Actors, LoadedOf(y),
         at'[y] = at[y], id'[y] = id[y], doc'[y] = doc[y]
  PROVE  LoadedOf(y)'
<1>1. ASSUME id[y] \in Existing
      PROVE  /\ id'[y] \in Existing'
             /\ results[id[y]].terminated => results'[id[y]].terminated
  BY <1>1 DEF Existing, Grows
<1>2. ASSUME at[y] \in Holding
      PROVE  /\ id'[y] \in Existing'
             /\ doc'[y].terminated => results'[id'[y]].terminated
             /\ doc'[y].status = "Terminated" => doc'[y].terminated
  BY <1>1, <1>2 DEF LoadedOf
<1>3. ASSUME at[y] = "authorizeSave"
      PROVE  results'[id'[y]].terminated
  BY <1>1, <1>3 DEF LoadedOf, Holding
<1> QED BY <1>2, <1>3 DEF LoadedOf

\* A handler that goes on to a call for which it needs no document.
LEMMA GoKeeps ==
  ASSUME Locals, Loaded, Grows, NEW x \in Actors, NEW l \in Locations \ Holding, Go(x, l)
  PROVE  Locals' /\ Loaded'
<1>1. Locals'
  <2>1. CASE l = "idle"
    BY <2>1, NoAttemptType, SheetAssumption DEF Locals, Go, AllKinds
  <2>2. CASE l # "idle"
    BY <2>2 DEF Locals, Go, localVars
  <2> QED BY <2>1, <2>2
<1>2. ASSUME NEW y \in Actors
      PROVE  LoadedOf(y)'
  <2>1. CASE y = x
    BY <2>1 DEF Locals, Go, Holding, LoadedOf
  <2>2. CASE y # x
    <3>1. at'[y] = at[y] /\ id'[y] = id[y] /\ doc'[y] = doc[y]
      BY <2>2 DEF Locals, Go, localVars
    <3> QED BY <3>1, OtherKeeps DEF Loaded
  <2> QED BY <2>1, <2>2
<1> QED BY <1>1, <1>2 DEF Loaded

\* A handler that loads a document.
LEMMA LoadKeeps ==
  ASSUME Documents, Locals, Loaded, results' = results,
         NEW x \in Actors, NEW a \in Existing, NEW l \in Holding, Load(x, a, l),
         l \in Grading => results[a].status = "InProgress",
         l = "authorizeSave" => results[a].terminated
  PROVE  Locals' /\ Loaded'
<1>1. l \in Locations /\ a \in Attempts
  BY DEF Holding, Grading, Locations, Existing
<1>2. Locals'
  BY <1>1 DEF Locals, Load, Documents
<1>3. ASSUME NEW y \in Actors
      PROVE  LoadedOf(y)'
  <2>1. CASE y = x
    <3>1. at'[y] = l /\ id'[y] = a /\ doc'[y] = results[a]
      BY <2>1 DEF Locals, Load
    <3>2. a \in Existing'
      BY DEF Existing
    <3> QED
      BY <1>1, <3>1, <3>2 DEF Documents, LifeCycle, UnsubmittedIsVersion0, Existing, LoadedOf
  <2>2. CASE y # x
    <3>1. at'[y] = at[y] /\ id'[y] = id[y] /\ doc'[y] = doc[y]
      BY <2>2 DEF Locals, Load
    <3> QED BY <3>1, OtherKeeps, Same DEF Loaded
  <2> QED BY <2>1, <2>2
<1> QED BY <1>2, <1>3 DEF Loaded

\* A handler that keeps its document after it saved it.
LEMMA HoldKeeps ==
  ASSUME Locals, Loaded, Grows, NEW x \in Actors, NEW d \in Attempt,
         NEW l \in {"submitEnqueue", "finalizeEnqueue"},
         d.status # "Terminated", ~d.terminated,
         id[x] \in Existing, at' = [at EXCEPT ![x] = l], doc' = [doc EXCEPT ![x] = d],
         UNCHANGED <<kind, id, sheet>>
  PROVE  Locals' /\ Loaded'
<1>1. l \in Locations /\ l \notin Grading /\ l # "authorizeSave"
  BY DEF Locations, Grading
<1>2. Locals'
  BY <1>1 DEF Locals
<1>3. ASSUME NEW y \in Actors
      PROVE  LoadedOf(y)'
  <2>1. CASE y = x
    BY <1>1, <2>1 DEF Locals, Existing, Grows, LoadedOf
  <2>2. CASE y # x
    <3>1. at'[y] = at[y] /\ id'[y] = id[y] /\ doc'[y] = doc[y]
      BY <2>2 DEF Locals
    <3> QED BY <3>1, OtherKeeps DEF Loaded
  <2> QED BY <2>1, <2>2
<1> QED BY <1>2, <1>3 DEF Loaded

\* What save() may do to the collection, and how it affects the other holders.
LEMMA StoreKeeps ==
  ASSUME Documents, Locals, Loaded, NEW x \in Actors, NEW new \in Attempt,
         at[x] \in Holding, Store(x, new),
         \/ new.terminated = doc[x].terminated
         \/ new.terminated /\ new.status = "Terminated",
         \/ new.status = doc[x].status
         \/ new.status = "Completed"
         \/ new.status = "Terminated" /\ new.terminated,
         \/ new.reset = doc[x].reset
         \/ new.reset /\ results[id[x]].terminated,
         \/ new.answers = doc[x].answers
         \/ /\ results[id[x]].version = 0
            /\ new.status # doc[x].status
  PROVE  Documents' /\ Grows
<1> DEFINE i == id[x]
           m == Merge(results[i], doc[x], new)
<1>1. /\ i \in Attempts /\ results[i] \in Attempt /\ doc[x] \in Attempt
      /\ results[i].status # "Absent"
      /\ doc[x].terminated => results[i].terminated
      /\ doc[x].status = "Terminated" => doc[x].terminated
  BY DEF Existing, Documents, Locals, Loaded, LoadedOf
<1>2. m \in Attempt
  BY <1>1 DEF Merge, Written, Attempt
<1>3. results' = [results EXCEPT ![i] = m]
  BY DEF Store
<1>4. /\ results' \in [Attempts -> Attempt]
      /\ results'[i] = m
      /\ \A a \in Attempts : a # i => results'[a] = results[a]
  BY <1>1, <1>2, <1>3 DEF Documents
<1>5. /\ results[i].status # "Absent"
      /\ m.status # "Absent"
      /\ results[i].terminated => m.terminated
      /\ results[i].reset => m.reset
      /\ m.reset => m.terminated
      /\ m.version <= 1
      /\ m.status = "InProgress" => m.version = 0 /\ ~m.terminated
      /\ m.status = "Terminated" => m.terminated
  <2>1. results[i].version <= 1
        /\ (results[i].status = "InProgress" => ~results[i].terminated)
        /\ (results[i].status = "Terminated" => results[i].terminated)
        /\ (results[i].reset => results[i].terminated)
        /\ (results[i].status = "InProgress" => results[i].version = 0)
    BY <1>1 DEF Documents, LifeCycle, AcceptedOnce, ResetWasTerminated, UnsubmittedIsVersion0
  <2>2. m.status = Written(results[i].status, doc[x].status, new.status)
        /\ m.terminated = Written(results[i].terminated, doc[x].terminated, new.terminated)
        /\ m.reset = Written(results[i].reset, doc[x].reset, new.reset)
        /\ m.version = IF new.answers = doc[x].answers THEN results[i].version
                                                        ELSE results[i].version + 1
    BY DEF Merge
  <2>3. m.status = "InProgress" => results[i].status = "InProgress" /\ new.status = doc[x].status
    BY <2>2 DEF Written
  <2>4. (results[i].terminated => m.terminated) /\ (results[i].reset => m.reset)
    BY <1>1, <2>2 DEF Written, Attempt
  <2>5. m.reset => m.terminated
    BY <1>1, <2>1, <2>2, <2>4 DEF Written, Attempt
  <2>6. m.version <= 1 /\ (m.status = "InProgress" => m.version = 0)
    BY <1>1, <2>1, <2>2, <2>3 DEF Attempt
  <2>7. m.status = "InProgress" => ~m.terminated
    <3>1. ASSUME m.status = "InProgress", m.terminated
          PROVE  new.terminated /\ new.status = "Terminated" /\ ~doc[x].terminated
      BY <1>1, <2>1, <2>2, <2>3, <3>1 DEF Written, Attempt
    <3> QED BY <1>1, <2>3, <3>1
  <2>8. m.status = "Terminated" => m.terminated
    <3>1. new.terminated => m.terminated
      BY <1>1, <2>2 DEF Written, Attempt
    <3>2. CASE results[i].status = "Terminated"
      BY <2>1, <2>4, <3>2
    <3>3. CASE m.status = "Terminated" /\ results[i].status # "Terminated"
      BY <2>2, <3>1, <3>3 DEF Written
    <3> QED BY <3>2, <3>3
  <2> QED BY <1>1, <2>1, <2>2, <2>4, <2>5, <2>6, <2>7, <2>8 DEF Written
<1>6. Grows
  BY <1>4, <1>5 DEF Grows
<1>7. LifeCycle' /\ UnsubmittedIsVersion0' /\ AcceptedOnce' /\ ResetWasTerminated'
  BY <1>4, <1>5 DEF Documents, LifeCycle, UnsubmittedIsVersion0, AcceptedOnce,
                    ResetWasTerminated
<1>8. OneCurrentAttempt'
  <2>1. Current' \subseteq Current
    BY <1>1, <1>4, <1>5 DEF Current, Existing
  <2> QED BY <2>1 DEF Documents, OneCurrentAttempt
<1> QED BY <1>4, <1>6, <1>7, <1>8 DEF Documents

LEMMA CreateKeeps ==
  ASSUME Documents, NEW s \in {"InProgress", "Terminated"}, Create(s)
  PROVE  Documents' /\ Grows
<1>1. CASE Current # {}
  BY <1>1, Same DEF Create
<1>2. CASE Current = {}
  <2>1. PICK a \in Attempts \ Existing : results' = [results EXCEPT ![a] = NewAttempt(s)]
    BY <1>2 DEF Create
  <2>2. /\ NewAttempt(s) \in Attempt
        /\ NewAttempt(s).status = s
        /\ NewAttempt(s).terminated = (s = "Terminated")
        /\ NewAttempt(s).reset = FALSE
        /\ NewAttempt(s).version = 0
    BY NoAttemptType DEF NewAttempt, NoAttempt, Attempt
  <2>3. /\ results' \in [Attempts -> Attempt]
        /\ results'[a] = NewAttempt(s)
        /\ \A b \in Attempts : b # a => results'[b] = results[b]
    BY <2>1, <2>2 DEF Documents
  <2>4. results[a].status = "Absent"
    BY DEF Existing
  <2>5. \A b \in Existing : results[b].reset
    BY <1>2 DEF Current
  <2>6. OneCurrentAttempt'
    <3>1. Current' \subseteq {a}
      BY <2>3, <2>5 DEF Current, Existing
    <3> QED BY <3>1 DEF OneCurrentAttempt
  <2>7. UnsubmittedIsVersion0' /\ AcceptedOnce' /\ ResetWasTerminated'
    BY <2>2, <2>3 DEF Documents, UnsubmittedIsVersion0, AcceptedOnce, ResetWasTerminated
  <2>9. LifeCycle'
    <3>1. /\ NewAttempt(s).status # "Absent"
          /\ NewAttempt(s).status = "InProgress" => ~NewAttempt(s).terminated
          /\ NewAttempt(s).status = "Terminated" => NewAttempt(s).terminated
      BY <2>2
    <3>2. ASSUME NEW b \in Attempts
          PROVE  /\ results'[b].status = "Absent" => results'[b] = NoAttempt
                 /\ results'[b].status = "InProgress" => ~results'[b].terminated
                 /\ results'[b].status = "Terminated" => results'[b].terminated
      <4>1. CASE b = a
        BY <2>3, <3>1, <4>1
      <4>2. CASE b # a
        BY <2>3, <4>2 DEF Documents, LifeCycle
      <4> QED BY <4>1, <4>2
    <3> QED BY <3>2 DEF LifeCycle
  <2>8. Grows
    BY <2>2, <2>3, <2>4 DEF Grows
  <2> QED BY <2>3, <2>6, <2>7, <2>8, <2>9 DEF Documents
<1> QED BY <1>1, <1>2

LEMMA PingAnswersKeeps ==
  ASSUME Documents, NEW s \in Sheets,
         results' = [a \in Attempts |->
                       IF a \in Current /\ results[a].status = "InProgress"
                       THEN [results[a] EXCEPT !.answers = s] ELSE results[a]]
  PROVE  Documents' /\ Grows
<1>1. \A a \in Attempts : /\ results'[a] \in Attempt
                          /\ results'[a].status = results[a].status
                          /\ results'[a].terminated = results[a].terminated
                          /\ results'[a].reset = results[a].reset
                          /\ results'[a].version = results[a].version
                          /\ results[a].status = "Absent" => results'[a] = results[a]
  BY DEF Documents, Attempt
<1>2. results' \in [Attempts -> Attempt]
  BY <1>1
<1>3. Current' = Current
  BY <1>1 DEF Current, Existing
<1> QED
  BY <1>1, <1>2, <1>3 DEF Documents, Grows, LifeCycle, UnsubmittedIsVersion0,
     AcceptedOnce, OneCurrentAttempt, ResetWasTerminated

LEMMA EnqueueTypes ==
  ASSUME Rest, NEW a \in Attempts, NEW v \in Nat, NEW d \in Attempt,
         NEW o \in {"id", "document"}, Enqueue(a, v, d, o)
  PROVE  commits' \subseteq Commitment
  BY DEF Rest, Enqueue, Commitment, Digest, Attempt

\* A step that leaves the documents alone and goes on to a call that needs none.
LEMMA QuietStep ==
  ASSUME IInv, NEW x \in Actors, NEW l \in Locations \ Holding, Go(x, l),
         UNCHANGED <<examVars, results, incidents, blocked, commits, boundVars>>
  PROVE  IInv' /\ Grows
<1>1. Documents' /\ Grows
  BY Same, Parts
<1>2. Locals' /\ Loaded'
  BY <1>1, GoKeeps, Parts
<1>3. Rest'
  BY Parts DEF Rest, examVars, boundVars
<1> QED BY <1>1, <1>2, <1>3, Parts, PTL

\* A step that only loads a document.
LEMMA LoadStep ==
  ASSUME IInv, NEW x \in Actors, NEW a \in Existing, NEW l \in Holding, Load(x, a, l),
         l \in Grading => results[a].status = "InProgress",
         l = "authorizeSave" => results[a].terminated,
         UNCHANGED <<examVars, results, incidents, blocked, commits, boundVars>>
  PROVE  IInv' /\ Grows
<1>1. Documents' /\ Grows
  BY Same, Parts
<1>2. Locals' /\ Loaded'
  BY LoadKeeps, Parts
<1>3. Rest'
  BY Parts DEF Rest, examVars, boundVars
<1> QED BY <1>1, <1>2, <1>3, Parts, PTL

\* A step that changes something and goes on to a call that needs no document.
LEMMA ChangeStep ==
  ASSUME IInv, NEW x \in Actors, NEW l \in Locations \ Holding, Go(x, l),
         Documents', Grows, Rest'
  PROVE  IInv' /\ Grows
<1>1. Locals' /\ Loaded'
  BY GoKeeps, Parts
<1> QED BY <1>1, Parts, PTL

\* A handler that saves its document as terminated and needs it no more.
LEMMA TerminatedStep ==
  ASSUME IInv, NEW x \in Actors, at[x] \in Holding, Store(x, Terminated(doc[x])),
         NEW l \in Locations \ Holding, Go(x, l),
         UNCHANGED <<examVars, incidents, blocked, commits, boundVars>>
  PROVE  IInv' /\ Grows
<1>1. doc[x] \in Attempt
  BY Parts DEF Locals
<1>2. /\ Terminated(doc[x]) \in Attempt
      /\ Terminated(doc[x]).terminated
      /\ Terminated(doc[x]).status = "Terminated"
      /\ Terminated(doc[x]).reset = doc[x].reset
      /\ Terminated(doc[x]).answers = doc[x].answers
  BY <1>1 DEF Terminated, Attempt
<1>3. Documents' /\ Grows
  BY <1>1, <1>2, StoreKeeps, Parts
<1>4. Rest'
  BY Parts DEF Rest, examVars, boundVars
<1> QED BY <1>3, <1>4, ChangeStep

\* What the steps of Next may go on to without a document.
LEMMA FreeLocations ==
  {"idle", "openFind", "openCreate", "pingAnswers", "pingIncident", "incidentCreate",
   "incidentLog", "find", "create", "findAgain", "block", "authorizeFind", "start",
   "grace", "snapshot", "complete"} \subseteq Locations \ Holding
  BY DEF Locations, Holding, Grading

LEMMA InitIInv == Init => IInv
<1> SUFFICES ASSUME Init PROVE IInv
  OBVIOUS
<1>1. \A a \in Attempts : results[a] = NoAttempt
  BY DEF Init
<1>2. TypeOK
  BY NoAttemptType, SheetAssumption
  DEF Init, TypeOK, Statuses, Locations, AllKinds
<1>3. Loaded
  BY DEF Init, Loaded, LoadedOf, Holding, Grading
<1>5. LifeCycle
  <2>1. /\ NoAttempt.status # "InProgress"
        /\ NoAttempt.status # "Terminated"
    BY DEF NoAttempt
  <2> QED BY <1>1, <2>1 DEF LifeCycle
<1>4. UnsubmittedIsVersion0 /\ AcceptedOnce /\ OneCurrentAttempt /\ ResetWasTerminated
  BY <1>1 DEF UnsubmittedIsVersion0, AcceptedOnce, OneCurrentAttempt, ResetWasTerminated,
              Current, Existing, NoAttempt
<1> QED BY <1>2, <1>3, <1>4, <1>5 DEF IInv

LEMMA BeginKeeps ==
  ASSUME IInv, NEW r \in Requests, Begin(r)
  PROVE  IInv' /\ Grows
<1>1. PICK k \in Kinds, s \in Sheets :
        /\ at' = [at EXCEPT ![r] = k]
        /\ kind' = [kind EXCEPT ![r] = k]
        /\ sheet' = [sheet EXCEPT ![r] = s]
  BY DEF Begin
<1>2. k \in AllKinds /\ k \in Locations /\ k \notin Holding /\ r \in Actors
  BY ActorAssumption DEF AllKinds, Locations, Holding, Grading, Actors
<1>3. UNCHANGED <<examVars, results, incidents, blocked, commits, id, doc, boundVars>>
  BY DEF Begin
<1>4. Documents' /\ Grows
  BY <1>3, Same, Parts
<1>5. Locals'
  BY <1>1, <1>2, <1>3, Parts DEF Locals
<1>6. Loaded'
  <2>1. ASSUME NEW y \in Actors, at'[y] \in Holding
        PROVE  at[y] = at'[y]
    BY <1>1, <1>2, <2>1, Parts DEF Locals
  <2>2. Grading \subseteq Holding /\ "authorizeSave" \in Holding
    BY DEF Holding
  <2> QED BY <1>3, <2>1, <2>2, Parts DEF Loaded, LoadedOf, Existing
<1>7. Rest'
  BY <1>3, Parts DEF Rest, examVars, boundVars
<1> QED BY <1>4, <1>5, <1>6, <1>7, Parts, PTL

\* Every step of a request handler.
LEMMA RequestKeeps ==
  ASSUME IInv, NEW r \in Requests, RequestStep(r)
  PROVE  IInv' /\ Grows
<1>0. r \in Actors
  BY DEF Actors
<1>1. CASE Open(r)
  BY <1>0, <1>1, QuietStep, FreeLocations DEF Open
<1>2. CASE OpenFind(r)
  BY <1>0, <1>2, QuietStep, FreeLocations DEF OpenFind
<1>3. CASE OpenCreate(r)
  <2>1. Documents' /\ Grows
    BY <1>3, CreateKeeps, Parts DEF OpenCreate
  <2>2. Rest'
    BY <1>3, Parts DEF OpenCreate, Rest, examVars, boundVars
  <2> QED BY <1>0, <1>3, <2>1, <2>2, ChangeStep, FreeLocations DEF OpenCreate
<1>4. CASE Submit(r)
  <2>1. CASE Go(r, "idle")
    BY <1>0, <1>4, <2>1, QuietStep, FreeLocations DEF Submit
  <2>2. CASE \E a \in Current : results[a].status = "InProgress" /\ Load(r, a, "submitExam")
    <3>1. PICK a \in Current : results[a].status = "InProgress" /\ Load(r, a, "submitExam")
      BY <2>2
    <3>2. a \in Existing /\ "submitExam" \in Holding
      BY DEF Current, Holding, Grading
    <3> QED BY <1>0, <1>4, <3>1, <3>2, LoadStep DEF Submit
  <2> QED BY <1>4, <2>1, <2>2 DEF Submit
<1>5. CASE SubmitExam(r)
  <2>1. CASE examStatus \notin Active
    BY <1>0, <1>5, <2>1, QuietStep, FreeLocations DEF SubmitExam
  <2>2. CASE examStatus \in Active
    <3>1. PICK l \in {"submitExpire", "submitSave"} : Go(r, l)
      BY <1>5, <2>2 DEF SubmitExam
    <3>2. at[r] \in Grading /\ l \in Grading /\ l \in Locations /\ l # "idle"
          /\ l # "authorizeSave" /\ Grading \subseteq Holding
      BY <1>5 DEF SubmitExam, Grading, Holding, Locations
    <3>3. at' = [at EXCEPT ![r] = l] /\ UNCHANGED localVars
      BY <3>1, <3>2 DEF Go
    <3>4. Documents' /\ Grows
      BY <1>5, Same, Parts DEF SubmitExam
    <3>5. Locals'
      BY <3>2, <3>3, Parts DEF Locals, localVars
    <3>6. Loaded'
      <4>1. UNCHANGED <<id, doc, results>>
        BY <1>5, <3>3 DEF SubmitExam, localVars
      <4>2. ASSUME NEW y \in Actors
            PROVE  \/ at'[y] = at[y]
                   \/ y = r /\ at'[y] = l
        BY <3>3, Parts DEF Locals
      <4> QED BY <1>0, <3>2, <4>1, <4>2, Parts DEF Loaded, LoadedOf, Existing
    <3>7. Rest'
      BY <1>5, Parts DEF SubmitExam, Rest, examVars, boundVars
    <3> QED BY <3>4, <3>5, <3>6, <3>7, Parts, PTL
  <2> QED BY <2>1, <2>2
<1>6. CASE SubmitExpire(r)
  BY <1>0, <1>6, TerminatedStep, FreeLocations DEF SubmitExpire, Holding, Grading
<1>7. CASE SubmitSave(r)
  <2> DEFINE new == Graded(doc[r], sheet[r])
  <2>1. CASE ~VersionMatches(r, new)
    BY <1>0, <1>7, <2>1, QuietStep, FreeLocations DEF SubmitSave
  <2>2. CASE VersionMatches(r, new)
    <3>1. /\ Store(r, new)
          /\ at' = [at EXCEPT ![r] = "submitEnqueue"]
          /\ doc' = [doc EXCEPT ![r] = Saved(r, new)]
          /\ UNCHANGED <<kind, id, sheet>>
      BY <1>7, <2>2 DEF SubmitSave
    <3>2. /\ doc[r] \in Attempt /\ id[r] \in Existing /\ sheet[r] \in Sheets
          /\ doc[r].status = "InProgress" /\ doc[r].version = 0 /\ ~doc[r].terminated
          /\ at[r] \in Holding
      <4>1. at[r] \in Grading /\ at[r] \in Holding
        BY <1>7 DEF SubmitSave, Grading, Holding
      <4> QED BY <1>0, <4>1, Parts DEF Locals, Loaded, LoadedOf
    <3>3. /\ new \in Attempt
          /\ new.status = "Completed"
          /\ new.terminated = doc[r].terminated
          /\ new.reset = doc[r].reset
      BY <3>2, SheetAssumption DEF Graded, Attempt
    <3>4. new.answers = doc[r].answers \/ results[id[r]].version = 0
      BY <2>2, <3>2 DEF VersionMatches
    <3>5. Documents' /\ Grows
      <4> HIDE DEF new
      <4> QED BY <1>0, <3>1, <3>2, <3>3, <3>4, StoreKeeps, Parts
    <3>6. /\ Saved(r, new) \in Attempt
          /\ Saved(r, new).status # "Terminated"
          /\ ~Saved(r, new).terminated
      BY <3>2, <3>3 DEF Saved, Attempt
    <3>7. Locals' /\ Loaded'
      <4> HIDE DEF new
      <4> QED BY <1>0, <3>1, <3>2, <3>5, <3>6, HoldKeeps, Parts
    <3>8. Rest'
      BY <1>7, Parts DEF SubmitSave, Rest, examVars, boundVars
    <3> QED BY <3>5, <3>7, <3>8, Parts, PTL
  <2> QED BY <2>1, <2>2
<1>8. CASE SubmitEnqueue(r)
  <2>1. id[r] \in Attempts /\ doc[r] \in Attempt /\ doc[r].version + 1 \in Nat
    <3>1. at[r] \in Holding
      BY <1>8 DEF SubmitEnqueue, Holding
    <3>2. id[r] \in Attempts /\ doc[r] \in Attempt
      BY <1>0, <3>1, Parts DEF Loaded, LoadedOf, Locals, Existing
    <3> QED BY <3>2 DEF Attempt
  <2>2. Rest'
    BY <1>8, <2>1, EnqueueTypes, Parts DEF SubmitEnqueue, Rest, examVars, boundVars
  <2>3. Documents' /\ Grows
    BY <1>8, Same, Parts DEF SubmitEnqueue
  <2> QED BY <1>0, <1>8, <2>2, <2>3, ChangeStep, FreeLocations DEF SubmitEnqueue
<1>9. CASE Ping(r)
  BY <1>0, <1>9, QuietStep, FreeLocations DEF Ping
<1>10. CASE PingAnswers(r)
  <2>1. Documents' /\ Grows
    BY <1>0, <1>10, PingAnswersKeeps, Parts DEF PingAnswers, Locals
  <2>2. Rest'
    BY <1>10, Parts DEF PingAnswers, Rest, examVars, boundVars
  <2> QED BY <1>0, <1>10, <2>1, <2>2, ChangeStep, FreeLocations DEF PingAnswers
<1>11. CASE PingIncident(r)
  <2>1. Documents' /\ Grows
    BY <1>11, Same, Parts DEF PingIncident
  <2>2. Rest'
    <3>1. incidents' = incidents + 1 /\ UNCHANGED <<examVars, blocked, commits, boundVars>>
      BY <1>11 DEF PingIncident
    <3>2. incidents' \in Nat
      BY <3>1, Parts DEF Rest
    <3> QED BY <3>1, <3>2, Parts DEF Rest, examVars, boundVars
  <2> QED BY <1>0, <1>11, <2>1, <2>2, ChangeStep, FreeLocations DEF PingIncident
<1>12. CASE Incident(r)
  BY <1>0, <1>12, QuietStep, FreeLocations DEF Incident
<1>13. CASE IncidentCreate(r)
  <2>1. Documents' /\ Grows
    BY <1>13, Same, Parts DEF IncidentCreate
  <2>2. Rest'
    <3>1. incidents' = incidents + 1 /\ UNCHANGED <<examVars, blocked, commits, boundVars>>
      BY <1>13 DEF IncidentCreate
    <3>2. incidents' \in Nat
      BY <3>1, Parts DEF Rest
    <3> QED BY <3>1, <3>2, Parts DEF Rest, examVars, boundVars
  <2> QED BY <1>0, <1>13, <2>1, <2>2, ChangeStep, FreeLocations DEF IncidentCreate
<1>14. CASE Terminate(r)
  <2>1. CASE \E l \in {"idle", "create"} : Go(r, l)
    BY <1>0, <1>14, <2>1, QuietStep, FreeLocations DEF Terminate
  <2>2. CASE \E a \in Existing : Load(r, a, "save")
    BY <1>0, <1>14, <2>2, LoadStep DEF Terminate, Holding, Grading
  <2> QED BY <1>14, <2>1, <2>2 DEF Terminate
<1>15. CASE Find(r)
  <2>1. CASE \E l \in {"block", "create"} : Go(r, l)
    BY <1>0, <1>15, <2>1, QuietStep, FreeLocations DEF Find
  <2>2. CASE \E a \in Current : Load(r, a, "save")
    BY <1>0, <1>15, <2>2, LoadStep DEF Find, Holding, Grading, Current
  <2> QED BY <1>15, <2>1, <2>2 DEF Find
<1>16. CASE SaveTerminated(r)
  <2>1. PICK l \in {"pingIncident", "block", "idle"} : Go(r, l)
    BY <1>16 DEF SaveTerminated, AfterTermination
  <2> QED BY <1>0, <1>16, <2>1, TerminatedStep, FreeLocations DEF SaveTerminated, Holding
<1>17. CASE CreateTerminated(r)
  <2>1. PICK l \in {"pingIncident", "block", "idle", "findAgain"} : Go(r, l)
    BY <1>17 DEF CreateTerminated, AfterTermination
  <2>2. Documents' /\ Grows
    BY <1>17, CreateKeeps, Parts DEF CreateTerminated
  <2>3. Rest'
    BY <1>17, Parts DEF CreateTerminated, Rest, examVars, boundVars
  <2> QED BY <1>0, <1>17, <2>1, <2>2, <2>3, ChangeStep, FreeLocations
<1>18. CASE FindAgain(r)
  <2>1. CASE \E l \in {"pingIncident", "block", "idle"} : Go(r, l)
    BY <1>0, <1>18, <2>1, QuietStep, FreeLocations DEF FindAgain
  <2>2. CASE \E a \in Current : Load(r, a, "save")
    BY <1>0, <1>18, <2>2, LoadStep DEF FindAgain, Holding, Grading, Current
  <2> QED BY <1>18, <2>1, <2>2 DEF FindAgain, AfterTermination
<1>19. CASE Block(r)
  <2>1. Documents' /\ Grows
    BY <1>19, Same, Parts DEF Block
  <2>2. Rest'
    BY <1>19, Parts DEF Block, Rest, examVars, boundVars
  <2> QED BY <1>0, <1>19, <2>1, <2>2, ChangeStep, FreeLocations DEF Block
<1>20. CASE Authorize(r)
  BY <1>0, <1>20, QuietStep, FreeLocations DEF Authorize
<1>21. CASE AuthorizeFind(r)
  <2>1. CASE Go(r, "idle")
    BY <1>0, <1>21, <2>1, QuietStep, FreeLocations DEF AuthorizeFind
  <2>2. CASE \E a \in Current : results[a].terminated /\ Load(r, a, "authorizeSave")
    BY <1>0, <1>21, <2>2, LoadStep DEF AuthorizeFind, Holding, Grading, Current
  <2> QED BY <1>21, <2>1, <2>2 DEF AuthorizeFind
<1>22. CASE AuthorizeSave(r)
  <2> DEFINE new == [doc[r] EXCEPT !.reset = TRUE, !.resetAt = incidents]
  <2>1. /\ at[r] \in Holding /\ doc[r] \in Attempt /\ incidents \in Nat
        /\ results[id[r]].terminated
    BY <1>0, <1>22, Parts DEF AuthorizeSave, Holding, Loaded, LoadedOf, Locals, Rest
  <2>2. /\ new \in Attempt
        /\ new.terminated = doc[r].terminated
        /\ new.status = doc[r].status
        /\ new.answers = doc[r].answers
        /\ new.reset
    BY <2>1 DEF Attempt
  <2>3. Store(r, new)
    BY <1>22 DEF AuthorizeSave
  <2>4. Documents' /\ Grows
    <3> HIDE DEF new
    <3> QED BY <1>0, <2>1, <2>2, <2>3, StoreKeeps, Parts
  <2>5. Rest'
    BY <1>22, Parts DEF AuthorizeSave, Rest, examVars, boundVars
  <2> QED BY <1>0, <1>22, <2>4, <2>5, ChangeStep, FreeLocations DEF AuthorizeSave
<1> QED
  BY <1>1, <1>2, <1>3, <1>4, <1>5, <1>6, <1>7, <1>8, <1>9, <1>10, <1>11, <1>12, <1>13,
     <1>14, <1>15, <1>16, <1>17, <1>18, <1>19, <1>20, <1>21, <1>22 DEF RequestStep

\* Every step of a poll of the worker or of the reconciler.
LEMMA WorkerKeeps ==
  ASSUME IInv, NEW w \in Workers, WorkerStep(w) \/ SweepStep(w)
  PROVE  IInv' /\ Grows
<1>0. w \in Actors
  BY DEF Actors
<1>1. CASE Poll(w)
  <2>1. \E l \in {"start", "grace", "snapshot"} : Go(w, l)
    BY <1>1 DEF Poll
  <2> QED BY <1>0, <1>1, <2>1, QuietStep, FreeLocations DEF Poll
<1>2. CASE SaveExam(w)
  <2>1. examStatus' \in Statuses
    BY <1>2 DEF SaveExam, NextStatus, Statuses
  <2>2. Rest'
    BY <1>2, <2>1, Parts DEF SaveExam, Rest, boundVars
  <2>3. Documents' /\ Grows
    BY <1>2, Same, Parts DEF SaveExam
  <2> QED BY <1>0, <1>2, <2>2, <2>3, ChangeStep, FreeLocations DEF SaveExam
<1>3. CASE Snapshot(w)
  <2>1. CASE Go(w, "complete")
    BY <1>0, <1>3, <2>1, QuietStep, FreeLocations DEF Snapshot
  <2>2. CASE \E a \in Current : results[a].status = "InProgress" /\ Load(w, a, "finalize")
    BY <1>0, <1>3, <2>2, LoadStep DEF Snapshot, Holding, Grading, Current
  <2> QED BY <1>3, <2>1, <2>2 DEF Snapshot
<1>4. CASE Finalize(w)
  <2> DEFINE new == [doc[w] EXCEPT !.status = "Completed", !.score = Score[doc[w].answers]]
  <2>1. /\ Store(w, new)
        /\ at' = [at EXCEPT ![w] = "finalizeEnqueue"]
        /\ doc' = [doc EXCEPT ![w] = new]
        /\ UNCHANGED <<kind, id, sheet>>
    BY <1>4 DEF Finalize
  <2>2. at[w] \in Holding /\ doc[w] \in Attempt /\ id[w] \in Existing /\ ~doc[w].terminated
    BY <1>0, <1>4, Parts DEF Finalize, Holding, Grading, Loaded, LoadedOf, Locals
  <2>3. /\ new \in Attempt
        /\ new.status = "Completed"
        /\ new.terminated = doc[w].terminated
        /\ new.reset = doc[w].reset
        /\ new.answers = doc[w].answers
    BY <2>2, SheetAssumption DEF Attempt
  <2>4. Documents' /\ Grows
    <3> HIDE DEF new
    <3> QED BY <1>0, <2>1, <2>2, <2>3, StoreKeeps, Parts
  <2>5. Locals' /\ Loaded'
    <3> HIDE DEF new
    <3> QED BY <1>0, <2>1, <2>2, <2>3, <2>4, HoldKeeps, Parts
  <2>6. Rest'
    BY <1>4, Parts DEF Finalize, Rest, examVars, boundVars
  <2> QED BY <2>4, <2>5, <2>6, Parts, PTL
<1>5. CASE FinalizeFails(w)
  <2>1. Documents' /\ Grows
    BY <1>5, Same, Parts DEF FinalizeFails
  <2>2. faults' = faults + 1 /\ UNCHANGED <<examVars, incidents, blocked, commits, crashes, unsent>>
    BY <1>5 DEF FinalizeFails, Fault
  <2>3. faults' \in Nat
    BY <2>2, Parts DEF Rest
  <2>4. Rest'
    BY <2>2, <2>3, Parts DEF Rest, examVars
  <2> QED BY <1>0, <1>5, <2>1, <2>4, ChangeStep, FreeLocations DEF FinalizeFails
<1>6. CASE FinalizeEnqueue(w)
  <2>1. at[w] \in Holding
    BY <1>6 DEF FinalizeEnqueue, Holding
  <2>2. id[w] \in Attempts /\ doc[w] \in Attempt
    BY <1>0, <2>1, Parts DEF Loaded, LoadedOf, Locals, Existing
  <2>3. doc[w].version + 1 \in Nat
    BY <2>2 DEF Attempt
  <2>4. Rest'
    BY <1>6, <2>2, <2>3, EnqueueTypes, Parts DEF FinalizeEnqueue, Rest, examVars, boundVars
  <2>5. Documents' /\ Grows
    BY <1>6, Same, Parts DEF FinalizeEnqueue
  <2> QED BY <1>0, <1>6, <2>4, <2>5, ChangeStep, FreeLocations DEF FinalizeEnqueue
<1>7. CASE SweepLoad(w)
  BY <1>0, <1>7, LoadStep DEF SweepLoad, Holding, Grading
<1>8. CASE SweepEnqueue(w)
  <2>1. at[w] \in Holding
    BY <1>8 DEF SweepEnqueue, Holding
  <2>2. id[w] \in Attempts /\ doc[w] \in Attempt
    BY <1>0, <2>1, Parts DEF Loaded, LoadedOf, Locals, Existing
  <2>3. Rest'
    BY <1>8, <2>2, EnqueueTypes, Parts DEF SweepEnqueue, Rest, examVars, boundVars
  <2>4. Documents' /\ Grows
    BY <1>8, Same, Parts DEF SweepEnqueue
  <2> QED BY <1>0, <1>8, <2>3, <2>4, ChangeStep, FreeLocations DEF SweepEnqueue
<1> QED
  BY <1>1, <1>2, <1>3, <1>4, <1>5, <1>6, <1>7, <1>8 DEF WorkerStep, SweepStep

\* The admin and the clock, which hold no document.
LEMMA OutsideKeeps ==
  ASSUME IInv, UNCHANGED <<results, incidents, commits, at, localVars, boundVars>>,
         examStatus' \in Statuses, clock' \in {"before", "running", "grace", "late"},
         blocked' \in BOOLEAN
  PROVE  IInv' /\ Grows
<1>1. Documents' /\ Grows
  BY Same, Parts
<1>2. Locals' /\ Loaded'
  BY Parts DEF Locals, Loaded, LoadedOf, Existing, localVars
<1>3. Rest'
  BY Parts DEF Rest, boundVars
<1> QED BY <1>1, <1>2, <1>3, Parts, PTL

LEMMA NextKeeps ==
  ASSUME IInv, [Next]_vars, AdminStatuses \subseteq Statuses
  PROVE  IInv' /\ Grows
<1>1. CASE \E r \in Requests : Begin(r) \/ RequestStep(r)
  BY <1>1, BeginKeeps, RequestKeeps
<1>2. CASE \E w \in Workers : WorkerStep(w) \/ SweepStep(w)
  BY <1>2, WorkerKeeps
<1>3. ASSUME NEW x \in Actors, Crash(x)
      PROVE  IInv' /\ Grows
  <2>1. Documents' /\ Grows
    BY <1>3, Same, Parts DEF Crash
  <2>2. crashes' = crashes + 1 /\ UNCHANGED <<examVars, incidents, blocked, commits, faults, unsent>>
    BY <1>3 DEF Crash
  <2>3. crashes' \in Nat
    BY <2>2, Parts DEF Rest
  <2>4. Rest'
    BY <2>2, <2>3, Parts DEF Rest, examVars
  <2> QED BY <1>3, <2>1, <2>4, ChangeStep, FreeLocations DEF Crash
<1>8. ASSUME NEW x \in Actors, EnqueueFails(x)
      PROVE  IInv' /\ Grows
  <2>1. Documents' /\ Grows
    BY <1>8, Same, Parts DEF EnqueueFails
  <2>2. /\ at[x] \in Holding
        /\ faults' = faults + 1
        /\ unsent' \subseteq unsent \cup {id[x]}
        /\ UNCHANGED <<examVars, incidents, blocked, commits, crashes>>
    BY <1>8 DEF EnqueueFails, Fault, Holding
  <2>3. id[x] \in Attempts /\ faults' \in Nat
    BY <2>2, Parts DEF Loaded, LoadedOf, Existing, Rest
  <2>4. Rest'
    BY <2>2, <2>3, Parts DEF Rest, examVars
  <2>5. \E l \in {"idle", "complete"} : Go(x, l)
    BY <1>8 DEF EnqueueFails
  <2> QED BY <2>1, <2>4, <2>5, ChangeStep, FreeLocations
<1>4. ASSUME NEW s \in AdminStatuses, AdminSetStatus(s)
      PROVE  IInv' /\ Grows
  BY <1>4, OutsideKeeps, Parts DEF AdminSetStatus, Rest
<1>5. CASE Unblock
  BY <1>5, OutsideKeeps, Parts DEF Unblock, Rest, examVars
<1>6. CASE Tick
  <2>1. clock' \in {"before", "running", "grace", "late"}
    BY <1>6, Parts DEF Tick, Rest
  <2> QED BY <1>6, <2>1, OutsideKeeps, Parts DEF Tick, Rest
<1>7. CASE UNCHANGED vars
  BY <1>7, OutsideKeeps, Parts DEF vars, Rest, examVars
<1> QED
  BY <1>1, <1>2, <1>3, <1>4, <1>5, <1>6, <1>7, <1>8 DEF Next

-----------------------------------------------------------------------------
\* The inductive invariant holds of every behaviour.
THEOREM AttemptInvariant == Spec => []IInv
<1>1. IInv /\ [Next]_vars => IInv'
  BY NextKeeps, ActorAssumption DEF Statuses
<1> QED BY <1>1, InitIInv, PTL DEF Spec

\* The collection and the handlers' variables keep their types.
THEOREM AttemptTypeOK == Spec => []TypeOK
  BY AttemptInvariant, PTL DEF IInv

\* At most one sheet with answers is accepted for an attempt, for any number
\* of concurrent submissions, pings, terminations and worker polls.
THEOREM AttemptAcceptedOnce == Spec => []AcceptedOnce
  BY AttemptInvariant, PTL DEF IInv

\* A student never has two attempts that count.
THEOREM AttemptOneCurrent == Spec => []OneCurrentAttempt
  BY AttemptInvariant, PTL DEF IInv

\* Only terminated attempts are set aside for a retake.
THEOREM AttemptResetWasTerminated == Spec => []ResetWasTerminated
  BY AttemptInvariant, PTL DEF IInv

-----------------------------------------------------------------------------
(* Scores and commitments.                                                 *)
(*                                                                         *)
(* Sound: an attempt is clean, so that its score is the score of its       *)
(* answers and the commitment of its submission says what is stored, until *)
(* a ping stores answers without grading them; then the attempt is about   *)
(* to be terminated, unless the process died in between.                   *)

Enqueuing == {"submitEnqueue", "finalizeEnqueue"}

\* A ping or an incident is about to terminate document a, or one has done so.
Doomed(a) == \/ results[a].terminated
             \/ \E p \in Requests : \/ at[p] = "find"
                                    \/ at[p] = "save" /\ id[p] = a

Excused(a) == /\ "ping" \in Kinds
              /\ crashes # 0 \/ (a \in Existing /\ Doomed(a))

\* The stored score is the score of the stored answers.
Earned(a) ==
    /\ results[a].score = Score[results[a].answers]
    /\ results[a].version = 0 => results[a].answers = Blank
    /\ results[a].version = 1 /\ ~results[a].terminated => results[a].status = "Completed"

\* A handler grades a document that it loaded without answers, and what it
\* enqueues is what it stored.
GradesBlank(x, a) ==
    at[x] \in Grading /\ id[x] = a => doc[x].answers = Blank /\ doc[x].score = 0

SubmissionOf(x, a) == at[x] = "submitEnqueue" /\ id[x] = a /\ doc[x].version = 1

EnqueuesStored(x, a) ==
    at[x] \in Enqueuing /\ id[x] = a =>
        /\ doc[x].version \in {0, 1}
        /\ doc[x].status = "Completed"
        /\ ~doc[x].terminated
        /\ doc[x].version = 1 =>
              /\ at[x] = "submitEnqueue"
              /\ results[a].version = 1
              /\ doc[x].score = results[a].score

\* Version 2 is the commitment of the submission that replaced the answers.
SaysStored(c, a) ==
    c.attempt = a =>
        /\ c.version <= 2
        /\ c.version = 2 =>
              /\ results[a].version = 1
              /\ c.owner = "id"
              /\ c.holds = [score |-> results[a].score, status |-> "Completed",
                            terminated |-> FALSE]

CommittedOrAbout(a) ==
    crashes = 0 /\ a \notin unsent /\ results[a].version = 1 =>
        \/ \E c \in commits : c.attempt = a /\ c.version = 2
        \/ \E x \in Actors : SubmissionOf(x, a)

Clean(a) ==
    /\ Earned(a)
    /\ \A x \in Actors : GradesBlank(x, a) /\ EnqueuesStored(x, a)
    /\ \A c \in commits : SaysStored(c, a)
    /\ CommittedOrAbout(a)

Sound == \A a \in Attempts : Clean(a) \/ Excused(a)

Pinged == \A r \in Requests : at[r] \in {"ping", "pingAnswers"} => "ping" \in Kinds

SInv == IInv /\ Sound /\ Pinged /\ crashes <= MaxCrashes

\* The handlers other than x neither move nor load.
Alone(x) == \A y \in Actors : y # x => at'[y] = at[y] /\ id'[y] = id[y] /\ doc'[y] = doc[y]

\* The step leaves what document a says about its score alone.
Agree(a) ==
    /\ results'[a].answers = results[a].answers
    /\ results'[a].score = results[a].score
    /\ results'[a].version = results[a].version
    /\ results[a].version = 1 /\ results[a].status = "Completed" =>
          results'[a].status = "Completed" \/ results'[a].terminated

\* When x was about to terminate document a, it still is or it has done so.
KeepsDoom(x, a) ==
    a \in Existing /\ (at[x] = "find" \/ (at[x] = "save" /\ id[x] = a)) =>
        \/ results'[a].terminated
        \/ at'[x] = "find"
        \/ at'[x] = "save" /\ id'[x] = a

\* An attempt that is about to be terminated stays so.
LEMMA ExcusedStays ==
  ASSUME NEW a \in Attempts, Excused(a), NEW x \in Actors, Alone(x), Grows,
         KeepsDoom(x, a), crashes # 0 => crashes' # 0
  PROVE  Excused(a)'
<1>1. CASE crashes # 0
  BY <1>1 DEF Excused
<1>2. CASE a \in Existing /\ Doomed(a)
  <2>1. a \in Existing'
    BY <1>2 DEF Existing, Grows
  <2>2. Doomed(a)'
    <3>1. CASE results[a].terminated
      BY <1>2, <3>1 DEF Existing, Grows, Doomed
    <3>2. CASE \E p \in Requests : at[p] = "find" \/ (at[p] = "save" /\ id[p] = a)
      <4>1. PICK p \in Requests : at[p] = "find" \/ (at[p] = "save" /\ id[p] = a)
        BY <3>2
      <4>2. CASE p = x
        BY <1>2, <4>1, <4>2 DEF KeepsDoom, Doomed
      <4>3. CASE p # x
        BY <4>1, <4>3 DEF Alone, Actors, Doomed
      <4> QED BY <4>2, <4>3
    <3> QED BY <1>2, <3>1, <3>2 DEF Doomed
  <2> QED BY <2>1, <2>2 DEF Excused
<1> QED BY <1>1, <1>2 DEF Excused

\* A clean attempt stays clean when x grades and enqueues what it should, and
\* the commitment of its submission is not lost.
LEMMA CleanStays ==
  ASSUME NEW a \in Attempts, Clean(a), NEW x \in Actors, Alone(x), Grows, Agree(a),
         Documents, GradesBlank(x, a)', EnqueuesStored(x, a)',
         \A c \in commits' : c \in commits \/ SaysStored(c, a)',
         commits \subseteq commits',
         crashes' = 0 => crashes = 0,
         unsent \subseteq unsent',
         crashes' = 0 /\ a \notin unsent' /\ SubmissionOf(x, a) =>
            \E c \in commits' : c.attempt = a /\ c.version = 2
  PROVE  Clean(a)'
<1>1. Earned(a)'
  <2>1. results[a].status = "Absent" => results[a].version = 0
    BY DEF Documents, LifeCycle, NoAttempt
  <2> QED BY <2>1 DEF Clean, Earned, Agree, Grows
<1>2. ASSUME NEW y \in Actors, y # x
      PROVE  GradesBlank(y, a)' /\ EnqueuesStored(y, a)'
  <2>1. at'[y] = at[y] /\ id'[y] = id[y] /\ doc'[y] = doc[y]
    BY <1>2 DEF Alone
  <2>2. GradesBlank(y, a) /\ EnqueuesStored(y, a)
    BY DEF Clean
  <2>3. GradesBlank(y, a)'
    BY <2>1, <2>2 DEF GradesBlank
  <2>4. EnqueuesStored(y, a)'
    <3>1. results'[a].version = results[a].version /\ results'[a].score = results[a].score
      BY DEF Agree
    <3> QED BY <2>1, <2>2, <3>1 DEF EnqueuesStored
  <2> QED BY <2>3, <2>4
<1>3. \A c \in commits : SaysStored(c, a)'
  BY DEF Clean, SaysStored, Agree
<1>4. CommittedOrAbout(a)'
  <2> SUFFICES ASSUME crashes' = 0, a \notin unsent', results'[a].version = 1
               PROVE  \/ \E c \in commits' : c.attempt = a /\ c.version = 2
                      \/ \E y \in Actors : SubmissionOf(y, a)'
    BY DEF CommittedOrAbout
  <2>1. CASE \E c \in commits : c.attempt = a /\ c.version = 2
    BY <2>1
  <2>2. CASE \E y \in Actors : SubmissionOf(y, a)
    <3>1. PICK y \in Actors : SubmissionOf(y, a)
      BY <2>2
    <3>2. CASE y = x
      BY <3>1, <3>2
    <3>3. CASE y # x
      BY <3>1, <3>3 DEF Alone, SubmissionOf
    <3> QED BY <3>2, <3>3
  <2> QED BY <2>1, <2>2 DEF Clean, CommittedOrAbout, Agree
<1> QED BY <1>1, <1>2, <1>3, <1>4 DEF Clean

\* A step of x that leaves every score and commitment alone.
LEMMA CalmStep ==
  ASSUME SInv, IInv', Grows, NEW x \in Actors, Alone(x), UNCHANGED <<commits, crashes, unsent>>,
         at[x] # "submitEnqueue",
         \A a \in Attempts : Agree(a) /\ KeepsDoom(x, a),
         \A a \in Attempts : Clean(a) => GradesBlank(x, a)' /\ EnqueuesStored(x, a)',
         at'[x] \in {"ping", "pingAnswers"} => "ping" \in Kinds
  PROVE  SInv'
<1>1. ASSUME NEW a \in Attempts
      PROVE  Clean(a)' \/ Excused(a)'
  <2>1. CASE Excused(a)
    BY <2>1, ExcusedStays
  <2>2. CASE Clean(a)
    <3>1. ~SubmissionOf(x, a)
      BY DEF SubmissionOf
    <3>2. \A c \in commits' : c \in commits \/ SaysStored(c, a)'
      OBVIOUS
    <3> QED BY <2>2, <3>1, <3>2, CleanStays, Parts DEF SInv
  <2> QED BY <2>1, <2>2 DEF SInv, Sound
<1>2. Pinged'
  BY DEF SInv, Pinged, Alone, Actors
<1> QED BY <1>1, <1>2 DEF SInv, Sound

LEMMA GoAlone ==
  ASSUME Locals, NEW x \in Actors, NEW l \in Locations, Go(x, l)
  PROVE  Alone(x) /\ at'[x] = l
<1>1. CASE l = "idle"
  BY <1>1 DEF Locals, Go, Alone
<1>2. CASE l # "idle"
  BY <1>2 DEF Locals, Go, Alone, localVars
<1> QED BY <1>1, <1>2

LEMMA LoadAlone ==
  ASSUME Locals, NEW x \in Actors, NEW a \in Attempts, NEW l \in Locations, Load(x, a, l)
  PROVE  Alone(x) /\ at'[x] = l /\ id'[x] = a /\ doc'[x] = results[a]
  BY DEF Locals, Load, Alone

\* What the steps do to the collection: nothing, a termination, a new document.
LEMMA SameAgrees == results' = results => \A a \in Attempts : Agree(a)
  BY DEF Agree

LEMMA SaveAgrees ==
  ASSUME IInv, NEW x \in Actors, at[x] \in Holding, NEW new, Store(x, new),
         new.answers = doc[x].answers, new.score = doc[x].score,
         new.terminated \in BOOLEAN,
         \/ new.status = doc[x].status
         \/ new.status = "Completed"
         \/ new.terminated
  PROVE  \A a \in Attempts : Agree(a)
<1> DEFINE i == id[x]
           m == Merge(results[i], doc[x], new)
<1>1. /\ results \in [Attempts -> Attempt] /\ doc[x] \in Attempt /\ i \in Attempts
      /\ doc[x].terminated => results[i].terminated
  BY Parts DEF Documents, Locals, Loaded, LoadedOf, Existing
<1>2. results[i] \in Attempt
  BY <1>1
<1>3. /\ m.answers = results[i].answers
      /\ m.score = results[i].score
      /\ m.version = results[i].version
      /\ m.status = Written(results[i].status, doc[x].status, new.status)
      /\ m.terminated = Written(results[i].terminated, doc[x].terminated, new.terminated)
  BY DEF Merge, Written
<1>4. new.terminated => m.terminated
  BY <1>1, <1>2, <1>3 DEF Written, Attempt
<1>5. results[i].status = "Completed" => m.status = "Completed" \/ m.terminated
  BY <1>3, <1>4 DEF Written
<1>6. results' = [results EXCEPT ![i] = m]
  BY DEF Store
<1>7. results'[i] = m /\ \A a \in Attempts : a # i => results'[a] = results[a]
  BY <1>1, <1>6
<1> HIDE DEF m
<1> QED BY <1>3, <1>5, <1>7 DEF Agree

LEMMA TerminateAgrees ==
  ASSUME IInv, NEW x \in Actors, at[x] \in Holding, Store(x, Terminated(doc[x]))
  PROVE  results'[id[x]].terminated /\ \A a \in Attempts : Agree(a)
<1> DEFINE i == id[x]
           new == Terminated(doc[x])
<1>1. /\ results \in [Attempts -> Attempt] /\ doc[x] \in Attempt /\ i \in Attempts
      /\ doc[x].terminated => results[i].terminated
  BY Parts DEF Documents, Locals, Loaded, LoadedOf, Existing
<1>2. /\ new.answers = doc[x].answers
      /\ new.score = doc[x].score
      /\ new.terminated = TRUE
  BY <1>1 DEF Terminated, Attempt
<1>3. \A a \in Attempts : Agree(a)
  <2> HIDE DEF new
  <2>1. Store(x, new)
    BY DEF new
  <2> QED BY <1>2, <2>1, SaveAgrees
<1>4. results'[i].terminated
  <2>1. results'[i].terminated = Written(results[i].terminated, doc[x].terminated, new.terminated)
    BY <1>1 DEF Store, Merge
  <2>2. results[i].terminated \in BOOLEAN /\ doc[x].terminated \in BOOLEAN
    BY <1>1 DEF Attempt
  <2> HIDE DEF new
  <2> QED BY <1>1, <1>2, <2>1, <2>2 DEF Written
<1> QED BY <1>3, <1>4

LEMMA CreateAgrees ==
  ASSUME Documents, NEW s \in {"InProgress", "Terminated"}, Create(s)
  PROVE  \A a \in Attempts : Agree(a)
<1>1. CASE Current # {}
  BY <1>1, SameAgrees DEF Create
<1>2. CASE Current = {}
  <2>1. PICK a \in Attempts \ Existing : results' = [results EXCEPT ![a] = NewAttempt(s)]
    BY <1>2 DEF Create
  <2>2. results[a] = NoAttempt
    BY DEF Documents, LifeCycle, Existing
  <2>3. results'[a] = NewAttempt(s) /\ \A b \in Attempts : b # a => results'[b] = results[b]
    BY <2>1 DEF Documents
  <2>4. Agree(a)
    BY <2>2, <2>3 DEF Agree, NewAttempt, NoAttempt
  <2> QED BY <2>3, <2>4 DEF Agree
<1> QED BY <1>1, <1>2

\* A calm step to a call that needs no document.
LEMMA CalmGo ==
  ASSUME SInv, IInv', Grows, NEW x \in Actors, NEW l \in Locations \ Holding, Go(x, l),
         UNCHANGED <<commits, crashes, unsent>>, at[x] # "submitEnqueue",
         \A a \in Attempts : Agree(a),
         \/ at[x] \notin {"find", "save"}
         \/ \A a \in Attempts : KeepsDoom(x, a),
         l \in {"ping", "pingAnswers"} => "ping" \in Kinds
  PROVE  SInv'
<1>1. Alone(x) /\ at'[x] = l
  BY GoAlone, Parts DEF SInv
<1>2. l \notin Grading /\ l \notin Enqueuing
  BY DEF Holding, Enqueuing
<1>3. \A a \in Attempts : KeepsDoom(x, a)
  BY DEF KeepsDoom
<1>4. \A a \in Attempts : GradesBlank(x, a)' /\ EnqueuesStored(x, a)'
  BY <1>1, <1>2 DEF GradesBlank, EnqueuesStored
<1> QED BY <1>1, <1>3, <1>4, CalmStep

\* A calm step that loads a document.
LEMMA CalmLoad ==
  ASSUME SInv, IInv', Grows, NEW x \in Actors, NEW a \in Existing,
         NEW l \in Holding \ Enqueuing, Load(x, a, l),
         l \in Grading => results[a].status = "InProgress",
         UNCHANGED <<results, commits, crashes, unsent>>, at[x] \notin {"submitEnqueue", "save"},
         at[x] = "find" => l = "save" /\ a \in Current
  PROVE  SInv'
<1>0. IInv /\ l \in Locations /\ a \in Attempts
  BY DEF SInv, Holding, Grading, Locations, Existing
<1>1. Alone(x) /\ at'[x] = l /\ id'[x] = a /\ doc'[x] = results[a]
  BY <1>0, LoadAlone, Parts
<1>2. l \notin {"ping", "pingAnswers"}
  BY DEF Holding, Grading
<1>3. ASSUME NEW b \in Attempts
      PROVE  KeepsDoom(x, b)
  <2>1. ASSUME at[x] = "find", b # a, b \in Existing
        PROVE  results'[b].terminated
    <3>1. b \notin Current
      BY <1>0, <2>1, Parts DEF Documents, OneCurrentAttempt
    <3> QED BY <1>0, <2>1, <3>1, Parts DEF Documents, ResetWasTerminated, Current
  <2> QED BY <1>1, <2>1 DEF KeepsDoom
<1>4. ASSUME NEW b \in Attempts, Clean(b)
      PROVE  GradesBlank(x, b)' /\ EnqueuesStored(x, b)'
  <2>1. CASE l \in Grading /\ b = a
    <3>1. results[a].version = 0
      BY <1>0, <2>1, Parts DEF Documents, UnsubmittedIsVersion0
    <3>2. results[a].answers = Blank /\ results[a].score = 0
      BY <1>4, <2>1, <3>1, SheetAssumption DEF Clean, Earned
    <3> QED BY <1>1, <3>2 DEF GradesBlank, EnqueuesStored
  <2>2. CASE l \notin Grading \/ b # a
    BY <1>1, <2>2 DEF GradesBlank, EnqueuesStored
  <2> QED BY <2>1, <2>2
<1> QED BY <1>1, <1>2, <1>3, <1>4, SameAgrees, CalmStep

\* A handler that terminates its document.
LEMMA TerminateCalm ==
  ASSUME SInv, IInv', Grows, NEW x \in Actors, at[x] \in {"submitExpire", "save"},
         Store(x, Terminated(doc[x])),
         NEW l \in Locations \ Holding, Go(x, l), l \notin {"ping", "pingAnswers"},
         UNCHANGED <<commits, crashes, unsent>>
  PROVE  SInv'
<1>1. at[x] \in Holding /\ at[x] # "submitEnqueue" /\ at[x] # "find"
  BY DEF Holding, Grading
<1>2. results'[id[x]].terminated /\ \A a \in Attempts : Agree(a)
  BY <1>1, TerminateAgrees DEF SInv
<1>3. \A a \in Attempts : KeepsDoom(x, a)
  BY <1>1, <1>2 DEF KeepsDoom
<1> QED BY <1>1, <1>2, <1>3, CalmGo

\* A handler that grades its document, by what it does to that document.
LEMMA GradedStep ==
  ASSUME SInv, IInv', Grows, NEW x \in Actors, at[x] \in Grading,
         NEW new, Store(x, new), NEW d, NEW l \in Enqueuing,
         at' = [at EXCEPT ![x] = l], doc' = [doc EXCEPT ![x] = d],
         UNCHANGED <<id, commits, crashes, unsent>>,
         Clean(id[x]) => Clean(id[x])'
  PROVE  SInv'
<1>1. /\ results \in [Attempts -> Attempt] /\ at \in [Actors -> Locations]
      /\ doc \in [Actors -> Attempt]
  BY Parts DEF SInv, Documents, Locals
<1>2. Alone(x) /\ at'[x] = l /\ at[x] \notin {"find", "save", "submitEnqueue"}
      /\ l \notin Grading /\ l \notin {"ping", "pingAnswers"}
  BY <1>1 DEF Alone, Grading, Enqueuing
<1>3. ASSUME NEW a \in Attempts
      PROVE  Clean(a)' \/ Excused(a)'
  <2>1. CASE Excused(a)
    <3>1. KeepsDoom(x, a)
      BY <1>2 DEF KeepsDoom
    <3> QED BY <1>2, <2>1, <3>1, ExcusedStays
  <2>2. CASE Clean(a) /\ a = id[x]
    BY <2>2
  <2>3. CASE Clean(a) /\ a # id[x]
    <3>1. results'[a] = results[a]
      BY <1>1, <2>3 DEF Store
    <3>2. Agree(a)
      BY <3>1 DEF Agree
    <3>3. GradesBlank(x, a)' /\ EnqueuesStored(x, a)'
      BY <2>3 DEF GradesBlank, EnqueuesStored
    <3>4. ~SubmissionOf(x, a)
      BY <2>3 DEF SubmissionOf
    <3>5. \A c \in commits' : c \in commits \/ SaysStored(c, a)'
      OBVIOUS
    <3> QED BY <1>2, <2>3, <3>2, <3>3, <3>4, <3>5, CleanStays, Parts DEF SInv
  <2> QED BY <2>1, <2>2, <2>3 DEF SInv, Sound
<1>4. Pinged'
  BY <1>2 DEF SInv, Pinged, Alone, Actors
<1> QED BY <1>3, <1>4 DEF SInv, Sound

\* Grading a document without answers changes its status only.
LEMMA GradeBlank ==
  ASSUME IInv, Grows, NEW x \in Actors, at[x] \in Grading, Clean(id[x]),
         NEW new, Store(x, new), NEW l \in Enqueuing,
         new.answers = doc[x].answers, new.score = doc[x].score,
         new.version = doc[x].version,
         new.status = "Completed", new.terminated = FALSE,
         at' = [at EXCEPT ![x] = l], doc' = [doc EXCEPT ![x] = new],
         UNCHANGED <<id, commits, crashes, unsent>>
  PROVE  Clean(id[x])'
<1>1. /\ at \in [Actors -> Locations] /\ doc \in [Actors -> Attempt]
      /\ at[x] \in Holding /\ id[x] \in Attempts /\ doc[x].version = 0
  BY Parts DEF Locals, Loaded, LoadedOf, Holding, Existing
<1> PICK a \in Attempts : a = id[x]
  BY <1>1
<1>2. Alone(x) /\ at'[x] = l /\ doc'[x] = new /\ at[x] # "submitEnqueue" /\ l \notin Grading
  BY <1>1 DEF Alone, Grading, Enqueuing
<1>3. Agree(a)
  BY <1>1, SaveAgrees
<1>4. GradesBlank(x, a)' /\ EnqueuesStored(x, a)'
  BY <1>1, <1>2 DEF GradesBlank, EnqueuesStored
<1>5. ~SubmissionOf(x, a)
  BY <1>2 DEF SubmissionOf
<1>6. \A c \in commits' : c \in commits \/ SaysStored(c, a)'
  OBVIOUS
<1>7. Documents /\ Clean(a) /\ id' = id
  BY Parts
<1>8. Clean(a)'
  BY <1>2, <1>3, <1>4, <1>5, <1>6, <1>7, CleanStays
<1> QED BY <1>8

\* The submission that replaces the answers: nobody holds or has enqueued a
\* version 2 before, and it is about to enqueue what it stored.
LEMMA SubmissionClean ==
  ASSUME IInv, NEW x \in Actors, at[x] = "submitSave", Clean(id[x]),
         NEW s \in Sheets, s # Blank, results[id[x]].version = 0,
         Store(x, Graded(doc[x], s)),
         at' = [at EXCEPT ![x] = "submitEnqueue"],
         doc' = [doc EXCEPT ![x] = Saved(x, Graded(doc[x], s))],
         UNCHANGED <<id, commits, crashes, unsent>>
  PROVE  Clean(id[x])'
<1>1. /\ at \in [Actors -> Locations] /\ doc \in [Actors -> Attempt]
      /\ results \in [Attempts -> Attempt] /\ id[x] \in Attempts
      /\ doc[x].version = 0 /\ ~doc[x].terminated /\ doc[x].status = "InProgress"
  BY Parts DEF Locals, Documents, Loaded, LoadedOf, Holding, Grading, Existing
<1>2. PICK a \in Attempts : a = id[x]
  BY <1>1
<1>3. PICK new : new = Graded(doc[x], s)
  OBVIOUS
<1>4. doc[x] \in Attempt /\ results[a] \in Attempt
  BY <1>1
<1>5. /\ doc[x].answers = Blank /\ doc[x].score = 0
      /\ results[a].answers = Blank /\ results[a].score = 0
  BY <1>2, SheetAssumption DEF Clean, Earned, GradesBlank, Grading
<1>6. /\ new.answers = s /\ new.score = Score[s] /\ new.status = "Completed"
      /\ new.terminated = doc[x].terminated
      /\ new.version = 0
  BY <1>1, <1>3, <1>4 DEF Graded, Attempt
<1>7. results'[a] = Merge(results[a], doc[x], new)
  BY <1>1, <1>2, <1>3 DEF Store
<1>8. /\ results'[a].answers = s
      /\ results'[a].score = Score[s]
      /\ results'[a].version = 1
      /\ results'[a].status = "Completed"
  BY <1>1, <1>2, <1>5, <1>6, <1>7 DEF Merge, Written
<1>9. /\ doc'[x].version = 1 /\ doc'[x].score = Score[s] /\ doc'[x].status = "Completed"
      /\ ~doc'[x].terminated
      /\ at'[x] = "submitEnqueue" /\ id'[x] = a
  <2>1. Saved(x, new) = [new EXCEPT !.version = @ + 1]
    BY <1>5, <1>6 DEF Saved
  <2>2. new \in Attempt
    BY <1>3, <1>4, SheetAssumption DEF Graded, Attempt
  <2>3. doc'[x] = [new EXCEPT !.version = @ + 1]
    BY <1>1, <1>3, <2>1
  <2> QED BY <1>1, <1>2, <1>6, <2>2, <2>3 DEF Attempt
<1>10. Clean(a)'
  <2>1. Earned(a)'
    BY <1>8 DEF Earned
  <2>2. ASSUME NEW y \in Actors
        PROVE  GradesBlank(y, a)' /\ EnqueuesStored(y, a)'
    <3>1. CASE y = x
      BY <1>8, <1>9, <3>1 DEF GradesBlank, EnqueuesStored, Grading
    <3>2. CASE y # x
      <4>1. at'[y] = at[y] /\ id'[y] = id[y] /\ doc'[y] = doc[y]
        BY <1>1, <3>2
      <4>2. GradesBlank(y, a) /\ EnqueuesStored(y, a)
        BY <1>2 DEF Clean
      <4>3. results[a].version # 1
        <5>1. results[a].version = 0
          BY <1>2
        <5>2. 0 # 1
          OBVIOUS
        <5> QED BY <5>1, <5>2
      <4> QED BY <4>1, <4>2, <4>3 DEF GradesBlank, EnqueuesStored
    <3> QED BY <3>1, <3>2
  <2>3. ASSUME NEW c \in commits'
        PROVE  SaysStored(c, a)'
    <3>1. SaysStored(c, a) /\ results[a].version # 1
      BY <1>2 DEF Clean
    <3> QED BY <3>1 DEF SaysStored
  <2>4. CommittedOrAbout(a)'
    BY <1>9 DEF CommittedOrAbout, SubmissionOf
  <2> QED BY <2>1, <2>2, <2>3, <2>4 DEF Clean
<1> QED BY <1>2, <1>10

\* A handler or a poll that enqueues a commitment.
LEMMA EnqueueStep ==
  ASSUME SInv, IInv', Grows, NEW x \in Actors, at[x] \in Enqueuing \cup {"sweep"},
         NEW v, NEW o, Enqueue(id[x], v, doc[x], o),
         at[x] = "sweep" => v = 1,
         at[x] \in Enqueuing => v = doc[x].version + 1,
         at[x] = "submitEnqueue" => o = "id",
         NEW l \in {"idle", "complete"}, Go(x, l), UNCHANGED <<results, crashes, unsent>>
  PROVE  SInv'
<1>1. Alone(x) /\ at'[x] = l /\ l \notin Grading /\ l \notin Enqueuing
      /\ l \notin {"ping", "pingAnswers"}
  BY GoAlone, Parts, FreeLocations DEF SInv, Grading, Enqueuing
<1>2. at[x] \notin {"find", "save"}
  BY DEF Enqueuing
<1> PICK new : new = [attempt |-> id[x], version |-> v, owner |-> o,
                      holds |-> [score |-> doc[x].score, status |-> doc[x].status,
                                 terminated |-> doc[x].terminated]]
  OBVIOUS
<1>3. /\ commits \subseteq commits'
      /\ \A c \in commits' : c \in commits \/ c = new
      /\ \E c \in commits' : c.attempt = id[x] /\ c.version = v
  <2>1. new.attempt = id[x] /\ new.version = v
    OBVIOUS
  <2>2. CASE \E c \in commits : c.attempt = id[x] /\ c.version = v
    BY <2>2 DEF Enqueue
  <2>3. CASE ~\E c \in commits : c.attempt = id[x] /\ c.version = v
    <3>1. commits' = commits \cup {new}
      BY <2>3 DEF Enqueue
    <3> QED BY <2>1, <3>1
  <2> QED BY <2>2, <2>3
<1>4. ASSUME NEW a \in Attempts
      PROVE  Clean(a)' \/ Excused(a)'
  <2>1. CASE Excused(a)
    <3>1. KeepsDoom(x, a)
      BY <1>2 DEF KeepsDoom
    <3> QED BY <1>1, <2>1, <3>1, ExcusedStays
  <2>2. CASE Clean(a)
    <3>1. GradesBlank(x, a)' /\ EnqueuesStored(x, a)'
      BY <1>1 DEF GradesBlank, EnqueuesStored
    <3>2. SaysStored(new, a)'
      <4>1. CASE id[x] # a
        BY <4>1 DEF SaysStored
      <4>2. CASE id[x] = a /\ at[x] = "sweep"
        BY <4>2 DEF SaysStored
      <4>3. CASE id[x] = a /\ at[x] \in Enqueuing
        <5>1. /\ doc[x].version \in {0, 1} /\ doc[x].status = "Completed"
              /\ ~doc[x].terminated
              /\ doc[x].version = 1 => /\ at[x] = "submitEnqueue"
                                       /\ results[a].version = 1
                                       /\ doc[x].score = results[a].score
          BY <2>2, <4>3 DEF Clean, EnqueuesStored
        <5>2. doc[x].terminated = FALSE
          <6>1. doc[x] \in Attempt
            BY Parts DEF SInv, Locals
          <6> QED BY <5>1, <6>1 DEF Attempt
        <5>3. CASE doc[x].version = 0
          BY <4>3, <5>3 DEF SaysStored
        <5>4. CASE doc[x].version = 1
          <6>1. v = 2 /\ o = "id"
            BY <4>3, <5>1, <5>4
          <6>2. new.version = 2 /\ new.owner = "id" /\ new.attempt = a
            BY <4>3, <6>1
          <6>3. new.holds = [score |-> results[a].score, status |-> "Completed",
                             terminated |-> FALSE]
            BY <5>1, <5>2, <5>4
          <6>4. results'[a].version = 1 /\ results'[a].score = results[a].score
            BY <5>1, <5>4
          <6> QED BY <6>2, <6>3, <6>4 DEF SaysStored
        <5> QED BY <5>1, <5>3, <5>4
      <4> QED BY <4>1, <4>2, <4>3
    <3>3. \A c \in commits' : c \in commits \/ SaysStored(c, a)'
      BY <1>3, <3>2
    <3>4. SubmissionOf(x, a) => \E c \in commits' : c.attempt = a /\ c.version = 2
      BY <1>3 DEF SubmissionOf, Enqueuing
    <3>5. Agree(a)
      BY SameAgrees
    <3> QED BY <1>1, <1>3, <2>2, <3>1, <3>3, <3>4, <3>5, CleanStays, Parts DEF SInv
  <2> QED BY <2>1, <2>2 DEF SInv, Sound
<1>5. Pinged'
  BY <1>1 DEF SInv, Pinged, Alone, Actors
<1> QED BY <1>4, <1>5 DEF SInv, Sound

\* A calm step that leaves the collection alone.
LEMMA QuietCalm ==
  ASSUME SInv, IInv', Grows, NEW x \in Actors, NEW l \in Locations \ Holding, Go(x, l),
         UNCHANGED <<results, commits, boundVars>>,
         at[x] \notin {"submitEnqueue", "find", "save"},
         l \in {"ping", "pingAnswers"} => "ping" \in Kinds
  PROVE  SInv'
<1>1. UNCHANGED <<commits, crashes, unsent>>
  BY DEF boundVars
<1> QED BY <1>1, SameAgrees, CalmGo

\* A ping stores answers: the attempt in progress is about to be terminated.
LEMMA PingSound ==
  ASSUME SInv, IInv', Grows, NEW r \in Requests, PingAnswers(r)
  PROVE  SInv'
<1>1. /\ r \in Actors /\ at[r] = "pingAnswers"
      /\ Alone(r) /\ at'[r] = "find"
      /\ UNCHANGED <<commits, crashes, unsent>>
      /\ "ping" \in Kinds
  BY GoAlone, Parts, FreeLocations DEF SInv, Pinged, Actors, PingAnswers, boundVars
<1>2. \A a \in Attempts : KeepsDoom(r, a)
  BY <1>1 DEF KeepsDoom
<1>3. ASSUME NEW a \in Attempts
      PROVE  Clean(a)' \/ Excused(a)'
  <2>1. CASE Excused(a)
    BY <1>1, <1>2, <2>1, ExcusedStays
  <2>2. CASE a \in Current /\ results[a].status = "InProgress"
    <3>1. a \in Existing'
      BY <2>2 DEF Current, Existing, Grows
    <3> QED BY <1>1, <3>1 DEF Excused, Doomed
  <2>3. CASE Clean(a) /\ ~(a \in Current /\ results[a].status = "InProgress")
    <3>1. results'[a] = results[a]
      BY <2>3 DEF PingAnswers
    <3>2. Agree(a)
      BY <3>1 DEF Agree
    <3>3. GradesBlank(r, a)' /\ EnqueuesStored(r, a)'
      BY <1>1 DEF GradesBlank, EnqueuesStored, Grading, Enqueuing
    <3>4. ~SubmissionOf(r, a)
      BY <1>1 DEF SubmissionOf
    <3>5. \A c \in commits' : c \in commits \/ SaysStored(c, a)'
      BY <1>1
    <3>6. commits' = commits /\ crashes' = crashes /\ unsent' = unsent /\ Documents
      BY <1>1, Parts DEF SInv
    <3> QED BY <1>1, <2>3, <3>2, <3>3, <3>4, <3>5, <3>6, CleanStays
  <2> QED BY <2>1, <2>2, <2>3 DEF SInv, Sound
<1>4. Pinged'
  BY <1>1 DEF SInv, Pinged, Alone, Actors
<1> QED BY <1>1, <1>3, <1>4 DEF SInv, Sound

LEMMA SubmitSound ==
  ASSUME SInv, IInv', Grows, NEW r \in Requests, SubmitSave(r)
  PROVE  SInv'
<1>0. r \in Actors /\ at[r] = "submitSave" /\ at[r] \in Grading /\ at[r] \in Holding
  BY DEF Actors, SubmitSave, Grading, Holding
<1>1. CASE ~VersionMatches(r, Graded(doc[r], sheet[r]))
  <2>1. Go(r, "idle") /\ UNCHANGED <<results, commits, boundVars>>
    BY <1>1 DEF SubmitSave
  <2> QED BY <1>0, <2>1, QuietCalm, FreeLocations
<1>2. CASE VersionMatches(r, Graded(doc[r], sheet[r]))
  <2>1. PICK s \in Sheets : s = sheet[r]
    BY <1>0, Parts DEF SInv, Locals
  <2>2. PICK new : new = Graded(doc[r], s)
    OBVIOUS
  <2>3. /\ Store(r, new)
        /\ at' = [at EXCEPT ![r] = "submitEnqueue"]
        /\ doc' = [doc EXCEPT ![r] = Saved(r, new)]
        /\ UNCHANGED <<id, commits, crashes, unsent>>
        /\ VersionMatches(r, new)
    BY <1>2, <2>1, <2>2 DEF SubmitSave, boundVars
  <2>4. /\ doc[r] \in Attempt /\ doc[r].version = 0 /\ ~doc[r].terminated
        /\ id[r] \in Attempts
    BY <1>0, Parts DEF SInv, Locals, Loaded, LoadedOf, Existing
  <2>5. /\ new.answers = s /\ new.score = Score[s] /\ new.status = "Completed"
        /\ new.terminated = FALSE /\ new.version = doc[r].version
    BY <2>2, <2>4 DEF Graded, Attempt
  <2>6. ASSUME Clean(id[r])
        PROVE  Clean(id[r])'
    <3>1. doc[r].answers = Blank /\ doc[r].score = 0
      BY <1>0, <2>4, <2>6 DEF Clean, GradesBlank
    <3>2. CASE s = Blank
      <4>1. Saved(r, new) = new
        BY <2>5, <3>1, <3>2 DEF Saved
      <4>2. new.answers = doc[r].answers /\ new.score = doc[r].score
        BY <2>5, <3>1, <3>2, SheetAssumption
      <4>3. "submitEnqueue" \in Enqueuing
        BY DEF Enqueuing
      <4> QED BY <1>0, <2>3, <2>5, <2>6, <4>1, <4>2, <4>3, GradeBlank DEF SInv
    <3>3. CASE s # Blank
      <4>1. results[id[r]].version = 0
        BY <2>3, <2>4, <2>5, <3>1, <3>3 DEF VersionMatches
      <4> QED BY <1>0, <2>2, <2>3, <2>6, <3>3, <4>1, SubmissionClean DEF SInv
    <3> QED BY <3>2, <3>3
  <2>7. "submitEnqueue" \in Enqueuing
    BY DEF Enqueuing
  <2> QED BY <1>0, <2>3, <2>6, <2>7, GradedStep
<1> QED BY <1>1, <1>2

LEMMA FinalizeSound ==
  ASSUME SInv, IInv', Grows, NEW w \in Workers, Finalize(w)
  PROVE  SInv'
<1>0. w \in Actors /\ at[w] \in Grading /\ at[w] \in Holding
  BY DEF Actors, Finalize, Grading, Holding
<1>1. PICK new : new = [doc[w] EXCEPT !.status = "Completed", !.score = Score[doc[w].answers]]
  OBVIOUS
<1>2. PICK l \in Enqueuing : l = "finalizeEnqueue"
  BY DEF Enqueuing
<1>3. /\ Store(w, new)
      /\ at' = [at EXCEPT ![w] = l]
      /\ doc' = [doc EXCEPT ![w] = new]
      /\ UNCHANGED <<id, commits, crashes, unsent>>
  BY <1>1, <1>2 DEF Finalize, boundVars
<1>4. doc[w] \in Attempt /\ ~doc[w].terminated /\ id[w] \in Attempts
  BY <1>0, Parts DEF SInv, Locals, Loaded, LoadedOf, Existing
<1>5. /\ new.answers = doc[w].answers /\ new.score = Score[doc[w].answers]
      /\ new.status = "Completed" /\ new.terminated = FALSE
      /\ new.version = doc[w].version
  BY <1>1, <1>4 DEF Attempt
<1>6. ASSUME Clean(id[w])
      PROVE  Clean(id[w])'
  <2>1. doc[w].answers = Blank /\ doc[w].score = 0
    BY <1>0, <1>4, <1>6 DEF Clean, GradesBlank
  <2>2. new.score = doc[w].score
    BY <1>5, <2>1, SheetAssumption
  <2> QED BY <1>0, <1>3, <1>5, <1>6, <2>2, GradeBlank DEF SInv
<1> QED BY <1>0, <1>3, <1>6, GradedStep

\* Every step of a request handler keeps the scores and commitments sound.
LEMMA RequestSound ==
  ASSUME SInv, IInv', Grows, NEW r \in Requests, RequestStep(r)
  PROVE  SInv'
<1>0. r \in Actors /\ IInv
  BY DEF Actors, SInv
<1>1. CASE Open(r) \/ OpenFind(r) \/ Incident(r) \/ Authorize(r)
  <2>1. /\ at[r] \in {"open", "openFind", "incident", "authorize"}
        /\ \E l \in {"openFind", "idle", "openCreate", "incidentCreate", "incidentLog",
                     "authorizeFind"} : Go(r, l)
        /\ UNCHANGED <<results, commits, boundVars>>
    BY <1>1 DEF Open, OpenFind, Incident, Authorize
  <2> QED BY <1>0, <2>1, QuietCalm, FreeLocations
<1>2. CASE OpenCreate(r)
  <2>1. \A a \in Attempts : Agree(a)
    BY <1>0, <1>2, CreateAgrees, Parts DEF OpenCreate
  <2> QED BY <1>0, <1>2, <2>1, CalmGo, FreeLocations DEF OpenCreate, boundVars
<1>3. CASE Submit(r)
  <2>1. CASE Go(r, "idle")
    BY <1>0, <1>3, <2>1, QuietCalm, FreeLocations DEF Submit
  <2>2. CASE \E a \in Current : results[a].status = "InProgress" /\ Load(r, a, "submitExam")
    <3>1. PICK a \in Current : results[a].status = "InProgress" /\ Load(r, a, "submitExam")
      BY <2>2
    <3>2. a \in Existing /\ "submitExam" \in Holding \ Enqueuing
      BY DEF Current, Holding, Grading, Enqueuing
    <3> QED BY <1>0, <1>3, <3>1, <3>2, CalmLoad DEF Submit, boundVars
  <2> QED BY <1>3, <2>1, <2>2 DEF Submit
<1>4. CASE SubmitExam(r)
  <2>1. CASE examStatus \notin Active
    BY <1>0, <1>4, <2>1, QuietCalm, FreeLocations DEF SubmitExam
  <2>2. CASE examStatus \in Active
    <3>1. PICK l \in {"submitExpire", "submitSave"} : Go(r, l)
      BY <1>4, <2>2 DEF SubmitExam
    <3>2. l \in Locations /\ l # "idle" /\ l \in Grading /\ l \notin Enqueuing
          /\ at[r] = "submitExam" /\ at[r] \in Grading
      BY <1>4 DEF SubmitExam, Locations, Grading, Enqueuing
    <3>3. Alone(r) /\ at'[r] = l /\ id' = id /\ doc' = doc
      BY <1>0, <3>1, <3>2, GoAlone, Parts DEF Go, localVars
    <3>4. UNCHANGED <<results, commits, crashes, unsent>>
      BY <1>4 DEF SubmitExam, boundVars
    <3>5. \A a \in Attempts : Clean(a) => GradesBlank(r, a)' /\ EnqueuesStored(r, a)'
      BY <1>0, <3>2, <3>3 DEF Clean, GradesBlank, EnqueuesStored
    <3>6. \A a \in Attempts : Agree(a) /\ KeepsDoom(r, a)
      BY <3>2, <3>4, SameAgrees DEF KeepsDoom
    <3> QED BY <1>0, <3>2, <3>3, <3>4, <3>5, <3>6, CalmStep
  <2> QED BY <2>1, <2>2
<1>5. CASE SubmitExpire(r)
  BY <1>0, <1>5, TerminateCalm, FreeLocations DEF SubmitExpire, boundVars
<1>6. CASE SubmitSave(r)
  BY <1>6, SubmitSound
<1>7. CASE SubmitEnqueue(r)
  <2>1. /\ at[r] = "submitEnqueue" /\ at[r] \in Enqueuing
        /\ Enqueue(id[r], doc[r].version + 1, doc[r], "id")
        /\ Go(r, "idle")
        /\ UNCHANGED <<results, crashes, unsent>>
    BY <1>7 DEF SubmitEnqueue, Enqueuing, boundVars
  <2> QED BY <1>0, <2>1, EnqueueStep
<1>8. CASE Ping(r)
  <2>1. /\ at[r] = "ping" /\ \E l \in {"idle", "pingAnswers"} : Go(r, l)
        /\ UNCHANGED <<results, commits, boundVars>>
    BY <1>8 DEF Ping
  <2>2. "ping" \in Kinds
    BY <2>1 DEF SInv, Pinged
  <2> QED BY <1>0, <2>1, <2>2, QuietCalm, FreeLocations
<1>9. CASE PingAnswers(r)
  BY <1>9, PingSound
<1>10. CASE PingIncident(r) \/ IncidentCreate(r) \/ Block(r)
  <2>1. /\ at[r] \in {"pingIncident", "incidentCreate", "incidentLog", "block"}
        /\ \E l \in {"block", "find", "idle"} : Go(r, l)
        /\ UNCHANGED <<results, commits, boundVars>>
    BY <1>10 DEF PingIncident, IncidentCreate, Block
  <2> QED BY <1>0, <2>1, QuietCalm, FreeLocations
<1>11. CASE Terminate(r)
  <2>1. at[r] = "terminate" /\ UNCHANGED <<results, commits, boundVars>>
    BY <1>11 DEF Terminate
  <2>2. CASE \E l \in {"idle", "create"} : Go(r, l)
    BY <1>0, <2>1, <2>2, QuietCalm, FreeLocations
  <2>3. CASE \E a \in Existing : Load(r, a, "save")
    <3>1. "save" \in Holding \ Enqueuing /\ "save" \notin Grading
      BY DEF Holding, Grading, Enqueuing
    <3> QED BY <1>0, <2>1, <2>3, <3>1, CalmLoad DEF boundVars
  <2> QED BY <1>11, <2>2, <2>3 DEF Terminate
<1>12. CASE Find(r)
  <2>1. at[r] = "find" /\ UNCHANGED <<results, commits, boundVars>>
    BY <1>12 DEF Find
  <2>2. ASSUME NEW l \in {"block", "create"}, Go(r, l),
               \A a \in Current : results[a].terminated
        PROVE  SInv'
    <3>1. ASSUME NEW a \in Existing PROVE results'[a].terminated
      <4>1. CASE a \in Current
        BY <2>1, <2>2, <4>1
      <4>2. CASE a \notin Current
        BY <1>0, <2>1, <4>2, Parts DEF Documents, ResetWasTerminated, Current, Existing
      <4> QED BY <4>1, <4>2
    <3>2. \A a \in Attempts : KeepsDoom(r, a)
      BY <3>1 DEF KeepsDoom
    <3>3. UNCHANGED <<commits, crashes, unsent>> /\ \A a \in Attempts : Agree(a)
      BY <2>1, SameAgrees DEF boundVars
    <3> QED BY <1>0, <2>1, <2>2, <3>2, <3>3, CalmGo, FreeLocations
  <2>3. CASE Current = {} /\ Go(r, "create")
    BY <2>2, <2>3
  <2>4. CASE \E a \in Current : IF results[a].terminated THEN Go(r, "block")
                                                        ELSE Load(r, a, "save")
    <3>1. PICK a \in Current : IF results[a].terminated THEN Go(r, "block")
                                                        ELSE Load(r, a, "save")
      BY <2>4
    <3>2. CASE results[a].terminated
      <4>1. \A b \in Current : b = a
        BY <1>0, Parts DEF Documents, OneCurrentAttempt
      <4> QED BY <2>2, <3>1, <3>2, <4>1
    <3>3. CASE ~results[a].terminated
      <4>1. "save" \in Holding \ Enqueuing /\ "save" \notin Grading /\ a \in Existing
        BY DEF Holding, Grading, Enqueuing, Current
      <4> QED BY <1>0, <2>1, <3>1, <3>3, <4>1, CalmLoad DEF boundVars
    <3> QED BY <3>2, <3>3
  <2> QED BY <1>12, <2>3, <2>4 DEF Find
<1>13. CASE SaveTerminated(r)
  <2>1. PICK l \in {"pingIncident", "block", "idle"} : Go(r, l)
    BY <1>13 DEF SaveTerminated, AfterTermination
  <2> QED BY <1>0, <1>13, <2>1, TerminateCalm, FreeLocations DEF SaveTerminated, boundVars
<1>14. CASE CreateTerminated(r)
  <2>1. PICK l \in {"pingIncident", "block", "idle", "findAgain"} : Go(r, l)
    BY <1>14 DEF CreateTerminated, AfterTermination
  <2>2. \A a \in Attempts : Agree(a)
    BY <1>0, <1>14, CreateAgrees, Parts DEF CreateTerminated
  <2>3. at[r] = "create" /\ UNCHANGED <<commits, crashes, unsent>>
    BY <1>14 DEF CreateTerminated, boundVars
  <2> QED BY <1>0, <2>1, <2>2, <2>3, CalmGo, FreeLocations
<1>15. CASE FindAgain(r)
  <2>1. at[r] = "findAgain" /\ UNCHANGED <<results, commits, boundVars>>
    BY <1>15 DEF FindAgain
  <2>2. CASE \E l \in {"pingIncident", "block", "idle"} : Go(r, l)
    BY <1>0, <2>1, <2>2, QuietCalm, FreeLocations
  <2>3. CASE \E a \in Current : Load(r, a, "save")
    <3>1. "save" \in Holding \ Enqueuing /\ "save" \notin Grading /\ Current \subseteq Existing
      BY DEF Holding, Grading, Enqueuing, Current
    <3> QED BY <1>0, <2>1, <2>3, <3>1, CalmLoad DEF boundVars
  <2> QED BY <1>15, <2>2, <2>3 DEF FindAgain, AfterTermination
<1>16. CASE AuthorizeFind(r)
  <2>1. at[r] = "authorizeFind" /\ UNCHANGED <<results, commits, boundVars>>
    BY <1>16 DEF AuthorizeFind
  <2>2. CASE Go(r, "idle")
    BY <1>0, <2>1, <2>2, QuietCalm, FreeLocations
  <2>3. CASE \E a \in Current : Load(r, a, "authorizeSave")
    <3>1. /\ "authorizeSave" \in Holding \ Enqueuing /\ "authorizeSave" \notin Grading
          /\ Current \subseteq Existing
      BY DEF Holding, Grading, Enqueuing, Current
    <3> QED BY <1>0, <2>1, <2>3, <3>1, CalmLoad DEF boundVars
  <2> QED BY <1>16, <2>2, <2>3 DEF AuthorizeFind
<1>17. CASE AuthorizeSave(r)
  <2>1. PICK new : new = [doc[r] EXCEPT !.reset = TRUE, !.resetAt = incidents]
    OBVIOUS
  <2>2. /\ at[r] = "authorizeSave" /\ at[r] \in Holding
        /\ Store(r, new) /\ Go(r, "idle") /\ UNCHANGED <<commits, crashes, unsent>>
    BY <1>17, <2>1 DEF AuthorizeSave, Holding, boundVars
  <2>3. doc[r] \in Attempt
    BY <1>0, Parts DEF Locals
  <2>4. /\ new.answers = doc[r].answers /\ new.score = doc[r].score
        /\ new.status = doc[r].status /\ new.terminated \in BOOLEAN
    BY <2>1, <2>3 DEF Attempt
  <2>5. \A a \in Attempts : Agree(a)
    BY <1>0, <2>2, <2>4, SaveAgrees
  <2> QED BY <1>0, <2>2, <2>5, CalmGo, FreeLocations
<1> QED
  BY <1>1, <1>2, <1>3, <1>4, <1>5, <1>6, <1>7, <1>8, <1>9, <1>10, <1>11, <1>12, <1>13,
     <1>14, <1>15, <1>16, <1>17 DEF RequestStep

\* Every step of a poll does, too.
LEMMA WorkerSound ==
  ASSUME SInv, IInv', Grows, NEW w \in Workers, WorkerStep(w) \/ SweepStep(w)
  PROVE  SInv'
<1>0. w \in Actors /\ IInv
  BY DEF Actors, SInv
<1>1. CASE Poll(w) \/ SaveExam(w)
  <2>1. /\ at[w] \in {"idle", "start", "grace", "complete"}
        /\ \E l \in {"start", "grace", "snapshot", "idle"} : Go(w, l)
        /\ UNCHANGED <<results, commits, boundVars>>
    BY <1>1 DEF Poll, SaveExam
  <2> QED BY <1>0, <2>1, QuietCalm, FreeLocations
<1>2. CASE Snapshot(w)
  <2>1. at[w] = "snapshot" /\ UNCHANGED <<results, commits, boundVars>>
    BY <1>2 DEF Snapshot
  <2>2. CASE Go(w, "complete")
    BY <1>0, <2>1, <2>2, QuietCalm, FreeLocations
  <2>3. CASE \E a \in Current : results[a].status = "InProgress" /\ Load(w, a, "finalize")
    <3>1. "finalize" \in Holding \ Enqueuing /\ Current \subseteq Existing
      BY DEF Holding, Grading, Enqueuing, Current
    <3> QED BY <1>0, <2>1, <2>3, <3>1, CalmLoad DEF boundVars
  <2> QED BY <1>2, <2>2, <2>3 DEF Snapshot
<1>3. CASE Finalize(w)
  BY <1>3, FinalizeSound
<1>4. CASE FinalizeFails(w)
  <2>1. /\ at[w] = "finalize" /\ Go(w, "complete")
        /\ UNCHANGED <<results, commits, crashes, unsent>>
    BY <1>4 DEF FinalizeFails
  <2> QED BY <1>0, <2>1, SameAgrees, CalmGo, FreeLocations
<1>5. CASE FinalizeEnqueue(w)
  <2>1. /\ at[w] = "finalizeEnqueue" /\ at[w] \in Enqueuing
        /\ Enqueue(id[w], doc[w].version + 1, doc[w], "document")
        /\ Go(w, "complete")
        /\ UNCHANGED <<results, crashes, unsent>>
    BY <1>5 DEF FinalizeEnqueue, Enqueuing, boundVars
  <2> QED BY <1>0, <2>1, EnqueueStep
<1>6. CASE SweepLoad(w)
  <2>1. /\ at[w] = "idle" /\ UNCHANGED <<results, commits, boundVars>>
        /\ \E a \in Existing : Load(w, a, "sweep")
    BY <1>6 DEF SweepLoad
  <2>2. "sweep" \in Holding \ Enqueuing /\ "sweep" \notin Grading
    BY DEF Holding, Grading, Enqueuing
  <2> QED BY <1>0, <2>1, <2>2, CalmLoad DEF boundVars
<1>7. CASE SweepEnqueue(w)
  <2>1. /\ at[w] = "sweep" /\ at[w] \notin Enqueuing
        /\ Enqueue(id[w], 1, doc[w], "id") /\ Go(w, "idle")
        /\ UNCHANGED <<results, crashes, unsent>>
    BY <1>7 DEF SweepEnqueue, Enqueuing, boundVars
  <2> QED BY <1>0, <2>1, EnqueueStep
<1> QED
  BY <1>1, <1>2, <1>3, <1>4, <1>5, <1>6, <1>7 DEF WorkerStep, SweepStep

\* A handler that is cut off, between any two calls.
LEMMA CrashSound ==
  ASSUME SInv, IInv', Grows, NEW x \in Actors, Crash(x)
  PROVE  SInv'
<1>1. /\ Alone(x) /\ at'[x] = "idle"
      /\ UNCHANGED <<results, commits, unsent>>
      /\ crashes' = crashes + 1 /\ crashes \in Nat /\ crashes < MaxCrashes
  BY GoAlone, Parts, FreeLocations DEF SInv, Crash, Rest
<1>2. crashes' # 0 /\ crashes' <= MaxCrashes
  BY <1>1, BoundAssumption
<1>3. ASSUME NEW a \in Attempts
      PROVE  Clean(a)' \/ Excused(a)'
  <2>1. CASE Excused(a)
    BY <1>2, <2>1 DEF Excused
  <2>2. CASE Clean(a)
    <3>1. GradesBlank(x, a)' /\ EnqueuesStored(x, a)'
      BY <1>1 DEF GradesBlank, EnqueuesStored, Grading, Enqueuing
    <3>2. Agree(a)
      BY <1>1, SameAgrees
    <3>3. \A c \in commits' : c \in commits \/ SaysStored(c, a)'
      BY <1>1
    <3>4. commits' = commits /\ Documents
      BY <1>1, Parts DEF SInv
    <3> QED BY <1>1, <1>2, <2>2, <3>1, <3>2, <3>3, <3>4, CleanStays
  <2> QED BY <2>1, <2>2 DEF SInv, Sound
<1>4. Pinged'
  BY <1>1 DEF SInv, Pinged, Alone, Actors
<1> QED BY <1>2, <1>3, <1>4 DEF SInv, Sound

\* An enqueue that fails: that of a submission is remembered as lost.
LEMMA LostSound ==
  ASSUME SInv, IInv', Grows, NEW x \in Actors, EnqueueFails(x)
  PROVE  SInv'
<1>1. /\ \E l \in {"idle", "complete"} : Alone(x) /\ at'[x] = l
      /\ at[x] \notin {"find", "save"}
      /\ UNCHANGED <<results, commits, crashes>>
      /\ unsent' = IF at[x] = "submitEnqueue" THEN unsent \cup {id[x]} ELSE unsent
  BY GoAlone, Parts, FreeLocations DEF SInv, EnqueueFails
<1>2. /\ at'[x] \notin Grading /\ at'[x] \notin Enqueuing
      /\ at'[x] \notin {"ping", "pingAnswers"}
  BY <1>1 DEF Grading, Enqueuing
<1>3. ASSUME NEW a \in Attempts
      PROVE  Clean(a)' \/ Excused(a)'
  <2>1. CASE Excused(a)
    <3>1. KeepsDoom(x, a)
      BY <1>1 DEF KeepsDoom
    <3> QED BY <1>1, <2>1, <3>1, ExcusedStays
  <2>2. CASE Clean(a)
    <3>1. GradesBlank(x, a)' /\ EnqueuesStored(x, a)'
      BY <1>2 DEF GradesBlank, EnqueuesStored
    <3>2. Agree(a)
      BY <1>1, SameAgrees
    <3>3. \A c \in commits' : c \in commits \/ SaysStored(c, a)'
      BY <1>1
    <3>4. unsent \subseteq unsent' /\ (SubmissionOf(x, a) => a \in unsent')
      BY <1>1 DEF SubmissionOf
    <3>5. Documents
      BY Parts DEF SInv
    <3> QED BY <1>1, <2>2, <3>1, <3>2, <3>3, <3>4, <3>5, CleanStays
  <2> QED BY <2>1, <2>2 DEF SInv, Sound
<1>4. Pinged'
  BY <1>1, <1>2 DEF SInv, Pinged, Alone, Actors
<1> QED BY <1>1, <1>3, <1>4 DEF SInv, Sound

\* A step that moves no handler.
LEMMA StillSound ==
  ASSUME SInv, IInv', UNCHANGED <<results, commits, at, localVars, boundVars>>
  PROVE  SInv'
<1>1. UNCHANGED <<results, commits, at, id, doc, crashes, unsent>>
  BY DEF localVars, boundVars
<1>2. ASSUME NEW a \in Attempts
      PROVE  Clean(a)' \/ Excused(a)'
  <2>1. Clean(a) => Clean(a)'
    BY <1>1 DEF Clean, Earned, GradesBlank, EnqueuesStored, SaysStored, CommittedOrAbout,
                SubmissionOf
  <2>2. Excused(a) => Excused(a)'
    BY <1>1 DEF Excused, Doomed, Existing
  <2> QED BY <2>1, <2>2 DEF SInv, Sound
<1>3. Pinged'
  BY <1>1 DEF SInv, Pinged
<1> QED BY <1>1, <1>2, <1>3 DEF SInv, Sound

LEMMA NextSound ==
  ASSUME SInv, [Next]_vars
  PROVE  SInv'
<1>0. IInv' /\ Grows
  BY NextKeeps, ActorAssumption DEF SInv, Statuses
<1>1. ASSUME NEW r \in Requests, Begin(r)
      PROVE  SInv'
  <2>1. PICK k \in Kinds : at' = [at EXCEPT ![r] = k]
    BY <1>1 DEF Begin
  <2>2. /\ k \in AllKinds /\ r \in Actors /\ at[r] = "idle"
        /\ at \in [Actors -> Locations]
        /\ UNCHANGED <<results, commits, id, doc, crashes, unsent>>
    BY <1>1, ActorAssumption, Parts DEF Actors, SInv, Locals, Begin, boundVars
  <2>3. Alone(r) /\ at'[r] = k /\ k \notin Grading /\ k \notin Enqueuing
        /\ (k \in {"ping", "pingAnswers"} => "ping" \in Kinds)
    BY <2>1, <2>2 DEF Alone, AllKinds, Grading, Enqueuing
  <2>4. \A a \in Attempts : GradesBlank(r, a)' /\ EnqueuesStored(r, a)'
    BY <2>3 DEF GradesBlank, EnqueuesStored
  <2>5. \A a \in Attempts : Agree(a) /\ KeepsDoom(r, a)
    BY <2>2, SameAgrees DEF KeepsDoom
  <2> QED BY <1>0, <2>2, <2>3, <2>4, <2>5, CalmStep
<1>2. CASE \E r \in Requests : Begin(r) \/ RequestStep(r)
  BY <1>0, <1>1, <1>2, RequestSound
<1>3. CASE \E w \in Workers : WorkerStep(w) \/ SweepStep(w)
  BY <1>0, <1>3, WorkerSound
<1>4. CASE \E x \in Actors : EnqueueFails(x) \/ Crash(x)
  BY <1>0, <1>4, LostSound, CrashSound
<1>5. CASE \/ \E s \in AdminStatuses : AdminSetStatus(s)
           \/ Unblock
           \/ Tick
           \/ UNCHANGED vars
  <2>1. UNCHANGED <<results, commits, at, localVars, boundVars>>
    BY <1>5 DEF AdminSetStatus, Unblock, Tick, vars
  <2> QED BY <1>0, <2>1, StillSound
<1> QED BY <1>2, <1>3, <1>4, <1>5 DEF Next

LEMMA InitSound == Init => SInv
<1> SUFFICES ASSUME Init PROVE SInv
  OBVIOUS
<1>1. IInv
  BY InitIInv
<1>2. ASSUME NEW a \in Attempts
      PROVE  Clean(a)
  <2>1. results[a] = NoAttempt /\ commits = {}
    BY DEF Init
  <2>2. Earned(a)
    BY <2>1, SheetAssumption DEF Earned, NoAttempt
  <2>3. \A x \in Actors : GradesBlank(x, a) /\ EnqueuesStored(x, a)
    BY DEF Init, GradesBlank, EnqueuesStored, Grading, Enqueuing
  <2>4. results[a].version # 1
    BY <2>1 DEF NoAttempt
  <2> QED BY <2>1, <2>2, <2>3, <2>4 DEF Clean, CommittedOrAbout
<1>3. Pinged
  BY DEF Init, Pinged, Actors
<1>4. crashes <= MaxCrashes
  BY BoundAssumption DEF Init
<1> QED BY <1>1, <1>2, <1>3, <1>4 DEF SInv, Sound

\* Scores and commitments are sound in every state.
LEMMA SoundAlways == Spec => []SInv
<1>1. SInv /\ [Next]_vars => SInv'
  BY NextSound
<1> QED BY <1>1, InitSound, PTL DEF Spec

\* When no handler runs and none was cut off, every attempt is clean or terminated.
LEMMA QuietIsClean ==
  ASSUME SInv, Quiet, crashes = 0 \/ "ping" \notin Kinds, NEW a \in Attempts,
         ~results[a].terminated
  PROVE  Clean(a)
<1>1. ~Excused(a)
  BY DEF Excused, Doomed, Quiet, Actors
<1> QED BY <1>1 DEF SInv, Sound

\* A handed-in attempt that nobody terminated verifies once nothing is in
\* progress: whatever the worker graded or enqueued from a stale snapshot or failed
\* to enqueue, the newest commitment is the submission's own and says what is
\* stored, unless just that one could not be enqueued.
THEOREM AttemptSubmittedVerifies == Spec => []SubmittedVerifies
<1>1. SInv => SubmittedVerifies
  <2> SUFFICES ASSUME SInv, Quiet, crashes = 0,
                      NEW a \in Attempts \ unsent, results[a].version = 1,
                      ~results[a].terminated
               PROVE  Verifies(a)
    BY DEF SubmittedVerifies
  <2>1. Clean(a)
    BY QuietIsClean
  <2>2. ~\E x \in Actors : SubmissionOf(x, a)
    BY DEF Quiet, SubmissionOf
  <2>3. PICK c \in commits : c.attempt = a /\ c.version = 2
    BY <2>1, <2>2 DEF Clean, CommittedOrAbout
  <2>4. /\ c.owner = "id"
        /\ c.holds = [score |-> results[a].score, status |-> "Completed", terminated |-> FALSE]
    BY <2>1, <2>3 DEF Clean, SaysStored
  <2>5. c \in Newest(a)
    <3>1. \A d \in commits : d.attempt = a => d.version <= 2
      BY <2>1 DEF Clean, SaysStored
    <3> QED BY <2>3, <3>1 DEF Newest
  <2>6. results[a].status = "Completed" /\ results[a].terminated = FALSE
    <3>1. results[a] \in Attempt
      BY Parts DEF SInv, Documents
    <3> QED BY <2>1, <3>1 DEF Clean, Earned, Attempt
  <2> QED BY <2>4, <2>5, <2>6 DEF Verifies
<1> QED BY <1>1, SoundAlways, PTL

\* A completed attempt that nobody terminated has the score of its answers,
\* however submissions and worker polls interleave.  A ping that is cut off after
\* it stored answers and before it terminated the attempt would break this.
THEOREM AttemptScoreIsEarned ==
  ASSUME MaxCrashes = 0 \/ "ping" \notin Kinds
  PROVE  Spec => []ScoreIsEarned
<1>1. SInv => ScoreIsEarned
  <2> SUFFICES ASSUME SInv, Quiet, NEW a \in Attempts, ~results[a].terminated
               PROVE  results[a].score = Score[results[a].answers]
    BY DEF ScoreIsEarned
  <2>1. crashes = 0 \/ "ping" \notin Kinds
    <3>1. crashes \in Nat /\ crashes <= MaxCrashes
      BY Parts DEF SInv, Rest
    <3> QED BY <3>1
  <2>2. Clean(a)
    BY <2>1, QuietIsClean
  <2> QED BY <2>2 DEF Clean, Earned
<1> QED BY <1>1, SoundAlways, PTL

=============================================================================
