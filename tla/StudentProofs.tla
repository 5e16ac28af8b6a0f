--------------------------- MODULE StudentProofs ---------------------------
(***************************************************************************)
(* What a student has at hand, for any bounds: the page of an exam         *)
(* (TakeExam) and the session of the account (AccountSession).             *)
(*                                                                         *)
(* The page.  An answer that says "ok" speaks of the attempt that is open, *)
(* since an attempt begins on a page that was closed, where nobody waits   *)
(* for older answers (AnswersTrue).  A flush has got as many incidents     *)
(* stored as it has sent, while they are all still queued (Doubled); so    *)
(* the reports exceed what the student did by as much as the queue will    *)
(* lose at once (Balance).                                                 *)
(*                                                                         *)
(* The account.  One session at a time, an invalid token stays invalid,    *)
(* and only an admin lifts a block.  The first two hold while no save goes *)
(* over another one, and follow from IInv: a token is never newer than the *)
(* account, a blocked or logged out account has no token of its own        *)
(* version, and a loaded copy that still has the account's version agrees  *)
(* with it about the session and has not missed a block.                   *)
(***************************************************************************)
EXTENDS TakeExam, AccountSession, TLAPS

\* What an answer or a score on the page says is true of the attempt it is about,
\* and nobody waits for an answer on a page that is closed.
Accepted == attempt \in Attempts /\ accepted[attempt] # None

AnswersTrue ==
    /\ status = "InProgress" => attempt \in Attempts
    /\ status = "Completed" => Accepted
    /\ shown => Accepted
    /\ \A k \in {"submit", "sync"} : call[k].at = "back" /\ call[k].reply = "ok" => Accepted
    /\ page = "closed" =>
          /\ ~shown
          /\ \A k \in Kinds : call[k].at = "idle" \/ (call[k].at = "sent" /\ ~call[k].mine)

\* Incidents a flush has got stored that are still in the queue.
Doubled ==
    LET c == call["flush"]
    IN IF c.at = "idle" THEN 0
       ELSE IF c.at = "back" /\ c.reply \in {"ok", "terminate"} THEN c.load - c.count + 1
       ELSE c.load - c.count

\* Every violation is stored, queued or unreported, even when what a flush has
\* doubled is counted once only.
Balance ==
    /\ base <= reports + audits
    /\ call["flush"].at # "idle" => 1 <= call["flush"].count /\ call["flush"].count <= call["flush"].load
    /\ call["incident"].mine \/ forgotten
    /\ ~forgotten => violations + Doubled <= reports + queue + Unreported

\* A hand-in, or its repetition, carries an answer sheet.
SheetsSent == \A k \in {"submit", "sync"} : call[k].load \in Sheets

PageInv == TypeOK /\ SheetsSent /\ AnswersTrue /\ Balance

-----------------------------------------------------------------------------
(* Calls.                                                                  *)

Replies == {"none", "ok", "refused", "denied", "terminate", "lost"}
Call    == [at : {"idle", "sent", "back"}, load : Nat, count : Nat, token : Nat,
            reply : Replies, mine : BOOLEAN]

Cache   == [count : Nat, over : BOOLEAN, results : BOOLEAN]

\* The types, apart: the flags and the rest.
Flags == /\ shown \in BOOLEAN /\ terminated \in BOOLEAN /\ restricted \in BOOLEAN
         /\ submitting \in BOOLEAN /\ timeUp \in BOOLEAN /\ ticking \in BOOLEAN /\ sees \in BOOLEAN
         /\ blocked \in BOOLEAN /\ forgotten \in BOOLEAN

Data == /\ page \in {"closed", "loaded", "started"}
        /\ answers \in Sheets /\ saved \in Sheets \cup {None} /\ pending \in Sheets \cup {None}
        /\ status \in {"none", "InProgress", "Completed", "Terminated"}
        /\ attempt \in {0} \cup Attempts
        /\ accepted \in [Attempts -> Sheets \cup {None}]
        /\ warnings \in Nat /\ queue \in Nat /\ reports \in Nat /\ audits \in Nat /\ base \in Nat
        /\ violations \in Nat /\ faults \in Nat
        /\ token \in Nat /\ session \in Nat
        /\ cache \in Cache \cup {None}
        /\ exam \in {"live", "grace", "late", "closed"}

LEMMA Types == TypeOK <=> Flags /\ Data /\ call \in [Kinds -> Call]
BY DEF TypeOK, Flags, Data, Call, Cache, Replies

LEMMA TypesAfter == TypeOK' <=> Flags' /\ Data' /\ call' \in [Kinds -> Call]
BY DEF TypeOK, Flags, Data, Call, Cache, Replies

LEMMA CallType == TypeOK => call \in [Kinds -> Call]
BY Types

LEMMA IdleCall == Idle \in Call /\ Idle.at = "idle" /\ Idle.mine = TRUE /\ Idle.load = 0 /\ Idle.count = 0
<1>1. Idle.at = "idle" /\ Idle.mine = TRUE /\ Idle.load = 0 /\ Idle.count = 0
  BY DEF Idle
<1> QED BY <1>1 DEF Idle, Call, Replies

\* The page takes notice of an answer when it has been waiting for it.
LEMMA AnswerCall ==
  ASSUME TypeOK, NEW k \in Kinds, NEW reply \in Replies, Answer(k, reply)
  PROVE  /\ call' \in [Kinds -> Call]
         /\ \A j \in Kinds : j # k => call'[j] = call[j]
         /\ call[k].mine => /\ call'[k].at = "back" /\ call'[k].reply = reply
                            /\ call'[k].load = call[k].load /\ call'[k].count = call[k].count
         /\ ~call[k].mine => call'[k] = Idle
<1>1. call \in [Kinds -> Call] /\ call[k] \in Call
  BY CallType
<1>2. PICK new : new = [call[k] EXCEPT !.at = "back", !.reply = reply]
  OBVIOUS
<1>3. /\ new \in Call /\ new.at = "back" /\ new.reply = reply
      /\ new.load = call[k].load /\ new.count = call[k].count
  BY <1>1, <1>2 DEF Call
<1>4. call' = [call EXCEPT ![k] = IF call[k].mine THEN new ELSE Idle]
  BY <1>2 DEF Answer
<1>5. (IF call[k].mine THEN new ELSE Idle) \in Call
  BY <1>3, IdleCall
<1> QED BY <1>1, <1>3, <1>4, <1>5

LEMMA SheetsStay ==
  ASSUME SheetsSent, \A k \in {"submit", "sync"} : call'[k].load \in {call[k].load, 0} \cup Sheets
  PROVE  SheetsSent'
BY BoundAssumption DEF SheetsSent, Sheets

LEMMA SendCall ==
  ASSUME TypeOK, NEW k \in Kinds, NEW load \in Nat, NEW count \in Nat, Send(k, load, count)
  PROVE  /\ call' \in [Kinds -> Call]
         /\ \A j \in Kinds : j # k => call'[j] = call[j]
         /\ call'[k].at = "sent" /\ call'[k].mine = TRUE
         /\ call'[k].load = load /\ call'[k].count = count
<1>1. call \in [Kinds -> Call]
  BY CallType
<1>2. PICK new : new = [Idle EXCEPT !.at = "sent", !.load = load, !.count = count, !.token = token]
  OBVIOUS
<1>3. /\ new \in Call /\ new.at = "sent" /\ new.mine = TRUE
      /\ new.load = load /\ new.count = count
  BY <1>2, Types DEF Data, Idle, Call, Replies
<1>4. call' = [call EXCEPT ![k] = new]
  BY <1>2 DEF Send
<1> QED BY <1>1, <1>3, <1>4

LEMMA DoneCall ==
  ASSUME TypeOK, NEW k \in Kinds, Done(k)
  PROVE  /\ call' \in [Kinds -> Call]
         /\ \A j \in Kinds : j # k => call'[j] = call[j]
         /\ call'[k] = Idle
<1>1. call \in [Kinds -> Call]
  BY CallType
<1> QED BY <1>1, IdleCall DEF Done

\* A termination by the page leaves the documents of an attempt alone but for its
\* status.
LEMMA TerminationStays ==
  ASSUME TypeOK, ForceTermination \/ NoTermination
  PROVE  /\ UNCHANGED <<exam, attempt, accepted, reports, audits, base>>
         /\ status' \in {status, "Terminated"}
         /\ terminated' \in BOOLEAN /\ restricted' \in BOOLEAN /\ ticking' \in BOOLEAN
         /\ saved' \in Sheets \cup {None}
         /\ blocked' \in BOOLEAN /\ session' \in Nat /\ faults' \in Nat
<1>0. Flags /\ Data
  BY Types
<1>1. CASE NoTermination
  BY <1>0, <1>1 DEF NoTermination, Flags, Data, serverVars
<1>2. CASE ForceTermination /\ ~terminated
  <2>1. terminated' = TRUE /\ ticking' = FALSE /\ saved' = None /\ PostTerminate
    BY <1>2 DEF ForceTermination
  <2>2. /\ UNCHANGED <<exam, attempt, accepted, reports, audits, base>>
        /\ status' \in {status, "Terminated"} /\ restricted' \in BOOLEAN
        /\ blocked' \in BOOLEAN
    BY <1>0, <2>1 DEF PostTerminate, Block, serverVars, Flags
  <2>3. faults' \in Nat /\ session' \in Nat
    BY <1>0, <2>1 DEF PostTerminate, Block, serverVars, Data
  <2> QED BY <2>1, <2>2, <2>3
<1> QED BY <1>1, <1>2 DEF ForceTermination

\* What a step may do without touching what the answers say.
LEMMA AnswersStay ==
  ASSUME AnswersTrue, UNCHANGED <<page, attempt, accepted>>, status' \in {status, "Terminated"},
         shown' => shown \/ (page # "closed" /\ Accepted),
         \A k \in {"submit", "sync"} : \/ call'[k] = call[k]
                                       \/ call'[k].at # "back" \/ call'[k].reply # "ok",
         page = "closed" => \A k \in Kinds : call'[k] = call[k] \/ call'[k].at = "idle"
  PROVE  AnswersTrue'
<1>1. Accepted' = Accepted
  BY DEF Accepted
<1>2. shown' => Accepted /\ page # "closed"
  BY DEF AnswersTrue
<1>3. \A k \in {"submit", "sync"} : call'[k].at = "back" /\ call'[k].reply = "ok" => Accepted
  BY DEF AnswersTrue
<1>4. page = "closed" => \A k \in Kinds : \/ call'[k].at = "idle"
                                          \/ call'[k].at = "sent" /\ ~call'[k].mine
  BY DEF AnswersTrue
<1> QED BY <1>1, <1>2, <1>3, <1>4 DEF AnswersTrue

\* ... and without touching what is known of the violations.
LEMMA BalanceStays ==
  ASSUME Balance, UNCHANGED <<base, reports, audits, queue, violations, forgotten>>,
         call'["flush"] = call["flush"], call'["incident"] = call["incident"]
  PROVE  Balance'
BY DEF Balance, Doubled, Unreported

LEMMA MoreReported ==
  ASSUME NEW v \in Nat, NEW d \in Nat, NEW r \in Nat, NEW q \in Nat, NEW u \in {0, 1},
         v + d <= r + q + u
  PROVE  /\ \A e \in Nat : e <= d + 1 => v + e <= (r + 1) + q + u
         /\ \A w \in {0, 1} : v + d <= (r + 1) + q + w
OBVIOUS

LEMMA BaseStays ==
  ASSUME NEW b \in Nat, NEW r \in Nat, NEW a \in Nat, b <= r + a,
         NEW s \in {r, r + 1}, NEW d \in {a, a + 1}
  PROVE  b <= s + d
OBVIOUS

LEMMA LessToReport ==
  ASSUME NEW v \in Nat, NEW d \in Nat, NEW r \in Nat, NEW q \in Nat, NEW u \in {0, 1},
         v + d <= r + q + u, NEW e \in Nat, e <= d
  PROVE  v + e <= r + q + u
OBVIOUS

\* What a call contributes to the account of the violations.
LEMMA BalanceTypes ==
  ASSUME TypeOK, Balance
  PROVE  /\ Doubled \in Nat /\ Unreported \in {0, 1}
         /\ call["flush"] \in Call /\ call["incident"] \in Call
<1>1. call["flush"] \in Call /\ call["incident"] \in Call
  BY CallType DEF Kinds
<1>2. Doubled \in Nat
  BY <1>1 DEF Balance, Doubled, Call
<1> QED BY <1>1, <1>2 DEF Unreported

-----------------------------------------------------------------------------
(* The network and the server.                                             *)

LEMMA LoseStep ==
  ASSUME PageInv, NEW k \in Kinds, Lose(k)
  PROVE  PageInv'
<1>0. TypeOK /\ SheetsSent /\ AnswersTrue /\ Balance
  BY DEF PageInv
<1>1. /\ Answer(k, "lost") /\ "lost" \in Replies
      /\ UNCHANGED <<pageVars, storageVars, serverVars, ghostVars>>
      /\ faults' = faults + 1
  BY DEF Lose, Replies
<1>2. /\ call \in [Kinds -> Call] /\ call' \in [Kinds -> Call]
      /\ \A j \in Kinds : j # k => call'[j] = call[j]
      /\ call[k].mine => /\ call'[k].at = "back" /\ call'[k].reply = "lost"
                         /\ call'[k].load = call[k].load /\ call'[k].count = call[k].count
      /\ ~call[k].mine => call'[k] = Idle
  BY <1>0, <1>1, AnswerCall, CallType
<1>3. TypeOK'
  <2>1. Data'
    BY <1>0, <1>1, Types DEF Data, pageVars, flagVars, storageVars, serverVars, ghostVars
  <2>2. Flags'
    BY <1>0, <1>1, Types DEF Flags, pageVars, flagVars, storageVars, serverVars, ghostVars
  <2> QED BY <1>2, <2>1, <2>2, TypesAfter
<1>4. AnswersTrue'
  <2>1. page = "closed" => ~call[k].mine
    BY <1>0 DEF AnswersTrue, Lose
  <2>2. page = "closed" => \A j \in Kinds : call'[j] = call[j] \/ call'[j].at = "idle"
    BY <1>2, <2>1, IdleCall
  <2>3. \A j \in {"submit", "sync"} : \/ call'[j] = call[j]
                                      \/ call'[j].at # "back" \/ call'[j].reply # "ok"
    BY <1>2, IdleCall DEF Kinds
  <2> QED BY <1>0, <1>1, <2>2, <2>3, AnswersStay DEF pageVars, flagVars, serverVars
<1>5. Balance'
  <2>1. UNCHANGED <<base, reports, audits, queue, violations, forgotten>>
    BY <1>1 DEF serverVars, storageVars, ghostVars
  <2>2. CASE k \in {"submit", "sync"}
    BY <1>0, <1>2, <2>1, <2>2, BalanceStays DEF Kinds
  <2>0. /\ Doubled \in Nat /\ Unreported \in {0, 1}
        /\ call["flush"] \in Call /\ call["incident"] \in Call
        /\ violations \in Nat /\ reports \in Nat /\ queue \in Nat
    BY <1>0, BalanceTypes DEF TypeOK
  <2>3. CASE k = "incident"
    <3>1. call'["flush"] = call["flush"] /\ Doubled' = Doubled
      BY <1>2, <2>3 DEF Kinds, Doubled
    <3>2. ~forgotten => /\ call'["incident"].at = "back" /\ call'["incident"].reply = "lost"
                        /\ call'["incident"] \in Call
      BY <1>0, <1>2, <2>3 DEF Balance, Kinds
    <3>3. ~forgotten => Unreported' = 1
      BY <3>2 DEF Unreported
    <3>4. ~forgotten => call'["incident"].mine
      BY <1>1, <2>3, <1>0 DEF Balance, Answer, TypeOK, Kinds
    <3> QED BY <1>0, <2>0, <2>1, <3>1, <3>3, <3>4 DEF Balance
  <2>4. CASE k = "flush"
    <3>1. call'["incident"] = call["incident"] /\ Unreported' = Unreported
      BY <1>2, <2>4 DEF Kinds, Unreported
    <3>2. \/ call'["flush"] = Idle
          \/ /\ call'["flush"].at = "back" /\ call'["flush"].reply = "lost"
             /\ call'["flush"].load = call["flush"].load
             /\ call'["flush"].count = call["flush"].count
             /\ call["flush"].at # "idle"
      BY <1>2, <2>4 DEF Lose
    <3>3. Doubled' \in Nat /\ Doubled' <= Doubled
      BY <1>0, <2>0, <3>2, IdleCall DEF Doubled, Balance, Call
    <3>4. /\ call'["flush"].at # "idle" =>
                1 <= call'["flush"].count /\ call'["flush"].count <= call'["flush"].load
      BY <1>0, <3>2, IdleCall DEF Balance
    <3>5. ~forgotten' => violations' + Doubled' <= reports' + queue' + Unreported'
      <4>1. ~forgotten => violations + Doubled <= reports + queue + Unreported
        BY <1>0 DEF Balance
      <4> QED BY <2>0, <2>1, <3>1, <3>3, <4>1, LessToReport
    <3>6. base' <= reports' + audits' /\ (call'["incident"].mine \/ forgotten')
      BY <1>0, <2>1, <3>1 DEF Balance
    <3> QED BY <3>4, <3>5, <3>6 DEF Balance
  <2> QED BY <2>2, <2>3, <2>4 DEF Kinds
<1>6. SheetsSent'
  BY <1>0, <1>2, IdleCall, SheetsStay DEF Kinds
<1> QED BY <1>3, <1>4, <1>5, <1>6 DEF PageInv

LEMMA ServeStep ==
  ASSUME PageInv, NEW k \in Kinds, Serve(k)
  PROVE  PageInv'
<1>0. TypeOK /\ SheetsSent /\ AnswersTrue /\ Balance
  BY DEF PageInv
<1>1. UNCHANGED <<pageVars, storageVars, ghostVars, faults>> /\ call[k].at = "sent"
  BY DEF Serve
<1>2. PICK reply \in Replies :
        /\ Answer(k, reply)
        /\ UNCHANGED <<exam, attempt, audits, base>>
        /\ k \in {"submit", "sync"} => UNCHANGED <<reports, blocked, session>>
        /\ k \in {"incident", "flush"} => UNCHANGED accepted /\ status' \in {status, "Terminated"}
        /\ \/ /\ UNCHANGED <<accepted, reports, blocked, session>> /\ reply \in {"denied", "refused"}
              /\ status' \in {status, "Terminated"}
              /\ (k \in {"incident", "flush"} => reply = "denied")
           \/ /\ k \in {"submit", "sync"} /\ status = "InProgress"
              /\ status' = "Completed" /\ reply = "ok"
              /\ accepted' = [accepted EXCEPT ![attempt] = call[k].load]
           \/ /\ k \in {"incident", "flush"} /\ reply \in {"ok", "terminate"}
              /\ reports' = reports + 1 /\ blocked' \in {blocked, TRUE}
              /\ session' \in {session, session + 1}
  <2>1. CASE k \in {"submit", "sync"}
    <3>1. ServeSubmit(k) /\ k \notin {"incident", "flush"}
      BY <2>1 DEF Serve
    <3>2. CASE ~LetIn(call[k].token) \/ status # "InProgress"
      BY <2>1, <3>1, <3>2 DEF ServeSubmit, Replies, serverVars
    <3>3. CASE LetIn(call[k].token) /\ status = "InProgress"
      <4>1. /\ UNCHANGED <<exam, attempt, reports, audits, base, blocked, session>>
            /\ \/ UNCHANGED <<status, accepted>> /\ Answer(k, "denied")
               \/ status' = "Terminated" /\ UNCHANGED accepted /\ Answer(k, "denied")
               \/ /\ status' = "Completed" /\ Answer(k, "ok")
                  /\ accepted' = [accepted EXCEPT ![attempt] = call[k].load]
        BY <3>1, <3>3 DEF ServeSubmit
      <4> QED BY <2>1, <3>1, <3>3, <4>1 DEF Replies
    <3> QED BY <3>2, <3>3
  <2>2. CASE k \in {"incident", "flush"}
    <3>1. ServeIncident(k) /\ k \notin {"submit", "sync"}
      BY <2>2 DEF Serve
    <3>2. CASE ~LetIn(call[k].token)
      BY <2>2, <3>1, <3>2 DEF ServeIncident, Replies, serverVars
    <3>3. CASE LetIn(call[k].token)
      <4>1. /\ reports' = reports + 1 /\ UNCHANGED <<exam, attempt, accepted, audits, base>>
            /\ \/ status' = "Terminated" /\ Block /\ Answer(k, "terminate")
               \/ UNCHANGED <<status, blocked, session>> /\ Answer(k, "ok")
        BY <3>1, <3>3 DEF ServeIncident
      <4> QED BY <2>2, <3>1, <4>1 DEF Replies, Block
    <3> QED BY <3>2, <3>3
  <2> QED BY <2>1, <2>2 DEF Kinds
<1>3. /\ call \in [Kinds -> Call] /\ call' \in [Kinds -> Call]
      /\ \A j \in Kinds : j # k => call'[j] = call[j]
      /\ call[k].mine => /\ call'[k].at = "back" /\ call'[k].reply = reply
                         /\ call'[k].load = call[k].load /\ call'[k].count = call[k].count
      /\ ~call[k].mine => call'[k] = Idle
  BY <1>0, <1>2, AnswerCall, CallType
<1>4. status = "InProgress" => attempt \in Attempts
  BY <1>0 DEF AnswersTrue
<1>5. k \in {"submit", "sync"} => call[k].load \in Sheets /\ call[k].load # None
  BY <1>0, BoundAssumption DEF SheetsSent, Sheets
<1>6. accepted' \in [Attempts -> Sheets \cup {None}]
  <2>1. accepted' = accepted \/ (k \in {"submit", "sync"} /\ accepted' = [accepted EXCEPT ![attempt] = call[k].load])
    BY <1>2 DEF Kinds
  <2> QED BY <1>0, <1>5, <2>1 DEF TypeOK
<1>7. TypeOK'
  <2>0. Flags /\ Data
    BY <1>0, Types
  <2>1. /\ status' \in {"none", "InProgress", "Completed", "Terminated"}
        /\ blocked' \in BOOLEAN
    BY <1>2, <2>0 DEF Flags, Data, Kinds
  <2>2. reports' \in Nat /\ session' \in Nat
    <3>1. reports' \in {reports, reports + 1} /\ session' \in {session, session + 1}
      BY <1>2
    <3> QED BY <2>0, <3>1 DEF Data
  <2>3. Data'
    BY <1>1, <1>2, <1>6, <2>0, <2>1, <2>2 DEF Data, pageVars, flagVars, storageVars, ghostVars
  <2>4. Flags'
    BY <1>1, <2>0, <2>1 DEF Flags, pageVars, flagVars, ghostVars
  <2> QED BY <1>3, <2>3, <2>4, TypesAfter
<1>8. SheetsSent'
  BY <1>0, <1>3, IdleCall, SheetsStay DEF Kinds
<1>9. AnswersTrue'
  <2>1. page = "closed" => ~call[k].mine
    BY <1>0, <1>1 DEF AnswersTrue
  <2>2. page = "closed" => \A j \in Kinds : call'[j] = call[j] \/ call'[j].at = "idle"
    BY <1>3, <2>1, IdleCall
  <2>3. CASE reply # "ok" \/ k \in {"incident", "flush"}
    <3>1. \A j \in {"submit", "sync"} : \/ call'[j] = call[j]
                                        \/ call'[j].at # "back" \/ call'[j].reply # "ok"
      BY <1>3, <2>3, IdleCall DEF Kinds
    <3>2. UNCHANGED <<attempt, accepted>> /\ status' \in {status, "Terminated"}
      BY <1>2, <2>3
    <3> QED BY <1>0, <1>1, <2>2, <3>1, <3>2, AnswersStay DEF pageVars, flagVars
  <2>4. CASE /\ k \in {"submit", "sync"} /\ status = "InProgress"
             /\ status' = "Completed" /\ reply = "ok"
             /\ accepted' = [accepted EXCEPT ![attempt] = call[k].load]
    <3>1. Accepted'
      BY <1>0, <1>2, <1>4, <1>5, <2>4 DEF Accepted, TypeOK
    <3>2. page' = page /\ shown' = shown
      BY <1>1 DEF pageVars, flagVars
    <3>3. page = "closed" => \A j \in Kinds : \/ call'[j].at = "idle"
                                              \/ call'[j].at = "sent" /\ ~call'[j].mine
      BY <1>0, <2>2 DEF AnswersTrue
    <3>4. page = "closed" => ~shown
      BY <1>0 DEF AnswersTrue
    <3> QED BY <2>4, <3>1, <3>2, <3>3, <3>4 DEF AnswersTrue
  <2> QED BY <1>2, <2>3, <2>4 DEF Kinds
<1>10. Balance'
  <2>0. /\ Doubled \in Nat /\ Unreported \in {0, 1}
        /\ call["flush"] \in Call /\ call["incident"] \in Call
        /\ violations \in Nat /\ reports \in Nat /\ audits \in Nat /\ queue \in Nat /\ base \in Nat
        /\ ~forgotten => violations + Doubled <= reports + queue + Unreported
        /\ base <= reports + audits
    BY <1>0, BalanceTypes DEF TypeOK, Balance
  <2>1. UNCHANGED <<queue, violations, forgotten, audits, base>>
    BY <1>1, <1>2 DEF storageVars, ghostVars
  <2>5. base' <= reports' + audits'
    BY <1>2, <2>0, <2>1, BaseStays DEF Kinds
  <2>2. CASE k \in {"submit", "sync"}
    BY <1>0, <1>2, <1>3, <2>1, <2>2, BalanceStays DEF Kinds
  <2>3. CASE k = "incident"
    <3>1. call'["flush"] = call["flush"] /\ Doubled' = Doubled
      BY <1>3, <2>3 DEF Kinds, Doubled
    <3>2. ~forgotten => /\ call[k].mine
                        /\ call'["incident"].at = "back" /\ call'["incident"].reply = reply
      BY <1>0, <1>3, <2>3 DEF Balance
    <3>3. call'["incident"].mine \/ forgotten'
      BY <1>0, <1>2, <2>1, <2>3, IdleCall DEF Balance, Answer, TypeOK, Kinds
    <3>4. Unreported' \in {0, 1}
      BY DEF Unreported
    <3>5. CASE reports' = reports /\ reply = "denied"
      <4>1. ~forgotten => Unreported' = 1
        BY <3>2, <3>5 DEF Unreported
      <4> QED BY <1>0, <2>0, <2>1, <2>5, <3>1, <3>3, <3>5, <4>1 DEF Balance
    <3>6. CASE reports' = reports + 1
      <4>1. ~forgotten' => violations' + Doubled' <= reports' + queue' + Unreported'
        BY <2>0, <2>1, <3>1, <3>4, <3>6, MoreReported
      <4> QED BY <1>0, <2>5, <3>1, <3>3, <4>1 DEF Balance
    <3> QED BY <1>2, <2>3, <3>5, <3>6
  <2>4. CASE k = "flush"
    <3>1. call'["incident"] = call["incident"] /\ Unreported' = Unreported
      BY <1>3, <2>4 DEF Kinds, Unreported
    <3>2. \/ call'["flush"] = Idle
          \/ /\ call'["flush"].at = "back" /\ call'["flush"].reply = reply
             /\ call'["flush"].load = call["flush"].load
             /\ call'["flush"].count = call["flush"].count
      BY <1>3, <2>4
    <3>3. /\ call'["flush"].at # "idle" =>
                1 <= call'["flush"].count /\ call'["flush"].count <= call'["flush"].load
      BY <1>0, <1>1, <2>4, <3>2, IdleCall DEF Balance
    <3>4. call'["incident"].mine \/ forgotten'
      BY <1>0, <2>1, <3>1 DEF Balance
    <3>5. CASE reports' = reports /\ reply = "denied"
      <4>1. Doubled' \in Nat /\ Doubled' <= Doubled
        BY <1>0, <1>1, <2>0, <2>4, <3>2, <3>5, IdleCall DEF Doubled, Balance, Call
      <4>2. ~forgotten' => violations' + Doubled' <= reports' + queue' + Unreported'
        BY <2>0, <2>1, <3>1, <3>5, <4>1, LessToReport
      <4> QED BY <2>0, <2>1, <2>5, <3>3, <3>4, <3>5, <4>2 DEF Balance
    <3>6. CASE reports' = reports + 1
      <4>1. Doubled' \in Nat /\ Doubled' <= Doubled + 1
        BY <1>0, <1>1, <2>0, <2>4, <3>2, IdleCall DEF Doubled, Balance, Call
      <4>2. ~forgotten' => violations' + Doubled' <= reports' + queue' + Unreported'
        BY <2>0, <2>1, <3>1, <3>6, <4>1, MoreReported
      <4> QED BY <2>5, <3>3, <3>4, <4>2 DEF Balance
    <3> QED BY <1>2, <2>4, <3>5, <3>6
  <2> QED BY <2>2, <2>3, <2>4 DEF Kinds
<1> QED BY <1>7, <1>8, <1>9, <1>10 DEF PageInv

-----------------------------------------------------------------------------
(* Opening, answering, closing.                                            *)

LEMMA OpenStep ==
  ASSUME PageInv, FetchExam \/ FetchCached
  PROVE  PageInv'
<1>0. TypeOK /\ SheetsSent /\ AnswersTrue /\ Balance
  BY DEF PageInv
<1>1. PICK count, over :
        /\ page = "closed" /\ Opened(count, over)
        /\ UNCHANGED <<exam, accepted, reports, audits, base, blocked, session>>
        /\ \/ /\ status = "InProgress" \/ attempt < MaxAttempts
              /\ status = "InProgress" => attempt' = attempt
              /\ status # "InProgress" => attempt' = attempt + 1
              /\ status' = "InProgress"
              /\ count = Count /\ over = (exam # "live") /\ token' = session
              /\ cache' = [count |-> Count, over |-> (exam # "live"), results |-> TRUE]
           \/ /\ UNCHANGED <<attempt, status, token>>
              /\ cache # None /\ count = cache.count /\ over = cache.over
              /\ cache' = [cache EXCEPT !.results = TRUE]
  <2>1. CASE FetchExam
    BY <2>1 DEF FetchExam
  <2>2. CASE FetchCached
    BY <2>2 DEF FetchCached, serverVars
  <2> QED BY <2>1, <2>2
<1>2. /\ page' \in {"loaded", "started"} /\ shown' = FALSE
      /\ UNCHANGED <<call, saved, pending, queue, violations, forgotten, faults>>
      /\ terminated' = FALSE /\ restricted' = FALSE /\ submitting' = FALSE /\ sees' = FALSE
      /\ ticking' \in BOOLEAN /\ timeUp' = over /\ warnings' = count
      /\ answers' = IF saved = None THEN 0 ELSE saved
  BY <1>1 DEF Opened, ghostVars
<1>3. attempt' \in {0} \cup Attempts /\ (status' = "InProgress" => attempt' \in Attempts)
  <2>1. attempt \in 0..MaxAttempts /\ (status = "InProgress" => attempt \in Attempts)
    BY <1>0, BoundAssumption DEF AnswersTrue, TypeOK, Attempts
  <2> QED BY <1>1, <2>1, BoundAssumption DEF Attempts
<1>4. /\ count \in Nat /\ over \in BOOLEAN /\ token' \in Nat
      /\ cache' \in Cache \cup {None}
  <2>1. Count \in Nat /\ session \in Nat /\ token \in Nat
    BY <1>0 DEF TypeOK, Balance, Count
  <2>2. cache # None => cache \in Cache /\ cache.count \in Nat /\ cache.over \in BOOLEAN
    BY <1>0, Types DEF Data, Cache
  <2>3. (exam # "live") \in BOOLEAN
    OBVIOUS
  <2>4. CASE /\ count = Count /\ over = (exam # "live") /\ token' = session
             /\ cache' = [count |-> Count, over |-> (exam # "live"), results |-> TRUE]
    <3>1. PICK late : late = (exam # "live")
      OBVIOUS
    <3>2. late \in BOOLEAN /\ cache' = [count |-> Count, over |-> late, results |-> TRUE]
      BY <2>3, <2>4, <3>1
    <3> QED BY <2>1, <2>4, <3>1, <3>2 DEF Cache
  <2>5. CASE /\ UNCHANGED <<attempt, status, token>>
             /\ cache # None /\ count = cache.count /\ over = cache.over
             /\ cache' = [cache EXCEPT !.results = TRUE]
    BY <2>1, <2>2, <2>5 DEF Cache
  <2> QED BY <1>1, <2>4, <2>5
<1>5. TypeOK'
  <2>1. answers' \in Sheets
    BY <1>0, <1>2, BoundAssumption DEF TypeOK, Sheets
  <2>2. status' \in {"none", "InProgress", "Completed", "Terminated"}
    BY <1>0, <1>1 DEF TypeOK
  <2>3. Data'
    BY <1>0, <1>1, <1>2, <1>3, <1>4, <2>1, <2>2, Types DEF Data
  <2>4. Flags'
    BY <1>0, <1>1, <1>2, <1>4, Types DEF Flags
  <2> QED BY <1>0, <1>2, <2>3, <2>4, Types, TypesAfter
<1>6. SheetsSent'
  BY <1>0, <1>2 DEF SheetsSent
<1>7. AnswersTrue'
  <2>1. \A k \in Kinds : call[k].at # "back"
    BY <1>0, <1>1 DEF AnswersTrue
  <2>2. status' = "Completed" => Accepted'
    BY <1>0, <1>1 DEF AnswersTrue, Accepted
  <2> QED BY <1>1, <1>2, <1>3, <2>1, <2>2 DEF AnswersTrue, Kinds
<1>8. Balance'
  BY <1>0, <1>1, <1>2, BalanceStays
<1> QED BY <1>5, <1>6, <1>7, <1>8 DEF PageInv

LEMMA CloseStep ==
  ASSUME PageInv, Close
  PROVE  PageInv'
<1>0. TypeOK /\ SheetsSent /\ AnswersTrue /\ Balance
  BY DEF PageInv
<1>1. /\ page' = "closed" /\ shown' = FALSE /\ answers' = 0
      /\ terminated' = FALSE /\ restricted' = FALSE /\ submitting' = FALSE /\ warnings' = 0
      /\ timeUp' = FALSE /\ ticking' = FALSE /\ sees' = FALSE
      /\ UNCHANGED <<saved, pending, queue, token, cache, exam, attempt, status, accepted, reports,
                     audits, base, blocked, session, violations, faults>>
      /\ forgotten' = (forgotten \/ call["incident"].at # "idle")
  BY DEF Close, storageVars, serverVars
<1>2. call \in [Kinds -> Call]
  BY <1>0, CallType
<1>3. ASSUME NEW k \in Kinds
      PROVE  /\ call'[k] \in Call
             /\ \/ call'[k] = Idle
                \/ /\ call[k].at = "sent" /\ call'[k].at = "sent" /\ ~call'[k].mine
                   /\ call'[k].load = call[k].load /\ call'[k].count = call[k].count
  <2>1. call'[k] = IF call[k].at = "sent" THEN [call[k] EXCEPT !.mine = FALSE] ELSE Idle
    BY DEF Close
  <2>2. call[k] \in Call
    BY <1>2
  <2> QED BY <2>1, <2>2, IdleCall DEF Call
<1>4. call' \in [Kinds -> Call]
  <2>1. call' = [k \in Kinds |-> call'[k]]
    BY DEF Close
  <2> QED BY <1>3, <2>1
<1>5. TypeOK'
  <2>1. 0 \in Sheets /\ (call["incident"].at # "idle") \in BOOLEAN
    BY BoundAssumption DEF Sheets
  <2>2. Data'
    BY <1>0, <1>1, <2>1, Types DEF Data
  <2>3. Flags'
    BY <1>0, <1>1, Types DEF Flags
  <2> QED BY <1>4, <2>2, <2>3, TypesAfter
<1>6. SheetsSent'
  BY <1>0, <1>3, IdleCall, SheetsStay DEF Kinds
<1>7. AnswersTrue'
  <2>1. Accepted' = Accepted
    BY <1>1 DEF Accepted
  <2>2. \A k \in Kinds : call'[k].at = "idle" \/ (call'[k].at = "sent" /\ ~call'[k].mine)
    BY <1>3, IdleCall
  <2>3. \A k \in {"submit", "sync"} : call'[k].at # "back"
    BY <2>2 DEF Kinds
  <2> QED BY <1>0, <1>1, <2>1, <2>2, <2>3 DEF AnswersTrue
<1>8. Balance'
  <2>0. /\ Doubled \in Nat /\ Unreported \in {0, 1}
        /\ violations \in Nat /\ reports \in Nat /\ queue \in Nat
        /\ ~forgotten => violations + Doubled <= reports + queue + Unreported
        /\ base <= reports + audits
    BY <1>0, BalanceTypes DEF TypeOK, Balance
  <2>1. /\ call["flush"] \in Call /\ call["incident"] \in Call
        /\ \/ call'["flush"] = Idle
           \/ /\ call["flush"].at = "sent" /\ call'["flush"].at = "sent"
              /\ call'["flush"].load = call["flush"].load /\ call'["flush"].count = call["flush"].count
        /\ call'["incident"] = Idle \/ call["incident"].at = "sent"
    BY <1>2, <1>3 DEF Kinds
  <2>2. Doubled' \in Nat /\ Doubled' <= Doubled
    BY <1>0, <2>0, <2>1, IdleCall DEF Doubled, Balance, Call
  <2>3. call'["flush"].at # "idle" =>
             1 <= call'["flush"].count /\ call'["flush"].count <= call'["flush"].load
    BY <1>0, <2>1, IdleCall DEF Balance
  <2>4. ~forgotten' => /\ ~forgotten /\ call["incident"].at = "idle"
                       /\ call'["incident"] = Idle
    BY <1>1, <2>1
  <2>5. ~forgotten' => Unreported = 0 /\ Unreported' = 0
    BY <2>4, IdleCall DEF Unreported
  <2>6. ~forgotten' => violations' + Doubled' <= reports' + queue' + Unreported'
    BY <1>1, <2>0, <2>2, <2>4, <2>5, LessToReport
  <2>7. call'["incident"].mine \/ forgotten'
    BY <2>4, IdleCall
  <2> QED BY <1>1, <2>0, <2>3, <2>6, <2>7 DEF Balance
<1> QED BY <1>5, <1>6, <1>7, <1>8 DEF PageInv

\* Steps that send nothing and get no answer.
LEMMA LocalStep ==
  ASSUME PageInv, \/ StartExam \/ OptionSelect \/ TimeOut \/ PingBlocks
                  \/ ProctorEnds \/ Authorize \/ LoginElsewhere \/ EndsAt
  PROVE  PageInv'
<1>0. TypeOK /\ SheetsSent /\ AnswersTrue /\ Balance /\ Flags /\ Data
  BY Types DEF PageInv
<1>1. /\ UNCHANGED <<call, pending, queue, token, cache, attempt, accepted, reports, violations,
                     forgotten, shown, submitting, warnings>>
      /\ audits' \in {audits, audits + 1}
      /\ base' = base \/ (base' = reports + audits /\ audits' = audits)
      /\ status' \in {status, "none", "Terminated"}
      /\ page' = page \/ (page # "closed" /\ page' = "started")
  BY DEF StartExam, OptionSelect, TimeOut, PingBlocks, Block, ProctorEnds, Authorize,
         LoginElsewhere, EndsAt, pageVars, flagVars, storageVars, serverVars, ghostVars
<1>2. TypeOK'
  <2>1. Attempts \subseteq Sheets /\ 0 \in Sheets
    BY BoundAssumption DEF Attempts, Sheets
  <2>2. /\ answers' \in {answers, attempt} /\ saved' \in {saved, answers, attempt, None}
        /\ exam' \in {exam, "grace", "late"}
    BY DEF StartExam, OptionSelect, TimeOut, PingBlocks, ProctorEnds, Authorize,
         LoginElsewhere, EndsAt,   pageVars, storageVars, serverVars
  <2>3. session' \in {session, session + 1} /\ faults' \in {faults, faults + 1}
    BY DEF StartExam, OptionSelect, TimeOut, PingBlocks, Block, ProctorEnds, Authorize,
         LoginElsewhere, EndsAt,   serverVars
  <2>4. Data'
    <3>1. answers' \in Sheets /\ saved' \in Sheets \cup {None}
      BY <1>0, <2>1, <2>2 DEF Data
    <3>2. base' \in Nat /\ audits' \in Nat /\ session' \in Nat /\ faults' \in Nat
      BY <1>0, <1>1, <2>3 DEF Data
    <3> QED BY <1>0, <1>1, <2>2, <3>1, <3>2 DEF Data
  <2>5. /\ timeUp' \in {timeUp, TRUE} /\ terminated' \in {terminated, TRUE}
        /\ restricted' \in {restricted, TRUE} /\ blocked' \in {blocked, TRUE, FALSE}
        /\ ticking' \in {ticking, TRUE, FALSE}
    BY DEF StartExam, OptionSelect, TimeOut, PingBlocks, Block, ProctorEnds, Authorize,
         LoginElsewhere, EndsAt,   pageVars, flagVars, serverVars
  <2>6. sees' \in {sees, submitting}
    BY DEF StartExam, OptionSelect, TimeOut, PingBlocks, ProctorEnds, Authorize,
           LoginElsewhere, EndsAt, pageVars
  <2>7. Flags'
    <3>1. timeUp' \in BOOLEAN /\ terminated' \in BOOLEAN /\ restricted' \in BOOLEAN
      BY <1>0, <2>5 DEF Flags
    <3>2. blocked' \in BOOLEAN /\ ticking' \in BOOLEAN /\ sees' \in BOOLEAN
      BY <1>0, <2>5, <2>6 DEF Flags
    <3> QED BY <1>0, <1>1, <3>1, <3>2 DEF Flags
  <2> QED BY <1>0, <1>1, <2>4, <2>7, Types, TypesAfter
<1>3. SheetsSent'
  BY <1>0, <1>1 DEF SheetsSent
<1>4. AnswersTrue'
  <2>1. Accepted' = Accepted
    BY <1>1 DEF Accepted
  <2> QED BY <1>0, <1>1, <2>1 DEF AnswersTrue
<1>5. Balance'
  <2>0. base <= reports + audits /\ base \in Nat /\ reports \in Nat /\ audits \in Nat
    BY <1>0 DEF Balance, Data
  <2>1. base' <= reports' + audits'
    <3>1. CASE base' = base
      BY <1>1, <2>0, <3>1, BaseStays
    <3>2. CASE base' = reports + audits /\ audits' = audits
      BY <1>1, <2>0, <3>2
    <3> QED BY <1>1, <3>1, <3>2
  <2>2. Doubled' = Doubled /\ Unreported' = Unreported
    BY <1>1 DEF Doubled, Unreported
  <2> QED BY <1>0, <1>1, <2>1, <2>2 DEF Balance
<1> QED BY <1>2, <1>3, <1>4, <1>5 DEF PageInv

\* The worker completes an attempt in progress, with a blank sheet.
LEMMA ExpireStep ==
  ASSUME PageInv, Expire
  PROVE  PageInv'
<1>0. TypeOK /\ SheetsSent /\ AnswersTrue /\ Balance /\ Flags /\ Data
  BY Types DEF PageInv
<1>1. /\ UNCHANGED <<pageVars, call, storageVars, attempt, reports, audits, base, blocked, session,
                     ghostVars, faults>>
      /\ exam' = "closed"
      /\ \/ /\ status = "InProgress" /\ status' = "Completed"
            /\ accepted' = [accepted EXCEPT ![attempt] = 0]
         \/ UNCHANGED <<status, accepted>>
  BY DEF Expire
<1>2. 0 \in Sheets /\ 0 # None
  BY BoundAssumption DEF Sheets
<1>3. TypeOK'
  <2>1. accepted' \in [Attempts -> Sheets \cup {None}]
    BY <1>0, <1>1, <1>2 DEF Data
  <2>2. Data'
    BY <1>0, <1>1, <2>1 DEF Data, pageVars, flagVars, storageVars, ghostVars
  <2>3. Flags'
    BY <1>0, <1>1 DEF Flags, pageVars, flagVars, ghostVars
  <2> QED BY <1>0, <1>1, <2>2, <2>3, Types, TypesAfter
<1>4. SheetsSent'
  BY <1>0, <1>1 DEF SheetsSent
<1>5. AnswersTrue'
  <2>1. status = "InProgress" /\ status' # "InProgress" => Accepted'
    BY <1>0, <1>1, <1>2 DEF AnswersTrue, Accepted, Data
  <2>2. status' = "InProgress" => status = "InProgress"
    BY <1>1
  <2>3. status' = "Completed" => Accepted \/ (status = "InProgress" /\ status' # "InProgress")
    BY <1>0, <1>1 DEF AnswersTrue
  <2>4. UNCHANGED <<page, shown, call, attempt>>
    BY <1>1 DEF pageVars, flagVars
  <2>5. Accepted => Accepted'
    BY <1>0, <1>1, <1>2 DEF AnswersTrue, Accepted, Data
  <2>6. status' = "Completed" => Accepted'
    BY <2>1, <2>3, <2>5
  <2>7. status' = "InProgress" => attempt' \in Attempts
    BY <1>0, <2>2, <2>4 DEF AnswersTrue
  <2> QED BY <1>0, <2>4, <2>5, <2>6, <2>7 DEF AnswersTrue
<1>6. Balance'
  BY <1>0, <1>1, BalanceStays DEF storageVars, ghostVars
<1> QED BY <1>3, <1>4, <1>5, <1>6 DEF PageInv

-----------------------------------------------------------------------------
(* Handing in.                                                             *)

LEMMA HandInStep ==
  ASSUME PageInv, Submit \/ AutoSubmit \/ SyncPending
  PROVE  PageInv'
<1>0. TypeOK /\ SheetsSent /\ AnswersTrue /\ Balance
  BY DEF PageInv
<1>1. PICK k \in {"submit", "sync"}, load \in Sheets : Send(k, load, 0)
  BY <1>0 DEF Submit, AutoSubmit, SubmitExamData, SyncPending, PostResults, TypeOK
<1>2. /\ page # "closed" /\ submitting' = TRUE /\ ticking' \in {ticking, FALSE}
      /\ UNCHANGED <<page, answers, timeUp, sees, shown, terminated, restricted, warnings, saved,
                     pending, queue, token, exam, attempt, status, accepted, reports, audits, base,
                     blocked, session, violations, forgotten, faults>>
      /\ cache' = IF cache = None THEN None ELSE [cache EXCEPT !.results = FALSE]
  BY DEF Submit, AutoSubmit, SubmitExamData, SyncPending, PostResults, Running, serverVars, ghostVars
<1>3. /\ call' \in [Kinds -> Call]
      /\ \A j \in Kinds : j # k => call'[j] = call[j]
      /\ call'[k].at = "sent" /\ call'[k].load = load
  <2>1. k \in Kinds /\ load \in Nat
    BY BoundAssumption DEF Kinds, Sheets
  <2> QED BY <1>0, <1>1, <2>1, SendCall
<1>4. TypeOK'
  <2>1. cache' \in Cache \cup {None}
    BY <1>0, <1>2, Types DEF Data, Cache
  <2>2. Data'
    BY <1>0, <1>2, <2>1, Types DEF Data
  <2>3. Flags'
    BY <1>0, <1>2, Types DEF Flags
  <2> QED BY <1>3, <2>2, <2>3, TypesAfter
<1>5. SheetsSent'
  BY <1>0, <1>3, SheetsStay DEF Kinds
<1>6. AnswersTrue'
  BY <1>0, <1>2, <1>3, AnswersStay DEF Kinds
<1>7. Balance'
  BY <1>0, <1>2, <1>3, BalanceStays DEF Kinds
<1> QED BY <1>4, <1>5, <1>6, <1>7 DEF PageInv

\* The page shows a score when the server has accepted this attempt, by this call
\* or before it.
LEMMA HandedInStep ==
  ASSUME PageInv, ReturnSubmit \/ ReturnSync
  PROVE  PageInv'
<1>0. TypeOK /\ SheetsSent /\ AnswersTrue /\ Balance
  BY DEF PageInv
<1>1. PICK k \in {"submit", "sync"} :
        /\ call[k].at = "back" /\ Done(k)
        /\ shown' => shown \/ call[k].reply = "ok" \/ status = "Completed"
        /\ pending' \in {pending, call[k].load, None}
        /\ faults' \in {faults, faults + 1}
        /\ \E seen \in BOOLEAN : Seen(seen)
  BY DEF ReturnSubmit, ReturnSync, Seen, Found
<1>2. /\ submitting' = FALSE /\ saved' \in {saved, None} /\ shown' \in {shown, TRUE}
      /\ UNCHANGED <<page, answers, timeUp, ticking, sees, terminated, restricted, warnings, queue,
                     token, cache, exam, attempt, status, accepted, reports, audits, base, blocked,
                     session, violations, forgotten>>
  BY <1>0, <1>1, Types DEF Seen, Flags, serverVars, ghostVars
<1>3. /\ call' \in [Kinds -> Call]
      /\ \A j \in Kinds : j # k => call'[j] = call[j]
      /\ call'[k].at = "idle" /\ call'[k].load = 0
  BY <1>0, <1>1, DoneCall, IdleCall DEF Kinds
<1>4. TypeOK'
  <2>1. pending' \in Sheets \cup {None} /\ faults' \in Nat
    BY <1>0, <1>1, Types DEF Data, SheetsSent
  <2>2. Data'
    BY <1>0, <1>2, <2>1, Types DEF Data
  <2>3. Flags'
    BY <1>0, <1>2, Types DEF Flags
  <2> QED BY <1>3, <2>2, <2>3, TypesAfter
<1>5. SheetsSent'
  BY <1>0, <1>3, SheetsStay DEF Kinds
<1>6. AnswersTrue'
  <2>1. page # "closed"
    BY <1>0, <1>1 DEF AnswersTrue, Kinds
  <2>2. shown' => shown \/ Accepted
    BY <1>0, <1>1 DEF AnswersTrue
  <2> QED BY <1>0, <1>2, <1>3, <2>1, <2>2, AnswersStay DEF Kinds
<1>7. Balance'
  BY <1>0, <1>2, <1>3, BalanceStays DEF Kinds
<1> QED BY <1>4, <1>5, <1>6, <1>7 DEF PageInv

-----------------------------------------------------------------------------
(* Violations.                                                             *)

LEMMA FlushStep ==
  ASSUME PageInv, FlushQueue
  PROVE  PageInv'
<1>0. TypeOK /\ SheetsSent /\ AnswersTrue /\ Balance
  BY DEF PageInv
<1>1. /\ page = "started" /\ queue > 0 /\ queue \in Nat /\ call["flush"].at = "idle"
      /\ Send("flush", queue, queue)
      /\ UNCHANGED <<page, answers, timeUp, ticking, sees, shown, terminated, restricted, submitting,
                     warnings, saved, pending, queue, token, cache, exam, attempt, status, accepted,
                     reports, audits, base, blocked, session, violations, forgotten, faults>>
  BY <1>0 DEF FlushQueue, Running, TypeOK, pageVars, flagVars, storageVars, serverVars, ghostVars
<1>2. /\ call' \in [Kinds -> Call]
      /\ \A j \in Kinds : j # "flush" => call'[j] = call[j]
      /\ call'["flush"].at = "sent" /\ call'["flush"].load = queue /\ call'["flush"].count = queue
  BY <1>0, <1>1, SendCall DEF Kinds
<1>3. TypeOK'
  BY <1>0, <1>1, <1>2, Types, TypesAfter DEF Flags, Data
<1>4. SheetsSent'
  BY <1>0, <1>2, SheetsStay DEF Kinds
<1>5. AnswersTrue'
  BY <1>0, <1>1, <1>2, AnswersStay DEF Kinds
<1>6. Balance'
  <2>1. Doubled = 0
    BY <1>1 DEF Doubled
  <2>2. Doubled' = 0
    BY <1>1, <1>2 DEF Doubled
  <2>3. call'["incident"] = call["incident"] /\ Unreported' = Unreported
    BY <1>2 DEF Kinds, Unreported
  <2>4. 1 <= call'["flush"].count /\ call'["flush"].count <= call'["flush"].load
    BY <1>1, <1>2
  <2> QED BY <1>0, <1>1, <2>1, <2>2, <2>3, <2>4 DEF Balance
<1> QED BY <1>3, <1>4, <1>5, <1>6 DEF PageInv

LEMMA ViolationStep ==
  ASSUME PageInv, Violation
  PROVE  PageInv'
<1>0. TypeOK /\ SheetsSent /\ AnswersTrue /\ Balance
  BY DEF PageInv
<1>1. /\ page = "started"
      /\ UNCHANGED <<page, answers, timeUp, sees, shown, submitting, pending, queue, token, cache,
                     forgotten>>
      /\ ForceTermination \/ NoTermination
      /\ \/ UNCHANGED <<warnings, call, violations>>
         \/ /\ call["incident"].at = "idle" /\ warnings' = warnings + 1
            /\ Send("incident", 0, warnings + 1) /\ violations' = violations + 1
  BY DEF Violation, Running
<1>2. /\ UNCHANGED <<exam, attempt, accepted, reports, audits, base>>
      /\ status' \in {status, "Terminated"}
      /\ terminated' \in BOOLEAN /\ restricted' \in BOOLEAN /\ ticking' \in BOOLEAN
      /\ saved' \in Sheets \cup {None}
      /\ blocked' \in BOOLEAN /\ session' \in Nat /\ faults' \in Nat
  BY <1>0, <1>1, TerminationStays
<1>3. Flags'
  BY <1>0, <1>1, <1>2, Types DEF Flags
<1>4. CASE UNCHANGED <<warnings, call, violations>>
  <2>1. Data'
    BY <1>0, <1>1, <1>2, <1>4, Types DEF Data
  <2>2. TypeOK'
    BY <1>0, <1>3, <1>4, <2>1, Types, TypesAfter
  <2>3. SheetsSent'
    BY <1>0, <1>4 DEF SheetsSent
  <2>4. AnswersTrue'
    BY <1>0, <1>1, <1>2, <1>4, AnswersStay
  <2>5. Balance'
    BY <1>0, <1>1, <1>2, <1>4, BalanceStays
  <2> QED BY <2>2, <2>3, <2>4, <2>5 DEF PageInv
<1>5. CASE /\ call["incident"].at = "idle" /\ warnings' = warnings + 1
           /\ Send("incident", 0, warnings + 1) /\ violations' = violations + 1
  <2>0. /\ Doubled \in Nat /\ Unreported \in {0, 1} /\ warnings \in Nat
        /\ violations \in Nat /\ reports \in Nat /\ queue \in Nat
    BY <1>0, BalanceTypes DEF TypeOK
  <2>1. /\ call' \in [Kinds -> Call]
        /\ \A j \in Kinds : j # "incident" => call'[j] = call[j]
        /\ call'["incident"].at = "sent" /\ call'["incident"].mine = TRUE
    <3>1. "incident" \in Kinds /\ 0 \in Nat /\ warnings + 1 \in Nat
      BY <2>0 DEF Kinds
    <3> QED BY <1>0, <1>5, <3>1, SendCall
  <2>2. Data'
    BY <1>0, <1>1, <1>2, <1>5, <2>0, Types DEF Data
  <2>3. TypeOK'
    BY <1>3, <2>1, <2>2, TypesAfter
  <2>4. SheetsSent'
    BY <1>0, <2>1, SheetsStay DEF Kinds
  <2>5. AnswersTrue'
    BY <1>0, <1>1, <1>2, <2>1, AnswersStay DEF Kinds
  <2>6. Balance'
    <3>1. call'["flush"] = call["flush"] /\ Doubled' = Doubled
      BY <2>1 DEF Kinds, Doubled
    <3>2. Unreported = 0 /\ Unreported' = 1
      BY <1>5, <2>1 DEF Unreported
    <3>3. ~forgotten => violations + 1 + Doubled <= reports + queue + 1
      BY <1>0, <2>0, <3>2 DEF Balance
    <3> QED BY <1>0, <1>1, <1>2, <1>5, <2>1, <3>1, <3>2, <3>3 DEF Balance
  <2> QED BY <2>3, <2>4, <2>5, <2>6 DEF PageInv
<1> QED BY <1>1, <1>4, <1>5

LEMMA ReportedStep ==
  ASSUME PageInv, ReturnIncident
  PROVE  PageInv'
<1> DEFINE c == call["incident"]
<1>0. TypeOK /\ SheetsSent /\ AnswersTrue /\ Balance
  BY DEF PageInv
<1>1. /\ c.at = "back" /\ Done("incident") /\ queue' = Queued(c.reply)
      /\ warnings' \in {warnings, Count}
      /\ ForceTermination \/ NoTermination
      /\ UNCHANGED <<page, answers, timeUp, sees, shown, submitting, pending, token, cache,
                     violations, forgotten>>
  BY DEF ReturnIncident, Synced, ghostVars
<1>2. /\ UNCHANGED <<exam, attempt, accepted, reports, audits, base>>
      /\ status' \in {status, "Terminated"}
      /\ terminated' \in BOOLEAN /\ restricted' \in BOOLEAN /\ ticking' \in BOOLEAN
      /\ saved' \in Sheets \cup {None}
      /\ blocked' \in BOOLEAN /\ session' \in Nat /\ faults' \in Nat
  BY <1>0, <1>1, TerminationStays
<1>3. /\ call' \in [Kinds -> Call]
      /\ \A j \in Kinds : j # "incident" => call'[j] = call[j]
      /\ call'["incident"].at = "idle" /\ call'["incident"].mine = TRUE
  BY <1>0, <1>1, DoneCall, IdleCall DEF Kinds
<1>4. /\ Doubled \in Nat /\ Unreported \in {0, 1} /\ warnings \in Nat
      /\ violations \in Nat /\ reports \in Nat /\ queue \in Nat /\ Count \in Nat
  BY <1>0, BalanceTypes DEF TypeOK, Balance, Count
<1>5. queue' \in Nat /\ queue' = queue + Unreported
  <2>1. CASE c.reply \in {"lost", "denied"}
    BY <1>1, <1>4, <2>1 DEF Queued, Unreported
  <2>2. CASE c.reply \notin {"lost", "denied"}
    BY <1>1, <1>4, <2>2 DEF Queued, Unreported
  <2> QED BY <2>1, <2>2
<1>6. TypeOK'
  <2>1. Flags'
    BY <1>0, <1>1, <1>2, Types DEF Flags
  <2>2. Data'
    BY <1>0, <1>1, <1>2, <1>4, <1>5, Types DEF Data
  <2> QED BY <1>3, <2>1, <2>2, TypesAfter
<1>7. SheetsSent'
  BY <1>0, <1>3, SheetsStay DEF Kinds
<1>8. AnswersTrue'
  BY <1>0, <1>1, <1>2, <1>3, AnswersStay DEF Kinds
<1>9. Balance'
  <2>1. call'["flush"] = call["flush"] /\ Doubled' = Doubled
    BY <1>3 DEF Kinds, Doubled
  <2>2. Unreported' = 0
    BY <1>3 DEF Unreported
  <2>3. ~forgotten => violations + Doubled <= reports + queue' + 0
    BY <1>0, <1>4, <1>5 DEF Balance
  <2> QED BY <1>0, <1>1, <1>2, <1>3, <2>1, <2>2, <2>3 DEF Balance
<1> QED BY <1>6, <1>7, <1>8, <1>9 DEF PageInv

LEMMA FlushedAll ==
  ASSUME NEW v \in Nat, NEW d \in Nat, NEW r \in Nat, NEW q \in Nat, NEW u \in {0, 1},
         v + d <= r + q + u, d = q
  PROVE  v + 0 <= r + 0 + u
OBVIOUS

\* When the last report of a flush has arrived, as many of the reports are doubled
\* as the flush has sent; so the queue may go if nothing was added to it.
LEMMA FlushedStep ==
  ASSUME PageInv, ReturnFlush
  PROVE  PageInv'
<1> DEFINE c    == call["flush"]
           good == c.reply \in {"ok", "terminate"}
           last == c.count = 1
<1>0. TypeOK /\ SheetsSent /\ AnswersTrue /\ Balance
  BY DEF PageInv
<1>1. /\ c.at = "back"
      /\ IF good /\ ~last
         THEN call' = [call EXCEPT !["flush"] = [c EXCEPT !.at = "sent", !.reply = "none", !.count = c.count - 1]]
         ELSE Done("flush")
      /\ queue' = IF good /\ last THEN 0 ELSE queue
      /\ forgotten' = (forgotten \/ (good /\ last /\ queue # c.load))
      /\ warnings' \in {warnings, Count}
      /\ ForceTermination \/ NoTermination
      /\ UNCHANGED <<page, answers, timeUp, sees, shown, submitting, pending, token, cache, violations>>
  BY DEF ReturnFlush, Synced
<1>2. /\ UNCHANGED <<exam, attempt, accepted, reports, audits, base>>
      /\ status' \in {status, "Terminated"}
      /\ terminated' \in BOOLEAN /\ restricted' \in BOOLEAN /\ ticking' \in BOOLEAN
      /\ saved' \in Sheets \cup {None}
      /\ blocked' \in BOOLEAN /\ session' \in Nat /\ faults' \in Nat
  BY <1>0, <1>1, TerminationStays
<1>3. /\ Doubled \in Nat /\ Unreported \in {0, 1} /\ warnings \in Nat /\ c \in Call
      /\ violations \in Nat /\ reports \in Nat /\ queue \in Nat /\ Count \in Nat
      /\ c.load \in Nat /\ c.count \in Nat /\ 1 <= c.count /\ c.count <= c.load
  <2>1. c \in Call /\ Doubled \in Nat /\ Unreported \in {0, 1}
    BY <1>0, BalanceTypes
  <2>2. 1 <= c.count /\ c.count <= c.load
    BY <1>0, <1>1 DEF Balance
  <2>3. c.load \in Nat /\ c.count \in Nat
    BY <2>1 DEF Call
  <2> QED BY <1>0, <2>1, <2>2, <2>3 DEF TypeOK, Balance, Count
<1>4. /\ call' \in [Kinds -> Call]
      /\ \A j \in Kinds : j # "flush" => call'[j] = call[j]
      /\ call'["flush"].at \in {"idle", "sent"}
      /\ good /\ ~last => /\ call'["flush"].at = "sent" /\ call'["flush"].load = c.load
                          /\ call'["flush"].count = c.count - 1
      /\ ~(good /\ ~last) => call'["flush"].at = "idle"
  <2>1. CASE good /\ ~last
    <3>1. PICK new : new = [c EXCEPT !.at = "sent", !.reply = "none", !.count = c.count - 1]
      OBVIOUS
    <3>2. c.count - 1 \in Nat
      BY <1>3
    <3>3. new \in Call /\ new.at = "sent" /\ new.load = c.load /\ new.count = c.count - 1
      BY <1>3, <3>1, <3>2 DEF Call, Replies
    <3>4. call' = [call EXCEPT !["flush"] = new]
      BY <1>1, <2>1, <3>1
    <3>5. call \in [Kinds -> Call] /\ "flush" \in Kinds
      BY <1>0, CallType DEF Kinds
    <3> HIDE DEF c
    <3> QED BY <2>1, <3>3, <3>4, <3>5
  <2>2. CASE ~(good /\ ~last)
    <3>1. Done("flush") /\ "flush" \in Kinds
      BY <1>1, <2>2 DEF Kinds
    <3> QED BY <1>0, <2>2, <3>1, DoneCall, IdleCall
  <2> QED BY <2>1, <2>2
<1>5. TypeOK'
  <2>1. queue' \in Nat
    BY <1>1, <1>3
  <2>2. (forgotten \/ (good /\ last /\ queue # c.load)) \in BOOLEAN
    OBVIOUS
  <2>3. forgotten' \in BOOLEAN
    BY <1>1, <2>2
  <2>4. Flags'
    BY <1>0, <1>1, <1>2, <2>3, Types DEF Flags
  <2>5. warnings' \in Nat
    BY <1>1, <1>3
  <2>6. Data'
    BY <1>0, <1>1, <1>2, <2>1, <2>5, Types DEF Data
  <2> QED BY <1>4, <2>4, <2>6, TypesAfter
<1>6. SheetsSent'
  BY <1>0, <1>4, SheetsStay DEF Kinds
<1>7. AnswersTrue'
  <2>1. page # "closed"
    BY <1>0, <1>1 DEF AnswersTrue, Kinds
  <2> QED BY <1>0, <1>1, <1>2, <1>4, <2>1, AnswersStay DEF Kinds
<1>8. Balance'
  <2>1. call'["incident"] = call["incident"] /\ Unreported' = Unreported
    BY <1>4 DEF Kinds, Unreported
  <2>2. ~forgotten' => ~forgotten /\ ~(good /\ last /\ queue # c.load)
    BY <1>1
  <2>3. ~forgotten => violations + Doubled <= reports + queue + Unreported
    BY <1>0 DEF Balance
  <2>4. call'["incident"].mine \/ forgotten'
    BY <1>0, <1>1, <2>1 DEF Balance
  <2>5. base' <= reports' + audits'
    BY <1>0, <1>2 DEF Balance
  <2>6. call'["flush"].at # "idle" => /\ 1 <= call'["flush"].count
                                      /\ call'["flush"].count <= call'["flush"].load
    BY <1>3, <1>4
  <2>7. Doubled = IF good THEN c.load - c.count + 1 ELSE c.load - c.count
    BY <1>1 DEF Doubled
  <2>8. CASE good /\ ~last
    <3>1. queue' = queue /\ call'["flush"].at = "sent"
      BY <1>1, <1>4, <2>8
    <3>2. Doubled' = call'["flush"].load - call'["flush"].count
      BY <3>1 DEF Doubled
    <3>3. Doubled' = Doubled
      BY <1>3, <1>4, <2>7, <2>8, <3>2
    <3>4. ~forgotten' => violations' + Doubled' <= reports' + queue' + Unreported'
      BY <1>1, <1>2, <2>1, <2>2, <2>3, <3>1, <3>3
    <3> QED BY <2>4, <2>5, <2>6, <3>4 DEF Balance
  <2>9. CASE ~(good /\ ~last)
    <3>1. Doubled' = 0
      BY <1>4, <2>9 DEF Doubled
    <3>2. CASE good /\ last
      <4>1. queue' = 0 /\ Doubled = c.load
        BY <1>1, <1>3, <2>7, <3>2
      <4>2. ~forgotten' => Doubled = queue
        BY <2>2, <3>2, <4>1
      <4>3. ~forgotten' => violations + 0 <= reports + 0 + Unreported
        BY <1>3, <2>2, <2>3, <4>2, FlushedAll
      <4>4. ~forgotten' => violations' + Doubled' <= reports' + queue' + Unreported'
        BY <1>1, <1>2, <2>1, <3>1, <4>1, <4>3
      <4> QED BY <2>4, <2>5, <2>6, <4>4 DEF Balance
    <3>3. CASE ~good
      <4>1. queue' = queue
        BY <1>1, <3>3
      <4>2. 0 \in Nat /\ 0 <= Doubled
        BY <1>3
      <4>3. ~forgotten' => violations + 0 <= reports + queue + Unreported
        BY <1>3, <2>2, <2>3, <4>2, LessToReport
      <4>4. ~forgotten' => violations' + Doubled' <= reports' + queue' + Unreported'
        BY <1>1, <1>2, <2>1, <3>1, <4>1, <4>3
      <4> QED BY <2>4, <2>5, <2>6, <4>4 DEF Balance
    <3> QED BY <2>9, <3>2, <3>3
  <2> QED BY <2>8, <2>9
<1> QED BY <1>5, <1>6, <1>7, <1>8 DEF PageInv

-----------------------------------------------------------------------------
(* The theorems.                                                           *)

LEMMA InitPage == Init => PageInv
<1> SUFFICES ASSUME Init
             PROVE  PageInv
  OBVIOUS
<1>0. 0 \in Sheets
  BY BoundAssumption DEF Sheets
<1>1. call = [k \in Kinds |-> Idle] /\ call \in [Kinds -> Call] /\ \A k \in Kinds : call[k] = Idle
  BY IdleCall DEF Init
<1>2. TypeOK
  <2>1. Flags
    BY DEF Init, Flags
  <2>2. Data
    BY <1>0 DEF Init, Data
  <2> QED BY <1>1, <2>1, <2>2, Types
<1>3. SheetsSent
  BY <1>0, <1>1, IdleCall DEF SheetsSent, Kinds
<1>4. AnswersTrue
  BY <1>1, IdleCall DEF Init, AnswersTrue, Kinds
<1>5. Balance
  <2>1. Doubled = 0 /\ Unreported = 0
    BY <1>1, IdleCall DEF Doubled, Unreported, Kinds
  <2>2. call["flush"].at = "idle" /\ call["incident"].mine = TRUE
    BY <1>1, IdleCall DEF Kinds
  <2>3. base = 0 /\ reports = 0 /\ audits = 0 /\ queue = 0 /\ violations = 0
    BY DEF Init
  <2> QED BY <2>1, <2>2, <2>3 DEF Balance
<1> QED BY <1>2, <1>3, <1>4, <1>5 DEF PageInv

LEMMA PageStep == PageInv /\ [Next]_vars => PageInv'
<1> SUFFICES ASSUME PageInv, [Next]_vars
             PROVE  PageInv'
  OBVIOUS
<1>1. CASE UNCHANGED vars
  BY <1>1 DEF vars, pageVars, flagVars, storageVars, serverVars, ghostVars, PageInv, TypeOK,
              SheetsSent, AnswersTrue, Accepted, Balance, Doubled, Unreported
<1>2. CASE \E k \in Kinds : Serve(k) \/ Lose(k)
  BY <1>2, ServeStep, LoseStep
<1>3. CASE FetchExam \/ FetchCached \/ Close \/ Expire
  BY <1>3, OpenStep, CloseStep, ExpireStep
<1>4. CASE \/ Authorize \/ ProctorEnds \/ LoginElsewhere \/ EndsAt
            \/ StartExam \/ OptionSelect \/ TimeOut \/ PingBlocks
  BY <1>4, LocalStep
<1>5. CASE Submit \/ AutoSubmit \/ SyncPending \/ ReturnSubmit \/ ReturnSync
  BY <1>5, HandInStep, HandedInStep
<1>6. CASE Violation \/ FlushQueue \/ ReturnIncident \/ ReturnFlush
  BY <1>6, ViolationStep, FlushStep, ReportedStep, FlushedStep
<1> QED BY <1>1, <1>2, <1>3, <1>4, <1>5, <1>6 DEF Next, Return

\* The invariant the proofs about the page rest on; its types come with it.
THEOREM PageInvariant == Spec => []PageInv
<1> QED BY InitPage, PageStep, PTL DEF Spec

\* However many submissions are in flight, lost or answered late, and whichever
\* page asks, a score is shown for an attempt the server has accepted.
THEOREM PageShownIsAccepted == Spec => []ShownIsAccepted
<1>1. PageInv => ShownIsAccepted
  BY DEF PageInv, AnswersTrue, Accepted, ShownIsAccepted
<1> QED BY <1>1, PageInvariant, PTL

\* Whatever calls are lost, and however flushes and reports overlap, a violation
\* is stored, under way, or queued, unless one of the two known ways forgot it.
THEOREM PageIncidentsAccounted == Spec => []IncidentsAccounted
<1>1. PageInv => IncidentsAccounted
  <2> SUFFICES ASSUME PageInv, ~forgotten
               PROVE  violations <= reports + queue + Unreported
    BY DEF IncidentsAccounted
  <2>1. /\ Doubled \in Nat /\ Unreported \in {0, 1}
        /\ violations \in Nat /\ reports \in Nat /\ queue \in Nat
        /\ violations + Doubled <= reports + queue + Unreported
    BY BalanceTypes DEF PageInv, TypeOK, Balance
  <2> QED BY <2>1
<1> QED BY <1>1, PageInvariant, PTL

-----------------------------------------------------------------------------
(* The account.                                                            *)

\* A token is at most as new as the account, and two are never the same.
TokensInOrder ==
    \A t, u \in DOMAIN tokens : /\ tokens[t] <= account.version
                                /\ tokens[t] = tokens[u] => t = u

\* Whoever is blocked or logged out has no token of the present version.
NoTokenLeft ==
    account.blocked \/ ~account.loggedIn =>
        \A t \in DOMAIN tokens : tokens[t] # account.version

\* A copy is never ahead of the account, and one with its version is up to date
\* but for a block that was lifted.  A login has loaded who is not blocked.
CopiesUpToDate ==
    \A r \in Requests : at[r] = "loaded" =>
        /\ doc[r].version <= account.version
        /\ doc[r].version = account.version => /\ doc[r].loggedIn = account.loggedIn
                                               /\ account.blocked => doc[r].blocked
        /\ op[r] \in {"login", "force"} => ~doc[r].blocked

\* What the middleware let in and has not loaded yet is no login.
ValidatedIsGuarded == \A r \in Requests : at[r] = "validated" => op[r] \in Guarded

IInv == /\ AccountOK /\ ValidatedIsGuarded
        /\ (~overlapped => TokensInOrder /\ NoTokenLeft /\ CopiesUpToDate)

-----------------------------------------------------------------------------
(* What a save does to the account.                                        *)

LEMMA AccountWith ==
  ASSUME NEW d \in Account, NEW l \in BOOLEAN, NEW b \in BOOLEAN, NEW v \in Nat
  PROVE  [d EXCEPT !.loggedIn = l, !.blocked = b, !.version = v] \in Account
BY DEF Account

LEMMA ChangedType ==
  ASSUME NEW o \in Ops, NEW d \in Account
  PROVE  Changed(o, d) \in Account
<1>1. d.loggedIn \in BOOLEAN /\ d.blocked \in BOOLEAN /\ d.version \in Nat /\ d.version + 1 \in Nat
  BY DEF Account
<1>2. LoggedIn(d) \in Account
  BY <1>1 DEF LoggedIn, Account
<1>3. LoggedOut(d) \in Account
  BY <1>1 DEF LoggedOut, Account
<1>4. NewPassword(d) \in Account
  BY <1>1 DEF NewPassword, Account
<1>5. Unblocked(d) \in Account
  BY <1>1 DEF Unblocked, Account
<1>6. Punished(d) \in Account
  BY <1>1 DEF Punished, Account
<1>7. Toggled(d) \in Account
  <2>1. CASE d.blocked
    <3>1. Toggled(d) = [d EXCEPT !.blocked = FALSE]
      BY <1>1, <2>1 DEF Toggled, Account
    <3> QED BY <1>1, <3>1 DEF Account
  <2>2. CASE ~d.blocked
    <3>1. Toggled(d) = [d EXCEPT !.blocked = TRUE, !.version = d.version + 1]
      BY <1>1, <2>2 DEF Toggled, Account
    <3> QED BY <1>1, <3>1 DEF Account
  <2> QED BY <2>1, <2>2
<1> QED BY <1>2, <1>3, <1>4, <1>5, <1>6, <1>7 DEF Changed

LEMMA StoredType ==
  ASSUME AccountOK, NEW old \in Account, NEW new \in Account
  PROVE  /\ Stored(old, new) \in Account
         /\ Stored(old, new).blocked = IF new.blocked = old.blocked THEN account.blocked ELSE new.blocked
         /\ Stored(old, new).loggedIn = IF new.loggedIn = old.loggedIn THEN account.loggedIn
                                                                       ELSE new.loggedIn
         /\ Stored(old, new).version = IF new.version = old.version THEN account.version ELSE new.version
<1>1. account \in Account
  BY DEF AccountOK
<1>2. DOMAIN account = {"loggedIn", "blocked", "version"}
  BY <1>1 DEF Account
<1> QED BY <1>1, <1>2 DEF Stored, Account

\* A save of an up to date copy: the version never falls, it rises with every
\* change of the session and with every block, and a login makes it new.
LEMMA SavedAccount ==
  ASSUME AccountOK, NEW r \in Requests,
         doc[r].version = account.version,
         doc[r].loggedIn = account.loggedIn,
         account.blocked => doc[r].blocked,
         op[r] \in {"login", "force"} => ~doc[r].blocked,
         ~Refrains(op[r], doc[r]),
         account' = Stored(doc[r], Changed(op[r], doc[r]))
  PROVE  \/ /\ account'.version = account.version + 1
            /\ op[r] \in {"login", "force"} => /\ account'.loggedIn /\ ~account'.blocked
                                               /\ Changed(op[r], doc[r]).version = account.version + 1
         \/ /\ account'.version = account.version
            /\ account'.loggedIn = account.loggedIn
            /\ account'.blocked => account.blocked
            /\ op[r] \notin {"login", "force"}
<1> DEFINE o == op[r]  d == doc[r]  new == Changed(o, d)
<1>1. o \in Ops /\ d \in Account /\ account \in Account
  BY DEF AccountOK
<1>2. new \in Account
  BY <1>1, ChangedType
<1>3. /\ account'.blocked = IF new.blocked = d.blocked THEN account.blocked ELSE new.blocked
      /\ account'.loggedIn = IF new.loggedIn = d.loggedIn THEN account.loggedIn ELSE new.loggedIn
      /\ account'.version = IF new.version = d.version THEN account.version ELSE new.version
  BY <1>1, <1>2, StoredType
<1>4. CASE o \in {"login", "force"}
  <2>1. new = LoggedIn(d)
    BY <1>4 DEF Changed
  <2> QED BY <1>1, <1>3, <1>4, <2>1 DEF LoggedIn, Account
<1>5. CASE o \in {"toggle", "unblock"}
  <2>1. new = IF o = "toggle" THEN Toggled(d) ELSE Unblocked(d)
    BY <1>5 DEF Changed
  <2> QED BY <1>1, <1>3, <1>5, <2>1 DEF Toggled, Unblocked, Account
<1>6. CASE o \in Guarded
  <2>1. new \in {LoggedOut(d), NewPassword(d), Punished(d)}
    BY <1>6 DEF Changed, Guarded
  <2> QED BY <1>1, <1>3, <1>6, <2>1 DEF LoggedOut, NewPassword, Punished, Guarded, Account
<1> QED BY <1>1, <1>4, <1>5, <1>6 DEF Ops

-----------------------------------------------------------------------------
(* Types.                                                                  *)

LEMMA TypeInit == AccountInit => AccountOK
<1>1. Registered \in Account /\ "login" \in Ops
  BY DEF Registered, Account, Ops
<1>2. SUFFICES ASSUME AccountInit PROVE AccountOK
  OBVIOUS
<1>3. <<>> \in Seq(Nat) /\ 0 \in Nat
  OBVIOUS
<1> QED BY <1>1, <1>2, <1>3 DEF AccountInit, AccountOK

LEMMA TypeStep == AccountOK /\ [AccountNext]_accountVars => AccountOK'
<1> SUFFICES ASSUME AccountOK, [AccountNext]_accountVars PROVE AccountOK'
  OBVIOUS
<1>1. ASSUME NEW r \in Requests, NEW o \in Ops, NEW w \in {"validated", "loaded"},
             Start(r, o, w), UNCHANGED <<account, tokens, overlapped>>
      PROVE  AccountOK'
  BY <1>1 DEF AccountOK, Start
<1>2. ASSUME NEW r \in Requests, NEW o \in {"login", "force"}, Login(r, o)
      PROVE  AccountOK'
  BY <1>1, <1>2 DEF Login, Ops
<1>3. ASSUME NEW r \in Requests, NEW o \in {"toggle", "unblock"}, AdminLoad(r, o)
      PROVE  AccountOK'
  BY <1>1, <1>3 DEF AdminLoad, Ops
<1>4. ASSUME NEW r \in Requests, NEW o \in Guarded, NEW t \in DOMAIN tokens, Authenticate(r, o, t)
      PROVE  AccountOK'
  BY <1>1, <1>4 DEF Authenticate, Ops
<1>5. ASSUME NEW r \in Requests, Load(r)
      PROVE  AccountOK'
  BY <1>5 DEF AccountOK, Load
<1>6. ASSUME NEW r \in Requests, Save(r)
      PROVE  AccountOK'
  <2> DEFINE new == Changed(op[r], doc[r])
  <2>1. new \in Account
    BY ChangedType DEF AccountOK
  <2>2. Stored(doc[r], new) \in Account
    BY <2>1, StoredType DEF AccountOK
  <2>3. new.version \in Nat
    BY <2>1 DEF Account
  <2>4. account' \in Account /\ tokens' \in Seq(Nat) /\ overlapped' \in BOOLEAN
    <3> HIDE DEF new
    <3>1. Append(tokens, new.version) \in Seq(Nat)
      BY <2>3 DEF AccountOK
    <3> QED BY <1>6, <2>2, <3>1 DEF AccountOK, Save, new
  <2> QED BY <1>6, <2>4 DEF AccountOK, Save, Registered, Account, Ops
<1>7. ASSUME NEW block \in BOOLEAN, BulkBlock(block)
      PROVE  AccountOK'
  <2>1. account' \in Account
    <3>1. CASE block
      <4>1. account \in Account /\ account.version + 1 \in Nat
        BY DEF AccountOK, Account
      <4>2. account' = [account EXCEPT !.blocked = TRUE, !.version = account.version + 1]
        BY <1>7, <3>1, <4>1 DEF BulkBlock, Account
      <4> QED BY <4>1, <4>2 DEF Account
    <3>2. CASE ~block
      BY <1>7, <3>2 DEF AccountOK, BulkBlock, Account
    <3> QED BY <3>1, <3>2
  <2> QED BY <1>7, <2>1 DEF AccountOK, BulkBlock, reqVars
<1>8. CASE UNCHANGED accountVars
  BY <1>8 DEF AccountOK, accountVars, reqVars
<1> QED BY <1>2, <1>3, <1>4, <1>5, <1>6, <1>7, <1>8 DEF AccountNext

-----------------------------------------------------------------------------
(* The invariant.                                                          *)

LEMMA IInvInit == AccountInit => IInv
<1> SUFFICES ASSUME AccountInit PROVE IInv
  OBVIOUS
<1>1. AccountOK
  BY TypeInit
<1>2. DOMAIN tokens = {}
  BY DEF AccountInit
<1>3. TokensInOrder /\ NoTokenLeft
  BY <1>2 DEF TokensInOrder, NoTokenLeft
<1>4. CopiesUpToDate /\ ValidatedIsGuarded
  BY DEF AccountInit, CopiesUpToDate, ValidatedIsGuarded
<1> QED BY <1>1, <1>3, <1>4 DEF IInv

\* A request that loads the document has an up to date copy.
LEMMA LoadKeeps ==
  ASSUME AccountOK, TokensInOrder, NoTokenLeft, CopiesUpToDate,
         UNCHANGED <<account, tokens>>,
         NEW r \in Requests,
         \A q \in Requests : q # r => /\ at'[q] = at[q] /\ op'[q] = op[q] /\ doc'[q] = doc[q],
         at'[r] = "loaded" => /\ doc'[r] = account
                              /\ op'[r] \in {"login", "force"} => ~account.blocked
  PROVE  TokensInOrder' /\ NoTokenLeft' /\ CopiesUpToDate'
<1>1. account.version \in Nat
  BY DEF AccountOK, Account
<1> QED BY <1>1 DEF TokensInOrder, NoTokenLeft, CopiesUpToDate

\* A save of an up to date copy, or a block in bulk.
LEMMA SaveKeeps ==
  ASSUME AccountOK, AccountOK', TokensInOrder, NoTokenLeft, CopiesUpToDate,
         \/ account'.version = account.version + 1
         \/ /\ account'.version = account.version
            /\ account'.loggedIn = account.loggedIn
            /\ account'.blocked => account.blocked,
         \A q \in Requests : at'[q] = "loaded" =>
             at[q] = "loaded" /\ op'[q] = op[q] /\ doc'[q] = doc[q],
         \/ tokens' = tokens
         \/ /\ account'.version = account.version + 1
            /\ account'.loggedIn /\ ~account'.blocked
            /\ tokens' = Append(tokens, account'.version)
  PROVE  TokensInOrder' /\ NoTokenLeft' /\ CopiesUpToDate'
<1>1. /\ account.version \in Nat /\ account'.version \in Nat /\ tokens \in Seq(Nat)
      /\ \A r \in Requests : doc[r].version \in Nat
  BY DEF AccountOK, Account
<1>2. CopiesUpToDate'
  BY <1>1 DEF CopiesUpToDate
<1>3. CASE tokens' = tokens
  <2>1. \A t \in DOMAIN tokens : tokens[t] \in Nat
    BY <1>1
  <2> QED BY <1>1, <1>2, <1>3, <2>1 DEF TokensInOrder, NoTokenLeft
<1>4. CASE /\ account'.version = account.version + 1
           /\ account'.loggedIn /\ ~account'.blocked
           /\ tokens' = Append(tokens, account'.version)
  <2>1. DOMAIN tokens' = 1 .. Len(tokens) + 1 /\ DOMAIN tokens = 1 .. Len(tokens)
    BY <1>1, <1>4
  <2>2. \A t \in DOMAIN tokens : /\ tokens'[t] = tokens[t] /\ tokens[t] \in Nat
                                 /\ tokens[t] <= account.version
    BY <1>1, <1>4 DEF TokensInOrder
  <2>3. tokens'[Len(tokens) + 1] = account'.version
    BY <1>1, <1>4
  <2>4. Len(tokens) \in Nat
    BY <1>1
  <2>5. \A t \in DOMAIN tokens' : t \in DOMAIN tokens \/ t = Len(tokens) + 1
    BY <2>1, <2>4
  <2>6. TokensInOrder'
    BY <1>1, <1>4, <2>2, <2>3, <2>5 DEF TokensInOrder
  <2>7. NoTokenLeft'
    BY <1>4 DEF NoTokenLeft
  <2> QED BY <1>2, <2>6, <2>7
<1> QED BY <1>3, <1>4

LEMMA GuardedStep == AccountOK /\ ValidatedIsGuarded /\ [AccountNext]_accountVars => ValidatedIsGuarded'
<1> SUFFICES ASSUME AccountOK, ValidatedIsGuarded, [AccountNext]_accountVars PROVE ValidatedIsGuarded'
  OBVIOUS
<1>1. ASSUME NEW r \in Requests, NEW o, NEW w, Start(r, o, w), w = "validated" => o \in Guarded
      PROVE  ValidatedIsGuarded'
  BY <1>1 DEF AccountOK, ValidatedIsGuarded, Start
<1>2. ASSUME NEW r \in Requests, AccountNext, \/ \E o \in {"login", "force"} : Login(r, o)
                                              \/ \E o \in {"toggle", "unblock"} : AdminLoad(r, o)
                                              \/ \E o \in Guarded, t \in DOMAIN tokens : Authenticate(r, o, t)
      PROVE  ValidatedIsGuarded'
  BY <1>1, <1>2 DEF Login, AdminLoad, Authenticate
<1>3. ASSUME NEW r \in Requests, Load(r) \/ Save(r)
      PROVE  ValidatedIsGuarded'
  BY <1>3 DEF AccountOK, ValidatedIsGuarded, Load, Save
<1>4. CASE (\E block \in BOOLEAN : BulkBlock(block)) \/ UNCHANGED accountVars
  BY <1>4 DEF ValidatedIsGuarded, BulkBlock, accountVars, reqVars
<1> QED BY <1>2, <1>3, <1>4 DEF AccountNext

LEMMA IInvStep == IInv /\ [AccountNext]_accountVars => IInv'
<1> SUFFICES ASSUME IInv, [AccountNext]_accountVars PROVE IInv'
  OBVIOUS
<1>0. AccountOK /\ AccountOK' /\ ValidatedIsGuarded'
  BY TypeStep, GuardedStep DEF IInv
<1> SUFFICES ASSUME ~overlapped' PROVE TokensInOrder' /\ NoTokenLeft' /\ CopiesUpToDate'
  BY <1>0 DEF IInv
<1>1. ASSUME NEW r \in Requests, NEW o \in Ops, NEW w \in {"validated", "loaded"},
             Start(r, o, w), UNCHANGED <<account, tokens, overlapped>>,
             o \in {"login", "force"} => ~account.blocked
      PROVE  TokensInOrder' /\ NoTokenLeft' /\ CopiesUpToDate'
  <2>1. ~overlapped
    BY <1>1
  <2>2. \A q \in Requests : q # r => /\ at'[q] = at[q] /\ op'[q] = op[q] /\ doc'[q] = doc[q]
    BY <1>0, <1>1 DEF Start, AccountOK
  <2>3. doc'[r] = account /\ op'[r] = o
    BY <1>0, <1>1 DEF Start, AccountOK
  <2> QED BY <1>0, <1>1, <2>1, <2>2, <2>3, LoadKeeps DEF IInv
<1>2. ASSUME NEW r \in Requests, NEW o \in {"login", "force"}, Login(r, o)
      PROVE  TokensInOrder' /\ NoTokenLeft' /\ CopiesUpToDate'
  BY <1>1, <1>2 DEF Login, Ops
<1>3. ASSUME NEW r \in Requests, NEW o \in {"toggle", "unblock"}, AdminLoad(r, o)
      PROVE  TokensInOrder' /\ NoTokenLeft' /\ CopiesUpToDate'
  BY <1>1, <1>3 DEF AdminLoad, Ops
<1>4. ASSUME NEW r \in Requests, NEW o \in Guarded, NEW t \in DOMAIN tokens, Authenticate(r, o, t)
      PROVE  TokensInOrder' /\ NoTokenLeft' /\ CopiesUpToDate'
  BY <1>1, <1>4 DEF Authenticate, Ops, Guarded
<1>5. ASSUME NEW r \in Requests, Load(r)
      PROVE  TokensInOrder' /\ NoTokenLeft' /\ CopiesUpToDate'
  <2>1. op'[r] \notin {"login", "force"} /\ ~overlapped /\ UNCHANGED <<account, tokens>>
    BY <1>5 DEF Load, IInv, ValidatedIsGuarded, Guarded
  <2>2. \A q \in Requests : q # r => /\ at'[q] = at[q] /\ op'[q] = op[q] /\ doc'[q] = doc[q]
    BY <1>0, <1>5 DEF Load, AccountOK
  <2>3. doc'[r] = account
    BY <1>0, <1>5 DEF Load, AccountOK
  <2> QED BY <1>0, <2>1, <2>2, <2>3, LoadKeeps DEF IInv
<1>6. ASSUME NEW r \in Requests, Save(r)
      PROVE  TokensInOrder' /\ NoTokenLeft' /\ CopiesUpToDate'
  <2>1. ~overlapped
    BY <1>6 DEF Save
  <2>2. \A q \in Requests : at'[q] = "loaded" =>
            at[q] = "loaded" /\ op'[q] = op[q] /\ doc'[q] = doc[q]
    BY <1>0, <1>6 DEF Save, AccountOK
  <2>3. CASE Refrains(op[r], doc[r])
    BY <1>0, <1>6, <2>1, <2>2, <2>3, SaveKeeps DEF Save, IInv
  <2>4. CASE ~Refrains(op[r], doc[r])
    <3>1. /\ doc[r].version = account.version
          /\ account' = Stored(doc[r], Changed(op[r], doc[r]))
          /\ tokens' = IF op[r] \in {"login", "force"}
                       THEN Append(tokens, Changed(op[r], doc[r]).version) ELSE tokens
      BY <1>6, <2>4 DEF Save
    <3>2. /\ doc[r].loggedIn = account.loggedIn
          /\ account.blocked => doc[r].blocked
          /\ op[r] \in {"login", "force"} => ~doc[r].blocked
      BY <1>6, <2>1, <3>1 DEF IInv, CopiesUpToDate, Save
    <3>3. \/ /\ account'.version = account.version + 1
             /\ op[r] \in {"login", "force"} => /\ account'.loggedIn /\ ~account'.blocked
                                                /\ Changed(op[r], doc[r]).version = account.version + 1
          \/ /\ account'.version = account.version
             /\ account'.loggedIn = account.loggedIn
             /\ account'.blocked => account.blocked
             /\ op[r] \notin {"login", "force"}
      BY <1>0, <2>4, <3>1, <3>2, SavedAccount
    <3> QED BY <1>0, <2>1, <2>2, <3>1, <3>3, SaveKeeps DEF IInv
  <2> QED BY <2>3, <2>4
<1>7. ASSUME NEW block \in BOOLEAN, BulkBlock(block)
      PROVE  TokensInOrder' /\ NoTokenLeft' /\ CopiesUpToDate'
  <2>1. \/ account'.version = account.version + 1
        \/ /\ account'.version = account.version
           /\ account'.loggedIn = account.loggedIn
           /\ account'.blocked => account.blocked
    BY <1>0, <1>7 DEF BulkBlock, AccountOK, Account
  <2>2. ~overlapped /\ tokens' = tokens /\ UNCHANGED reqVars
    BY <1>7 DEF BulkBlock
  <2> QED BY <1>0, <2>1, <2>2, SaveKeeps DEF IInv, reqVars
<1>8. CASE UNCHANGED accountVars
  BY <1>8 DEF IInv, TokensInOrder, NoTokenLeft, CopiesUpToDate, accountVars, reqVars
<1> QED BY <1>2, <1>3, <1>4, <1>5, <1>6, <1>7, <1>8 DEF AccountNext

THEOREM AccountInvariant == AccountSpec => []IInv
<1> QED BY IInvInit, IInvStep, PTL DEF AccountSpec

-----------------------------------------------------------------------------
(* What follows from it.                                                   *)

\* Every variable keeps its type: a session version is never negative, and no
\* token is issued without one.
THEOREM AccountTypeOK == AccountSpec => []AccountOK
<1>1. IInv => AccountOK
  BY DEF IInv
<1> QED BY <1>1, AccountInvariant, PTL

\* While no save goes over another one, at most one of the tokens is valid: the
\* login that replaced another session has ended it.
THEOREM AccountSoleSession == AccountSpec => []SoleSession
<1>1. IInv => SoleSession
  BY DEF IInv, SoleSession, TokensInOrder, Valid
<1> QED BY <1>1, AccountInvariant, PTL

\* Of one step that does not go over another save: the version never falls, and
\* neither the tokens nor the sequence they are kept in change.
LEMMA VersionRises ==
  ASSUME IInv, [AccountNext]_accountVars, ~overlapped'
  PROVE  account'.version >= account.version /\ \A t \in DOMAIN tokens : tokens'[t] = tokens[t]
<1>0. AccountOK /\ account.version \in Nat /\ tokens \in Seq(Nat)
  BY DEF IInv, AccountOK, Account
<1>1. CASE UNCHANGED <<account, tokens>>
  BY <1>0, <1>1
<1>2. ASSUME NEW r \in Requests, Save(r), ~ UNCHANGED <<account, tokens>>
      PROVE  account'.version >= account.version /\ \A t \in DOMAIN tokens : tokens'[t] = tokens[t]
  <2> DEFINE new == Changed(op[r], doc[r])
  <2>1. /\ doc[r].version = account.version /\ ~overlapped
        /\ ~Refrains(op[r], doc[r])
        /\ account' = Stored(doc[r], new)
        /\ tokens' = IF op[r] \in {"login", "force"} THEN Append(tokens, new.version) ELSE tokens
    BY <1>2 DEF Save
  <2>2. /\ doc[r].loggedIn = account.loggedIn
        /\ account.blocked => doc[r].blocked
        /\ op[r] \in {"login", "force"} => ~doc[r].blocked
    BY <1>2, <2>1 DEF IInv, CopiesUpToDate, Save
  <2>3. account'.version \in {account.version, account.version + 1}
    BY <1>0, <2>1, <2>2, SavedAccount
  <2>4. new \in Account
    BY <1>0, ChangedType DEF AccountOK
  <2>5. new.version \in Nat
    BY <2>4 DEF Account
  <2>6. \A t \in DOMAIN tokens : tokens'[t] = tokens[t]
    <3> HIDE DEF new
    <3> QED BY <1>0, <2>1, <2>5
  <2> QED BY <1>0, <2>3, <2>6
<1>3. ASSUME NEW block \in BOOLEAN, BulkBlock(block)
      PROVE  account'.version >= account.version /\ \A t \in DOMAIN tokens : tokens'[t] = tokens[t]
  BY <1>0, <1>3 DEF BulkBlock, AccountOK, Account
<1>4. CASE ~ \E r \in Requests : Save(r)
  BY <1>1, <1>3, <1>4 DEF AccountNext, Login, AdminLoad, Authenticate, Load, accountVars
<1> QED BY <1>1, <1>2, <1>4

\* A token that is no longer valid stays so, as long as no save goes over another
\* one: its version has been left behind for good.
THEOREM AccountReplacedStays == AccountSpec => ReplacedStays
<1>1. ASSUME IInv, IInv', [AccountNext]_accountVars, ~overlapped', NEW t \in DOMAIN tokens, ~Valid(t)
      PROVE  ~Valid(t)'
  <2>0. account.version \in Nat /\ account'.version \in Nat /\ tokens[t] \in Nat
    BY <1>1 DEF IInv, AccountOK, Account
  <2>1. ~overlapped
    BY <1>1 DEF AccountNext, Login, AdminLoad, Authenticate, Load, Save, BulkBlock, accountVars
  <2>2. tokens[t] < account.version
    BY <1>1, <2>0, <2>1 DEF IInv, TokensInOrder, NoTokenLeft, Valid
  <2>3. account'.version >= account.version /\ tokens'[t] = tokens[t]
    BY <1>1, VersionRises
  <2> QED BY <2>0, <2>2, <2>3 DEF Valid
<1>2. IInv /\ IInv' /\ [AccountNext]_accountVars
      => [~overlapped' => \A t \in DOMAIN tokens : ~Valid(t) => ~Valid(t)']_accountVars
  BY <1>1
<1> QED BY <1>2, AccountInvariant, PTL DEF AccountSpec, ReplacedStays

\* A block is lifted by an admin only: no other request that was in progress when
\* it was set writes it away, whatever it overlaps.
THEOREM AccountBlockStays == AccountSpec => BlockStays
<1> DEFINE Admin == \/ \E r \in Requests : /\ at[r] = "loaded" /\ at'[r] = "idle"
                                           /\ op[r] \in {"toggle", "unblock"}
                    \/ reqVars' = reqVars
<1>1. ASSUME AccountOK, [AccountNext]_accountVars, account.blocked, ~account'.blocked
      PROVE  Admin
  <2>1. ASSUME NEW r \in Requests, Save(r)
        PROVE  Admin
    <3> DEFINE o == op[r]  d == doc[r]  new == Changed(o, d)
    <3>1. account' = Stored(d, new)
      BY <1>1, <2>1 DEF Save
    <3>2. o \in Ops /\ d \in Account /\ new \in Account
      BY <1>1, ChangedType DEF AccountOK
    <3>3. ~new.blocked /\ new.blocked # d.blocked
      <4>1. account'.blocked = IF new.blocked = d.blocked THEN account.blocked ELSE new.blocked
        <5> HIDE DEF new
        <5> QED BY <1>1, <3>1, <3>2, StoredType
      <4>2. new.blocked = d.blocked => account'.blocked = account.blocked
        BY <4>1
      <4>3. new.blocked # d.blocked => account'.blocked = new.blocked
        BY <4>1
      <4> QED BY <1>1, <4>2, <4>3
    <3>4. o \in {"toggle", "unblock"}
      <4>1. CASE o \in {"login", "force"}
        BY <3>2, <3>3, <4>1 DEF Changed, LoggedIn, Account
      <4>2. CASE o \in Guarded
        BY <3>2, <3>3, <4>2 DEF Changed, Guarded, LoggedOut, NewPassword, Punished, Account
      <4> QED BY <3>2, <4>1, <4>2 DEF Ops
    <3>5. at[r] = "loaded" /\ at'[r] = "idle"
      BY <1>1, <2>1 DEF Save, AccountOK
    <3> QED BY <3>4, <3>5
  <2>2. ASSUME NEW block \in BOOLEAN, BulkBlock(block)
        PROVE  Admin
    BY <2>2 DEF BulkBlock
  <2>3. CASE UNCHANGED account
    BY <1>1, <2>3
  <2> QED BY <1>1, <2>1, <2>2, <2>3 DEF AccountNext, Login, AdminLoad, Authenticate, Load, accountVars
<1>2. AccountOK /\ [AccountNext]_accountVars =>
        [account.blocked /\ ~account'.blocked
         => \/ \E r \in Requests : at[r] = "loaded" /\ at'[r] = "idle" /\ op[r] \in {"toggle", "unblock"}
            \/ reqVars' = reqVars]_accountVars
  BY <1>1
<1> QED BY <1>2, AccountTypeOK, PTL DEF AccountSpec, BlockStays
=============================================================================
