---------------------- MODULE ProctoringSessionProofs ----------------------
(***************************************************************************)
(* Proofs about ProctoringSession, for any number of sockets, events,      *)
(* sessions, messages and faults.                                          *)
(*                                                                         *)
(* One claim of a generation is larger than all the earlier ones of its    *)
(* session, and a socket claims once in its life; so the counter equals    *)
(* the generation of at most one socket (ClaimsDiffer).  An alert and its  *)
(* mark come together (AlertsMarked).  A session that has ended is matched *)
(* by no filter of an update that sets its status (EndedStep).             *)
(* Of a session that is in one bulk write at a time, what is stored, what  *)
(* the bulk write holds and what is buffered are ever newer (InOrder), so  *)
(* none of the three overwrites a newer message (OrderStep); and a socket  *)
(* sends events only after its join has answered (SentAfterAdoption), so   *)
(* an incident is always with the session it is counted in (CountedStep).  *)
(***************************************************************************)
EXTENDS ProctoringSession, FiniteSetTheorems, TLAPS

\* Where a socket is in its only join.
JoinsOnce ==
    \A s \in Sockets :
        /\ join[s] \in {"adopt", "claim"} => found[s] \in Ids
        /\ join[s] = "claim" => current[s] \in {0, found[s]}
        /\ mine[s] # 0 => join[s] \in {"joined", "failed"}

\* An event to be counted comes from a socket.
EventsHaveSocket == \A e \in Events : event[e].at = "count" => event[e].socket \in Sockets

\* A generation is not larger than the counter, and no two are the same.
ClaimsDiffer ==
    ~expired =>
        /\ \A s \in Sockets : mine[s] # 0 /\ current[s] # 0 => mine[s] <= generation[current[s]]
        /\ \A s, t \in Sockets :
              mine[s] # 0 /\ current[s] # 0 /\ current[s] = current[t] /\ mine[s] = mine[t] => s = t

\* The alerts of this process and their marks.
AlertsMarked ==
    crashes = 0 => \A x \in Ids : /\ x \in marked => alerts[x] = 1
                                  /\ x \notin marked => alerts[x] = 0

Inv == TypeOK /\ JoinsOnce /\ EventsHaveSocket /\ ClaimsDiffer /\ AlertsMarked

-----------------------------------------------------------------------------
(* Types.                                                                  *)

LEMMA IdsArePositive == Ids \subseteq Nat /\ 0 \notin Ids
BY BoundAssumption DEF Ids

LEMMA ScoredType ==
  ASSUME NEW n \in 0..100
  PROVE  Scored(n) \in 0..100
BY BoundAssumption DEF Scored

LEMMA SessionWith ==
  ASSUME NEW d \in Session
  PROVE  /\ \A status \in {"ACTIVE", "ENDED", "DISCONNECTED"} : [d EXCEPT !.status = status] \in Session
         /\ \A n \in Nat : [d EXCEPT !.seen = n] \in Session
         /\ Opened(d) \in Session
         /\ CountedOnce(d) \in Session /\ CountedOnce(d).status = d.status
         /\ Disconnected(d) \in Session
         /\ d.status = "ENDED" => Disconnected(d) = d
<1>1. d.incidentCount + 1 \in Nat
  BY DEF Session
<1>2. CountedOnce(d) = [d EXCEPT !.incidentCount = d.incidentCount + 1]
  BY DEF CountedOnce
<1>3. [d EXCEPT !.status = "DISCONNECTED"] \in Session
  BY DEF Session
<1>4. Disconnected(d) \in Session
  BY <1>3 DEF Disconnected
<1>5. CountedOnce(d) \in Session /\ CountedOnce(d).status = d.status
  BY <1>1, <1>2 DEF Session
<1> QED BY <1>4, <1>5 DEF Session, Opened, Disconnected

LEMMA InitInv == Init => Inv
<1> SUFFICES ASSUME Init
             PROVE  Inv
  OBVIOUS
<1>1. TypeOK
  <2>1. NoSession \in Session
    BY DEF NoSession, Session, Nothing
  <2>2. NoEvent \in [at : {"unsent", "count", "store", "done"}, socket : Sockets \cup {"none"},
                     session : {0} \cup Ids, score : 0..100]
    BY DEF NoEvent
  <2>3. /\ session \in [Ids -> Session]
        /\ event \in [Events -> [at : {"unsent", "count", "store", "done"},
                                 socket : Sockets \cup {"none"}, session : {0} \cup Ids,
                                 score : 0..100]]
    BY <2>1, <2>2 DEF Init
  <2>4. /\ incidents \in [Ids -> Nat] /\ generation \in [Ids -> Nat] /\ score \in [Ids -> 0..100]
        /\ alerts \in [Ids -> Nat] /\ missed \in [Ids -> Nat] /\ overtaken \subseteq Ids
        /\ buffer \in [Ids -> Nat] /\ flush \in [Flushes -> [Ids -> Nat]]
    BY DEF Init, Empty, Nothing
  <2>5. /\ join \in [Sockets -> {"idle", "insert", "retry", "adopt", "claim", "joined", "failed"}]
        /\ found \in [Sockets -> {0} \cup Ids] /\ current \in [Sockets -> {0} \cup Ids]
        /\ room \in [Sockets -> {0} \cup Ids] /\ dropping \in [Sockets -> {0} \cup Ids]
        /\ mine \in [Sockets -> Nat]
        /\ connected \in [Sockets -> BOOLEAN] /\ checked \in [Sockets -> BOOLEAN]
    BY DEF Init
  <2>6. /\ expired = FALSE /\ marked = {} /\ ending = 0
        /\ messages = 0 /\ faults = 0 /\ crashes = 0
    BY DEF Init
  <2> QED BY <2>3, <2>4, <2>5, <2>6 DEF TypeOK
<1>2. JoinsOnce /\ EventsHaveSocket /\ ClaimsDiffer /\ AlertsMarked
  BY DEF Init, JoinsOnce, EventsHaveSocket, ClaimsDiffer, AlertsMarked, NoEvent
<1> QED BY <1>1, <1>2 DEF Inv

\* A join changes its own document only, and stores no other status than ACTIVE.
LEMMA JoinTypes ==
  ASSUME TypeOK, JoinsOnce, NEW s \in Sockets, Find(s) \/ Insert(s) \/ Adopt(s) \/ Claim(s)
  PROVE  TypeOK'
<1>0. Ids \subseteq Nat /\ 0 \notin Ids
  BY IdsArePositive
<1>j. /\ join \in [Sockets -> {"idle", "insert", "retry", "adopt", "claim", "joined", "failed"}]
      /\ found \in [Sockets -> {0} \cup Ids] /\ connected \in [Sockets -> BOOLEAN]
      /\ generation \in [Ids -> Nat] /\ mine \in [Sockets -> Nat]
  BY DEF TypeOK
<1>1. \A x \in Ids : Opened(session[x]) \in Session
  BY SessionWith DEF TypeOK
<1>2. CASE Find(s)
  <2>1. session' \in [Ids -> Session]
    BY <1>1, <1>2 DEF Find, TypeOK, Open
  <2>2. \E l \in {"insert", "retry", "adopt", "failed"}, x \in {0} \cup Ids : Answer(s, l, x)
    BY <1>2 DEF Find, Open
  <2>3. /\ join' \in [Sockets -> {"idle", "insert", "retry", "adopt", "claim", "joined", "failed"}]
        /\ found' \in [Sockets -> {0} \cup Ids]
        /\ connected' \in [Sockets -> BOOLEAN]
        /\ UNCHANGED <<current, mine, room, checked, dropping>>
    BY <1>j, <2>2 DEF Answer
  <2> QED BY <1>2, <2>1, <2>3
          DEF Find, TypeOK, redisVars, alertVars, bufferVars, boundVars
<1>3. CASE Insert(s)
  <2>1. session' \in [Ids -> Session]
    BY <1>1, <1>3 DEF Insert, TypeOK, Absent
  <2>2. /\ join' \in [Sockets -> {"idle", "insert", "retry", "adopt", "claim", "joined", "failed"}]
        /\ found' \in [Sockets -> {0} \cup Ids]
        /\ connected' \in [Sockets -> BOOLEAN]
        /\ UNCHANGED <<current, mine, room, checked, dropping>>
    <3>1. \E l \in {"retry", "adopt"}, x \in {0} \cup Ids : Answer(s, l, x)
      BY <1>3 DEF Insert, Absent
    <3> QED BY <1>j, <3>1 DEF Answer
  <2> QED BY <1>3, <2>1, <2>2
          DEF Insert, TypeOK, redisVars, alertVars, bufferVars, boundVars
<1>4. CASE Adopt(s)
  BY <1>4 DEF Adopt, TypeOK, redisVars, alertVars, bufferVars, boundVars
<1>5. CASE Claim(s)
  <2>1. found[s] \in Ids
    BY <1>5 DEF Claim, JoinsOnce
  <2>2. generation[found[s]] \in Nat /\ NextGeneration(found[s]) \in Nat
    BY <2>1 DEF NextGeneration, TypeOK
  <2>3. generation' \in [Ids -> Nat] /\ mine' \in [Sockets -> Nat]
    BY <1>j, <1>5, <2>1, <2>2 DEF Claim
  <2>4. faults' \in Nat /\ UNCHANGED messages
    BY <1>5 DEF Claim, TypeOK
  <2> QED BY <1>5, <2>1, <2>3, <2>4 DEF Claim, TypeOK, alertVars, bufferVars
<1> QED BY <1>2, <1>3, <1>4, <1>5

\* A bulk write changes the time of sessions that have not ended, and nothing else.
LEMMA WrittenType ==
  ASSUME TypeOK, NEW f \in Flushes, NEW X
  PROVE  /\ Written(f, X) \in [Ids -> Session]
         /\ \A y \in Ids : /\ Written(f, X)[y].status = session[y].status
                          /\ Written(f, X)[y].incidentCount = session[y].incidentCount
                          /\ \/ Written(f, X)[y].seen = session[y].seen
                             \/ /\ flush[f][y] # Nothing /\ Written(f, X)[y].seen = flush[f][y]
                                /\ session[y].status \notin Terminal
                          /\ \/ y \notin X \/ flush[f][y] = Nothing \/ session[y].status \in Terminal
                             \/ Written(f, X)[y].seen = flush[f][y]
<1>1. \A y \in Ids : session[y] \in Session /\ flush[f][y] \in Nat
  BY DEF TypeOK
<1> QED BY <1>1 DEF Written, Session

LEMMA MessageTypes ==
  ASSUME TypeOK, [Next]_vars,
         \/ \E s \in Sockets : CheckPush(s) \/ WritePush(s)
         \/ Flush
         \/ \E x \in Ids : ExpireGeneration(x) \/ EndSession(x)
  PROVE  TypeOK'
<1>1. ASSUME NEW s \in Sockets, CheckPush(s)
      PROVE  TypeOK'
  BY <1>1 DEF CheckPush, TypeOK, redisVars, alertVars, bufferVars, boundVars
<1>2. ASSUME NEW s \in Sockets, WritePush(s)
      PROVE  TypeOK'
  BY <1>2 DEF WritePush, TypeOK, redisVars, alertVars
<1>3. ASSUME NEW f \in Flushes, TakeBuffer(f)
      PROVE  TypeOK'
  <2>1. /\ buffer' \in [Ids -> Nat] /\ flush' \in [Flushes -> [Ids -> Nat]]
        /\ overtaken' \subseteq Ids
    BY <1>3 DEF TakeBuffer, TypeOK, Empty, Nothing
  <2> QED BY <1>3, <2>1 DEF TakeBuffer, TypeOK, redisVars, alertVars, socketVars
<1>4. ASSUME NEW f \in Flushes, BulkWrite(f)
      PROVE  TypeOK'
  <2>1. session' \in [Ids -> Session]
    BY <1>4, WrittenType DEF BulkWrite
  <2>2. flush' \in [Flushes -> [Ids -> Nat]]
    BY <1>4 DEF BulkWrite, TypeOK, Empty, Nothing
  <2> QED BY <1>4, <2>1, <2>2 DEF BulkWrite, TypeOK, redisVars, alertVars, socketVars, boundVars
<1>5. ASSUME NEW f \in Flushes, BulkWriteFails(f)
      PROVE  TypeOK'
  <2>1. session' \in [Ids -> Session]
    BY <1>5, WrittenType DEF BulkWriteFails
  <2>2. flush' \in [Flushes -> [Ids -> Nat]] /\ buffer' \in [Ids -> Nat]
    BY <1>5 DEF BulkWriteFails, ReEnqueued, TypeOK, Empty, Nothing
  <2>3. faults' \in Nat
    BY <1>5 DEF BulkWriteFails, TypeOK
  <2> QED BY <1>5, <2>1, <2>2, <2>3 DEF BulkWriteFails, TypeOK, redisVars, alertVars, socketVars
<1>6. ASSUME NEW x \in Ids, ExpireGeneration(x)
      PROVE  TypeOK'
  BY <1>6 DEF ExpireGeneration, TypeOK, alertVars, bufferVars, socketVars
<1>7. ASSUME NEW x \in Ids, EndSession(x)
      PROVE  TypeOK'
  BY <1>7 DEF EndSession, TypeOK, redisVars, alertVars, bufferVars, socketVars, boundVars
<1> QED BY <1>1, <1>2, <1>3, <1>4, <1>5, <1>6, <1>7 DEF Flush

\* A handler that goes on, or is done, keeps the fields of its event.
LEMMA EventGoesOn ==
  ASSUME NEW x \in [at : {"unsent", "count", "store", "done"},
                    socket : Sockets \cup {"none"}, session : {0} \cup Ids, score : 0..100],
         NEW s \in Sockets
  PROVE  /\ [x EXCEPT !.at = "count", !.socket = s]
                 \in [at : {"unsent", "count", "store", "done"},
                      socket : Sockets \cup {"none"}, session : {0} \cup Ids, score : 0..100]
         /\ [x EXCEPT !.at = "done"]
                 \in [at : {"unsent", "count", "store", "done"},
                      socket : Sockets \cup {"none"}, session : {0} \cup Ids, score : 0..100]
  OBVIOUS

LEMMA EventTypes ==
  ASSUME TypeOK, EventsHaveSocket, NEW e \in Events,
         (\E s \in Sockets : SendEvent(e, s)) \/ CountIncident(e) \/ CountFails(e) \/ StoreScore(e)
  PROVE  TypeOK' /\ EventsHaveSocket'
<1> DEFINE Event == [at : {"unsent", "count", "store", "done"},
                     socket : Sockets \cup {"none"}, session : {0} \cup Ids, score : 0..100]
<1>0. Ids \subseteq Nat /\ 0 \notin Ids /\ event \in [Events -> Event]
  BY IdsArePositive DEF TypeOK
<1>1. ASSUME NEW s \in Sockets, SendEvent(e, s)
      PROVE  TypeOK' /\ EventsHaveSocket'
  <2>1. current[s] \in Ids
    BY <1>1 DEF SendEvent, IsCurrentGeneration, TypeOK
  <2>2. incidents' \in [Ids -> Nat]
    <3>1. incidents[current[s]] + 1 \in Nat
      BY <2>1 DEF TypeOK
    <3>2. \/ incidents' = [incidents EXCEPT ![current[s]] = incidents[current[s]] + 1]
          \/ incidents' = incidents
      BY <1>1 DEF SendEvent
    <3> QED BY <3>1, <3>2 DEF TypeOK
  <2>3. \/ event' = [event EXCEPT ![e] = [@ EXCEPT !.at = "count", !.socket = s]]
        \/ event' = [event EXCEPT ![e] = [@ EXCEPT !.at = "done"]]
    BY <1>1 DEF SendEvent
  <2>4. /\ [event[e] EXCEPT !.at = "count", !.socket = s] \in Event
        /\ [event[e] EXCEPT !.at = "done"] \in Event
    <3>1. event[e] \in Event
      BY <1>0
    <3> QED BY <3>1, EventGoesOn
  <2>5. event' \in [Events -> Event]
    BY <1>0, <2>3, <2>4
  <2>6. TypeOK'
    <3>1. messages' \in Nat
      <4>1. messages \in Nat
        BY DEF TypeOK
      <4>2. messages' = messages + 1
        BY <1>1 DEF SendEvent
      <4> QED BY <4>1, <4>2
    <3>2. /\ UNCHANGED <<session, generation, expired, score, marked, alerts, buffer, flush>>
          /\ UNCHANGED <<join, found, current, mine, connected, room, checked, dropping>>
          /\ UNCHANGED <<ending, faults, crashes, missed, overtaken>>
      BY <1>1 DEF SendEvent, redisVars, alertVars, bufferVars, socketVars
    <3> QED BY <2>2, <2>5, <3>1, <3>2 DEF TypeOK
  <2>7. EventsHaveSocket'
    BY <1>0, <2>3 DEF EventsHaveSocket
  <2> QED BY <2>6, <2>7
<1>2. CASE CountIncident(e)
  <2> DEFINE x == current[event[e].socket]
             counted == [at |-> "store", socket |-> "none", session |-> x,
                         score |-> Scored(score[x])]
             dropped == [NoEvent EXCEPT !.at = "done"]
  <2>1. x \in {0} \cup Ids
    BY <1>2 DEF CountIncident, EventsHaveSocket, TypeOK
  <2>2. dropped \in Event /\ dropped.at = "done"
    BY DEF NoEvent
  <2>3. CASE x = 0
    <3>1. /\ event' = [event EXCEPT ![e] = dropped]
          /\ UNCHANGED <<session, alertVars>>
      BY <1>2, <2>3 DEF CountIncident
    <3>2. event' \in [Events -> Event]
      BY <1>0, <2>2, <3>1
    <3>3. EventsHaveSocket'
      BY <1>0, <2>2, <3>1 DEF EventsHaveSocket
    <3> QED BY <1>2, <3>1, <3>2, <3>3
            DEF CountIncident, TypeOK, redisVars, alertVars, bufferVars, socketVars, boundVars
  <2>4. CASE x # 0
    <3>1. /\ session' = [session EXCEPT ![x] = CountedOnce(@)]
          /\ event' = [event EXCEPT ![e] = counted]
          /\ Alert(x, Scored(score[x]))
      BY <1>2, <2>4 DEF CountIncident
    <3>2. Scored(score[x]) \in 0..100
      BY <2>1, <2>4, ScoredType DEF TypeOK
    <3>3. counted \in Event /\ counted.at = "store"
      BY <2>1, <3>2
    <3>4. event' \in [Events -> Event] /\ EventsHaveSocket'
      BY <1>0, <3>1, <3>3 DEF EventsHaveSocket
    <3>5. CountedOnce(session[x]) \in Session
      BY <2>1, <2>4, SessionWith DEF TypeOK
    <3>6. session' \in [Ids -> Session]
      BY <2>1, <2>4, <3>1, <3>5 DEF TypeOK
    <3>7. marked' \subseteq Ids /\ alerts' \in [Ids -> Nat]
      BY <2>1, <2>4, <3>1 DEF Alert, alertVars, TypeOK
    <3> QED BY <1>2, <3>4, <3>6, <3>7
            DEF CountIncident, TypeOK, redisVars, bufferVars, socketVars, boundVars
  <2> QED BY <2>3, <2>4
<1>4. CASE CountFails(e)
  <2> DEFINE x == current[event[e].socket]
             dropped == [NoEvent EXCEPT !.at = "done"]
  <2>1. x \in Ids
    BY <1>4 DEF CountFails, EventsHaveSocket, TypeOK
  <2>2. dropped \in Event /\ dropped.at = "done"
    BY DEF NoEvent
  <2>3. event' = [event EXCEPT ![e] = dropped]
    BY <1>4 DEF CountFails
  <2>4. event' \in [Events -> Event] /\ EventsHaveSocket'
    BY <1>0, <2>2, <2>3 DEF EventsHaveSocket
  <2>5. CountedOnce(session[x]) \in Session /\ missed[x] + 1 \in Nat
    <3>1. session[x] \in Session /\ missed[x] \in Nat
      BY <2>1 DEF TypeOK
    <3>2. CountedOnce(session[x]) \in Session
      BY <3>1, SessionWith
    <3> QED BY <3>1, <3>2
  <2>6. session' \in [Ids -> Session] /\ missed' \in [Ids -> Nat]
    <3>1. \/ session' = [session EXCEPT ![x] = CountedOnce(session[x])] /\ missed' = missed
          \/ missed' = [missed EXCEPT ![x] = missed[x] + 1] /\ session' = session
      BY <1>4 DEF CountFails
    <3> QED BY <2>1, <2>5, <3>1 DEF TypeOK
  <2>7. faults' \in Nat
    BY <1>4 DEF CountFails, TypeOK
  <2> QED BY <1>4, <2>4, <2>6, <2>7
          DEF CountFails, TypeOK, redisVars, alertVars, bufferVars, socketVars
<1>3. CASE StoreScore(e)
  <2> DEFINE dropped == [NoEvent EXCEPT !.at = "done"]
  <2>1. dropped \in Event /\ dropped.at = "done"
    BY DEF NoEvent
  <2>2. event' = [event EXCEPT ![e] = dropped]
    BY <1>3 DEF StoreScore
  <2>3. event' \in [Events -> Event] /\ EventsHaveSocket'
    BY <1>0, <2>1, <2>2 DEF EventsHaveSocket
  <2>4. score' \in [Ids -> 0..100]
    BY <1>0, <1>3 DEF StoreScore, TypeOK
  <2> QED BY <1>3, <2>3, <2>4
          DEF StoreScore, TypeOK, alertVars, bufferVars, socketVars, boundVars
<1> QED BY <1>1, <1>2, <1>3, <1>4

LEMMA LeaveTypes ==
  ASSUME TypeOK, NEW s \in Sockets, Leave(s) \/ Disconnect(s) \/ DisconnectWrites(s)
  PROVE  TypeOK'
<1>1. CASE Leave(s)
  <2>1. session' \in [Ids -> Session]
    <3>1. current[s] \in Ids /\ \A x \in Ids : [session[x] EXCEPT !.status = "ENDED"] \in Session
      BY <1>1, SessionWith DEF Leave, TypeOK
    <3>2. session' = [session EXCEPT ![current[s]] = [session[current[s]] EXCEPT !.status = "ENDED"]]
      BY <1>1 DEF Leave
    <3> QED BY <3>1, <3>2 DEF TypeOK
  <2> QED BY <1>1, <2>1 DEF Leave, TypeOK, Nothing, alertVars, boundVars
<1>2. CASE Disconnect(s)
  BY <1>2 DEF Disconnect, Drop, TypeOK, Nothing, redisVars, alertVars, boundVars
<1>3. CASE DisconnectWrites(s)
  <2>1. dropping[s] \in Ids
    BY <1>3 DEF DisconnectWrites, TypeOK
  <2>2. Disconnected(session[dropping[s]]) \in Session
    <3>1. session[dropping[s]] \in Session
      BY <2>1 DEF TypeOK
    <3> QED BY <3>1, SessionWith
  <2>3. session' \in [Ids -> Session]
    BY <1>3, <2>1, <2>2 DEF DisconnectWrites, TypeOK
  <2> QED BY <1>3, <2>3 DEF DisconnectWrites, TypeOK, redisVars, alertVars, bufferVars, boundVars
<1> QED BY <1>1, <1>2, <1>3

LEMMA EndTypes ==
  ASSUME TypeOK, EndSaves \/ Crash
  PROVE  TypeOK'
<1>1. CASE EndSaves
  <2>1. session' \in [Ids -> Session]
    <3>1. ending \in Ids
      BY <1>1 DEF EndSaves, TypeOK
    <3>2. [session[ending] EXCEPT !.status = "ENDED"] \in Session
      BY <3>1, SessionWith DEF TypeOK
    <3>3. session' = [session EXCEPT ![ending] = [session[ending] EXCEPT !.status = "ENDED"]]
      BY <1>1 DEF EndSaves
    <3> QED BY <3>1, <3>2, <3>3 DEF TypeOK
  <2> QED BY <1>1, <2>1 DEF EndSaves, Drop, TypeOK, Nothing, alertVars, boundVars
<1>2. CASE Crash
  <2>1. NoEvent.at = "unsent" /\ NoEvent \in [at : {"unsent", "count", "store", "done"},
                             socket : Sockets \cup {"none"}, session : {0} \cup Ids, score : 0..100]
    BY DEF NoEvent
  <2>2. [NoEvent EXCEPT !.at = "done"] \in [at : {"unsent", "count", "store", "done"},
                             socket : Sockets \cup {"none"}, session : {0} \cup Ids, score : 0..100]
    BY DEF NoEvent
  <2>3. event' \in [Events -> [at : {"unsent", "count", "store", "done"},
                             socket : Sockets \cup {"none"}, session : {0} \cup Ids, score : 0..100]]
    BY <1>2, <2>1, <2>2 DEF Crash
  <2>4. faults' \in Nat /\ crashes' \in Nat /\ messages' \in Nat
    BY <1>2 DEF Crash, TypeOK
  <2>5. /\ join' \in [Sockets -> {"idle", "insert", "retry", "adopt", "claim", "joined", "failed"}]
        /\ marked' \subseteq Ids
    BY <1>2 DEF Crash, TypeOK
  <2>6. /\ found' \in [Sockets -> {0} \cup Ids] /\ current' \in [Sockets -> {0} \cup Ids]
        /\ room' \in [Sockets -> {0} \cup Ids] /\ dropping' \in [Sockets -> {0} \cup Ids]
        /\ mine' \in [Sockets -> Nat]
        /\ connected' \in [Sockets -> BOOLEAN] /\ checked' \in [Sockets -> BOOLEAN]
    BY <1>2 DEF Crash
  <2>7. buffer' \in [Ids -> Nat] /\ flush' \in [Flushes -> [Ids -> Nat]] /\ ending' = 0
    BY <1>2 DEF Crash, Empty, Nothing
  <2>8. UNCHANGED <<session, incidents, generation, expired, score, alerts, missed, overtaken>>
    BY <1>2 DEF Crash, redisVars
  <2> QED BY <2>3, <2>4, <2>5, <2>6, <2>7, <2>8 DEF TypeOK
<1> QED BY <1>1, <1>2

LEMMA TypeStep ==
  ASSUME TypeOK, JoinsOnce, EventsHaveSocket, [Next]_vars
  PROVE  TypeOK'
<1>1. CASE UNCHANGED vars
  BY <1>1 DEF vars, TypeOK, redisVars, alertVars, bufferVars, socketVars, boundVars
<1> QED BY <1>1, JoinTypes, MessageTypes, EventTypes, LeaveTypes, EndTypes DEF Next

-----------------------------------------------------------------------------
(* One writer of a session.                                                *)

LEMMA JoinsStep ==
  ASSUME TypeOK, JoinsOnce, [Next]_vars
  PROVE  JoinsOnce'
<1>0. 0 \notin Ids
  BY IdsArePositive
<1>1. ASSUME NEW s \in Sockets, Find(s) \/ Insert(s)
      PROVE  JoinsOnce'
  <2>1. \E l \in {"insert", "retry", "adopt", "failed"}, x \in {0} \cup Ids :
           (l = "adopt" => x \in Ids) /\ Answer(s, l, x) /\ join[s] \notin {"joined", "failed"}
    BY <1>1 DEF Find, Insert, Open, Absent
  <2> QED BY <2>1 DEF Answer, JoinsOnce, TypeOK
<1>2. ASSUME NEW s \in Sockets, Adopt(s)
      PROVE  JoinsOnce'
  BY <1>2 DEF Adopt, JoinsOnce, TypeOK
<1>3. ASSUME NEW s \in Sockets, Claim(s)
      PROVE  JoinsOnce'
  BY <1>3 DEF Claim, JoinsOnce, TypeOK
<1>4. ASSUME NEW s \in Sockets, Leave(s)
      PROVE  JoinsOnce'
  BY <1>4 DEF Leave, JoinsOnce, TypeOK
<1>5. CASE Crash
  BY <1>5 DEF Crash, JoinsOnce, TypeOK
<1>6. CASE UNCHANGED <<join, found, current, mine>>
  BY <1>6 DEF JoinsOnce
<1>7. ASSUME NEW s \in Sockets, CheckPush(s) \/ WritePush(s) \/ Disconnect(s) \/ DisconnectWrites(s)
      PROVE  UNCHANGED <<join, found, current, mine>>
  BY <1>7 DEF CheckPush, WritePush, Disconnect, DisconnectWrites
<1>8. ASSUME NEW x \in Ids, ExpireGeneration(x) \/ EndSession(x)
      PROVE  UNCHANGED <<join, found, current, mine>>
  BY <1>8 DEF ExpireGeneration, EndSession, socketVars
<1>9. ASSUME NEW e \in Events,
             (\E s \in Sockets : SendEvent(e, s)) \/ CountIncident(e) \/ CountFails(e) \/ StoreScore(e)
      PROVE  UNCHANGED <<join, found, current, mine>>
  BY <1>9 DEF SendEvent, CountIncident, CountFails, StoreScore, socketVars
<1>10. CASE EndSaves \/ Flush \/ UNCHANGED vars
  BY <1>6, <1>10 DEF EndSaves, Flush, TakeBuffer, BulkWrite, BulkWriteFails, socketVars, vars
<1> QED BY <1>1, <1>2, <1>3, <1>4, <1>5, <1>6, <1>7, <1>8, <1>9, <1>10 DEF Next

\* Who may have claimed a session, and the counter, change with a claim, a leave,
\* and the expiry of the counter only.
LEMMA ClaimsStep ==
  ASSUME TypeOK, JoinsOnce, ClaimsDiffer, [Next]_vars
  PROVE  ClaimsDiffer'
<1>0. 0 \notin Ids
  BY IdsArePositive
<1>1. ASSUME NEW s \in Sockets, Adopt(s)
      PROVE  ClaimsDiffer'
  BY <1>1 DEF Adopt, ClaimsDiffer, JoinsOnce, TypeOK, redisVars
<1>2. ASSUME NEW s \in Sockets, Claim(s)
      PROVE  ClaimsDiffer'
  <2> DEFINE x == found[s]
  <2>1. x \in Ids /\ current[s] \in {0, x} /\ generation[x] \in Nat
    BY <1>2 DEF Claim, JoinsOnce, TypeOK
  <2>2. expired' = expired /\ current' = current
    BY <1>2 DEF Claim
  <2>3. CASE /\ generation' = [generation EXCEPT ![x] = generation[x] + 1]
             /\ mine' = [mine EXCEPT ![s] = generation[x] + 1]
    <3> SUFFICES ASSUME ~expired
                 PROVE  ClaimsDiffer'
      BY <2>2 DEF ClaimsDiffer
    <3>1. ASSUME NEW t \in Sockets, mine'[t] # 0, current[t] # 0
          PROVE  mine'[t] <= generation'[current[t]]
      BY <2>1, <2>3, <3>1 DEF ClaimsDiffer, TypeOK
    <3>2. ASSUME NEW t \in Sockets, t # s, mine[t] # 0, current[t] # 0, current[s] = current[t]
          PROVE  mine'[t] # mine'[s]
      <4>1. current[t] = x
        BY <2>1, <3>2
      <4>2. mine[t] <= generation[x] /\ mine[t] \in Nat
        BY <3>2, <4>1 DEF ClaimsDiffer, TypeOK
      <4>3. mine'[t] = mine[t] /\ mine'[s] = generation[x] + 1
        BY <2>3, <3>2 DEF TypeOK
      <4> QED BY <2>1, <4>2, <4>3
    <3>3. \A t \in Sockets : t # s => mine'[t] = mine[t]
      BY <2>3 DEF TypeOK
    <3> QED BY <2>2, <3>1, <3>2, <3>3 DEF ClaimsDiffer
  <2>4. CASE generation' = generation /\ mine' = [mine EXCEPT ![s] = 0]
    BY <2>2, <2>4 DEF ClaimsDiffer, TypeOK
  <2> QED BY <1>2, <2>3, <2>4 DEF Claim, NextGeneration
<1>3. ASSUME NEW s \in Sockets, Leave(s)
      PROVE  ClaimsDiffer'
  BY <1>3 DEF Leave, ClaimsDiffer, TypeOK
<1>4. CASE Crash
  <2>1. \A s \in Sockets : mine'[s] = 0
    BY <1>4 DEF Crash
  <2> QED BY <2>1 DEF ClaimsDiffer
<1>5. CASE UNCHANGED <<current, mine, generation, expired>>
  BY <1>5 DEF ClaimsDiffer
<1>6. ASSUME NEW s \in Sockets,
             Find(s) \/ Insert(s) \/ CheckPush(s) \/ WritePush(s) \/ Disconnect(s) \/ DisconnectWrites(s)
      PROVE  UNCHANGED <<current, mine, generation, expired>>
  BY <1>6 DEF Find, Insert, Answer, CheckPush, WritePush, Disconnect, DisconnectWrites, redisVars
<1>7. ASSUME NEW x \in Ids, EndSession(x)
      PROVE  UNCHANGED <<current, mine, generation, expired>>
  BY <1>7 DEF EndSession, socketVars, redisVars
<1>8. ASSUME NEW x \in Ids, ExpireGeneration(x)
      PROVE  ClaimsDiffer'
  BY <1>8 DEF ExpireGeneration, ClaimsDiffer
<1>9. ASSUME NEW e \in Events,
             (\E s \in Sockets : SendEvent(e, s)) \/ CountIncident(e) \/ CountFails(e) \/ StoreScore(e)
      PROVE  UNCHANGED <<current, mine, generation, expired>>
  BY <1>9 DEF SendEvent, CountIncident, CountFails, StoreScore, socketVars, redisVars
<1>10. CASE EndSaves \/ Flush \/ UNCHANGED vars
  BY <1>5, <1>10 DEF EndSaves, Flush, TakeBuffer, BulkWrite, BulkWriteFails, socketVars, redisVars, vars
<1> QED BY <1>1, <1>2, <1>3, <1>4, <1>5, <1>6, <1>7, <1>8, <1>9, <1>10 DEF Next

-----------------------------------------------------------------------------
(* One alert of a process.                                                 *)

LEMMA AlertsStep ==
  ASSUME TypeOK, EventsHaveSocket, AlertsMarked, [Next]_vars
  PROVE  AlertsMarked'
<1>1. ASSUME NEW e \in Events, CountIncident(e)
      PROVE  AlertsMarked'
  <2> DEFINE x == current[event[e].socket]
  <2>1. crashes' = crashes
    BY <1>1 DEF CountIncident, boundVars
  <2>2. x \in {0} \cup Ids
    BY <1>1 DEF CountIncident, EventsHaveSocket, TypeOK
  <2>3. CASE x = 0
    BY <1>1, <2>1, <2>3 DEF CountIncident, alertVars, AlertsMarked
  <2>4. CASE x # 0
    <3>1. Alert(x, Scored(score[x])) /\ x \in Ids
      BY <1>1, <2>2, <2>4 DEF CountIncident
    <3>2. CASE UNCHANGED <<marked, alerts>>
      BY <2>1, <3>2 DEF AlertsMarked
    <3>3. CASE /\ x \notin marked /\ marked' = marked \cup {x}
               /\ alerts' = [alerts EXCEPT ![x] = alerts[x] + 1]
      BY <2>1, <3>1, <3>3 DEF AlertsMarked, TypeOK
    <3> QED BY <3>1, <3>2, <3>3 DEF Alert, alertVars
  <2> QED BY <2>3, <2>4
<1>2. CASE Crash
  <2>1. crashes' # 0
    BY <1>2 DEF Crash, TypeOK
  <2> QED BY <2>1 DEF AlertsMarked
<1>3. CASE UNCHANGED <<marked, alerts, crashes>>
  BY <1>3 DEF AlertsMarked
<1>4. ASSUME NEW s \in Sockets,
             \/ Find(s) \/ Insert(s) \/ Adopt(s) \/ Claim(s) \/ CheckPush(s) \/ WritePush(s)
             \/ Leave(s) \/ Disconnect(s) \/ DisconnectWrites(s)
      PROVE  UNCHANGED <<marked, alerts, crashes>>
  BY <1>4 DEF Find, Insert, Adopt, Claim, CheckPush, WritePush, Leave, Disconnect, DisconnectWrites,
              alertVars, boundVars
<1>5. ASSUME NEW x \in Ids, ExpireGeneration(x) \/ EndSession(x)
      PROVE  UNCHANGED <<marked, alerts, crashes>>
  BY <1>5 DEF ExpireGeneration, EndSession, alertVars, boundVars
<1>6. ASSUME NEW e \in Events,
             (\E s \in Sockets : SendEvent(e, s)) \/ CountFails(e) \/ StoreScore(e)
      PROVE  UNCHANGED <<marked, alerts, crashes>>
  BY <1>6 DEF SendEvent, CountFails, StoreScore, alertVars, boundVars
<1>7. CASE EndSaves \/ Flush \/ UNCHANGED vars
  BY <1>3, <1>7 DEF EndSaves, Flush, TakeBuffer, BulkWrite, BulkWriteFails, alertVars, boundVars, vars
<1> QED BY <1>1, <1>2, <1>3, <1>4, <1>5, <1>6, <1>7 DEF Next

-----------------------------------------------------------------------------
(* What has ended.                                                         *)

LEMMA EndedStep ==
  ASSUME TypeOK, JoinsOnce, EventsHaveSocket, [Next]_vars, NEW y \in Ids, session[y].status = "ENDED"
  PROVE  session'[y].status = "ENDED"
<1>0. session \in [Ids -> Session] /\ 0 \notin Ids
  BY IdsArePositive DEF TypeOK
<1>1. ASSUME NEW s \in Sockets, Find(s) \/ Insert(s)
      PROVE  session'[y].status = "ENDED"
  <2>1. \/ session' = session
        \/ \E x \in Ids : /\ session[x].status # "ENDED"
                          /\ session' = [session EXCEPT ![x] = Opened(session[x])]
    BY <1>1 DEF Find, Insert, Open, Joinable, Absent
  <2> QED BY <1>0, <2>1
<1>2. ASSUME NEW f \in Flushes, BulkWrite(f) \/ BulkWriteFails(f)
      PROVE  session'[y].status = "ENDED"
  <2>1. \E X : session' = Written(f, X)
    BY <1>2 DEF BulkWrite, BulkWriteFails
  <2> QED BY <2>1, WrittenType
<1>3. ASSUME NEW e \in Events, CountIncident(e) \/ CountFails(e)
      PROVE  session'[y].status = "ENDED"
  <2>1. \/ session' = session
        \/ \E x \in Ids : session' = [session EXCEPT ![x] = CountedOnce(session[x])]
    BY <1>3 DEF CountIncident, CountFails, EventsHaveSocket, TypeOK
  <2> QED BY <1>0, <2>1, SessionWith
<1>4. ASSUME NEW s \in Sockets, Leave(s)
      PROVE  session'[y].status = "ENDED"
  BY <1>0, <1>4 DEF Leave, Session
<1>5. ASSUME NEW s \in Sockets, DisconnectWrites(s)
      PROVE  session'[y].status = "ENDED"
  <2>1. session' = [session EXCEPT ![dropping[s]] = Disconnected(session[dropping[s]])]
    BY <1>5 DEF DisconnectWrites
  <2> QED BY <1>0, <2>1, SessionWith
<1>6. CASE EndSaves
  BY <1>0, <1>6 DEF EndSaves, Session
<1>7. ASSUME NEW s \in Sockets,
             Adopt(s) \/ Claim(s) \/ CheckPush(s) \/ WritePush(s) \/ Disconnect(s)
      PROVE  session' = session
  BY <1>7 DEF Adopt, Claim, CheckPush, WritePush, Disconnect
<1>8. ASSUME NEW x \in Ids, ExpireGeneration(x) \/ EndSession(x)
      PROVE  session' = session
  BY <1>8 DEF ExpireGeneration, EndSession
<1>9. ASSUME NEW e \in Events, (\E s \in Sockets : SendEvent(e, s)) \/ StoreScore(e)
      PROVE  session' = session
  BY <1>9 DEF SendEvent, StoreScore
<1>10. CASE (\E f \in Flushes : TakeBuffer(f)) \/ Crash \/ UNCHANGED vars
  BY <1>10 DEF TakeBuffer, Crash, vars
<1> QED BY <1>1, <1>2, <1>3, <1>4, <1>5, <1>6, <1>7, <1>8, <1>9, <1>10 DEF Next, Flush

-----------------------------------------------------------------------------
(* The theorems.                                                           *)

LEMMA InvStep == Inv /\ [Next]_vars => Inv'
<1> SUFFICES ASSUME Inv, [Next]_vars
             PROVE  Inv'
  OBVIOUS
<1>0. TypeOK /\ JoinsOnce /\ EventsHaveSocket /\ ClaimsDiffer /\ AlertsMarked
  BY DEF Inv
<1>1. TypeOK'
  BY <1>0, TypeStep
<1>2. EventsHaveSocket'
  <2>1. ASSUME NEW e \in Events,
               (\E s \in Sockets : SendEvent(e, s)) \/ CountIncident(e) \/ CountFails(e) \/ StoreScore(e)
        PROVE  EventsHaveSocket'
    BY <1>0, <2>1, EventTypes
  <2>2. CASE event' = event
    BY <1>0, <2>2 DEF EventsHaveSocket
  <2>3. CASE Crash
    <3>1. \A e \in Events : event'[e].at # "count"
      BY <2>3 DEF Crash, NoEvent
    <3> QED BY <3>1 DEF EventsHaveSocket
  <2>4. ASSUME NEW s \in Sockets,
               \/ Find(s) \/ Insert(s) \/ Adopt(s) \/ Claim(s) \/ CheckPush(s) \/ WritePush(s)
               \/ Leave(s) \/ Disconnect(s) \/ DisconnectWrites(s)
        PROVE  event' = event
    BY <2>4 DEF Find, Insert, Adopt, Claim, CheckPush, WritePush, Leave, Disconnect, DisconnectWrites
  <2>5. CASE \E x \in Ids : ExpireGeneration(x) \/ EndSession(x)
    BY <2>2, <2>5 DEF ExpireGeneration, EndSession
  <2>6. CASE EndSaves \/ Flush \/ UNCHANGED vars
    BY <2>2, <2>6 DEF EndSaves, Flush, TakeBuffer, BulkWrite, BulkWriteFails, vars
  <2> QED BY <2>1, <2>2, <2>3, <2>4, <2>5, <2>6 DEF Next
<1> QED BY <1>0, <1>1, <1>2, JoinsStep, ClaimsStep, AlertsStep DEF Inv

\* The invariant the proofs of this module rest on.
THEOREM ProctoringInvariant == Spec => []Inv
<1> QED BY InitInv, InvStep, PTL DEF Spec

\* Every variable keeps its type: a score stays within 0 and 100.
THEOREM ProctoringTypeOK == Spec => []TypeOK
<1>1. Inv => TypeOK
  BY DEF Inv
<1> QED BY <1>1, ProctoringInvariant, PTL

\* However sockets join, leave and drop, only the socket with the latest claim
\* writes to a session, while its counter is there.
THEOREM ProctoringSoleWriter == Spec => []SoleWriter
<1>1. Inv => SoleWriter
  BY DEF Inv, ClaimsDiffer, SoleWriter, IsCurrentGeneration
<1> QED BY <1>1, ProctoringInvariant, PTL

\* One process alerts the admins of a session once within the cooldown, however
\* many events it handles at the same time.
THEOREM ProctoringAlertedOnce == Spec => []AlertedOnce
<1>1. Inv => AlertedOnce
  <2> SUFFICES ASSUME Inv, crashes = 0, NEW x \in Ids
               PROVE  alerts[x] <= 1
    BY DEF AlertedOnce
  <2>1. alerts[x] = 1 \/ alerts[x] = 0
    BY DEF Inv, AlertsMarked
  <2> QED BY <2>1
<1> QED BY <1>1, ProctoringInvariant, PTL

\* An ended session is never opened again, by whatever joins, drops or flushes.
THEOREM ProctoringEndedStaysEnded == Spec => EndedStaysEnded
<1>1. Inv /\ [Next]_vars =>
        [\A x \in Ids : session[x].status = "ENDED" => session'[x].status = "ENDED"]_vars
  BY EndedStep DEF Inv
<1> QED BY <1>1, ProctoringInvariant, PTL DEF Spec, EndedStaysEnded

-----------------------------------------------------------------------------
(* Messages on their way to the database, and incidents on their way into  *)
(* the counter.                                                            *)

\* Of a session that was never in two bulk writes at once: what is stored is older
\* than what the bulk write holds, and that is older than what is buffered; all of
\* it has been sent.
InOrder(x) ==
    x \notin overtaken =>
        /\ session[x].seen <= messages /\ buffer[x] <= messages
        /\ buffer[x] # Nothing => session[x].seen <= buffer[x]
        /\ \A f \in Flushes : flush[f][x] # Nothing =>
              /\ session[x].seen <= flush[f][x] /\ flush[f][x] <= messages
              /\ buffer[x] # Nothing => flush[f][x] <= buffer[x]
        /\ \A f, g \in Flushes : flush[f][x] # Nothing /\ flush[g][x] # Nothing => f = g

\* A socket has no session before its join answers, and sends no event before that.
Adopted == {"claim", "joined", "failed"}
Sent    == {e \in Events : event[e].at = "count"}

SentAfterAdoption ==
    /\ \A s \in Sockets : current[s] # 0 => join[s] \in Adopted
    /\ \A e \in Sent : join[event[e].socket] \in Adopted
    /\ IsFiniteSet(Sent)

DInv == (\A x \in Ids : InOrder(x)) /\ SentAfterAdoption /\ IncidentsCounted

\* An update changes the fields it names.
LEMMA FieldsOf ==
  ASSUME NEW d \in Session
  PROVE  /\ d.seen \in Nat /\ d.incidentCount \in Nat
         /\ [d EXCEPT !.status = "ENDED"].seen = d.seen
         /\ [d EXCEPT !.status = "ENDED"].incidentCount = d.incidentCount
         /\ [d EXCEPT !.status = "ENDED"].status = "ENDED"
         /\ Opened(d).seen = d.seen /\ Opened(d).incidentCount = d.incidentCount
         /\ Disconnected(d).seen = d.seen /\ Disconnected(d).incidentCount = d.incidentCount
         /\ CountedOnce(d).seen = d.seen /\ CountedOnce(d).incidentCount = d.incidentCount + 1
<1>1. Opened(d).seen = d.seen /\ Opened(d).incidentCount = d.incidentCount
  BY DEF Opened, Session
<1>2. Disconnected(d).seen = d.seen /\ Disconnected(d).incidentCount = d.incidentCount
  BY DEF Disconnected, Session
<1>3. CountedOnce(d).seen = d.seen /\ CountedOnce(d).incidentCount = d.incidentCount + 1
  BY DEF CountedOnce, Session
<1> QED BY <1>1, <1>2, <1>3 DEF Session

\* Only the bulk write stores a time, and only the counting of an event counts.
LEMMA DocumentStep ==
  ASSUME TypeOK, JoinsOnce, EventsHaveSocket, [Next]_vars, NEW y \in Ids
  PROVE  /\ \/ session'[y].seen = session[y].seen
            \/ \E f \in Flushes : BulkWrite(f) \/ BulkWriteFails(f)
         /\ \/ session'[y].incidentCount = session[y].incidentCount
            \/ \E e \in Events : CountIncident(e) \/ CountFails(e)
<1> DEFINE Kept == /\ session'[y].seen = session[y].seen
                   /\ session'[y].incidentCount = session[y].incidentCount
<1>0. session \in [Ids -> Session] /\ session[y] \in Session /\ 0 \notin Ids
  BY IdsArePositive DEF TypeOK
<1>1. ASSUME NEW s \in Sockets, Find(s) \/ Insert(s)
      PROVE  Kept
  <2>1. \/ session' = session
        \/ \E x \in Ids : session' = [session EXCEPT ![x] = Opened(session[x])]
    BY <1>1 DEF Find, Insert, Open, Absent
  <2> QED BY <1>0, <2>1, FieldsOf
<1>2. ASSUME NEW f \in Flushes, BulkWrite(f) \/ BulkWriteFails(f)
      PROVE  session'[y].incidentCount = session[y].incidentCount
  <2>1. \E X : session' = Written(f, X)
    BY <1>2 DEF BulkWrite, BulkWriteFails
  <2> QED BY <2>1, WrittenType
<1>3. ASSUME NEW e \in Events, CountIncident(e) \/ CountFails(e)
      PROVE  session'[y].seen = session[y].seen
  <2>1. \/ session' = session
        \/ \E x \in Ids : session' = [session EXCEPT ![x] = CountedOnce(session[x])]
    BY <1>3 DEF CountIncident, CountFails, EventsHaveSocket, TypeOK
  <2> QED BY <1>0, <2>1, FieldsOf
<1>4. ASSUME NEW s \in Sockets, Leave(s)
      PROVE  Kept
  BY <1>0, <1>4, FieldsOf DEF Leave
<1>5. ASSUME NEW s \in Sockets, DisconnectWrites(s)
      PROVE  Kept
  <2>1. session' = [session EXCEPT ![dropping[s]] = Disconnected(session[dropping[s]])]
    BY <1>5 DEF DisconnectWrites
  <2> QED BY <1>0, <2>1, FieldsOf
<1>6. CASE EndSaves
  BY <1>0, <1>6, FieldsOf DEF EndSaves
<1>7. ASSUME NEW s \in Sockets,
             Adopt(s) \/ Claim(s) \/ CheckPush(s) \/ WritePush(s) \/ Disconnect(s)
      PROVE  session' = session
  BY <1>7 DEF Adopt, Claim, CheckPush, WritePush, Disconnect
<1>8. ASSUME NEW x \in Ids, ExpireGeneration(x) \/ EndSession(x)
      PROVE  session' = session
  BY <1>8 DEF ExpireGeneration, EndSession
<1>9. ASSUME NEW e \in Events, (\E s \in Sockets : SendEvent(e, s)) \/ StoreScore(e)
      PROVE  session' = session
  BY <1>9 DEF SendEvent, StoreScore
<1>10. CASE (\E f \in Flushes : TakeBuffer(f)) \/ Crash \/ UNCHANGED vars
  BY <1>10 DEF TakeBuffer, Crash, vars
<1> QED BY <1>1, <1>2, <1>3, <1>4, <1>5, <1>6, <1>7, <1>8, <1>9, <1>10 DEF Next, Flush

\* A session stays among those once in two bulk writes, and only the timer adds one.
LEMMA OvertakenStay ==
  ASSUME [Next]_vars
  PROVE  overtaken \subseteq overtaken'
<1>1. ASSUME NEW s \in Sockets,
             \/ Find(s) \/ Insert(s) \/ Adopt(s) \/ Claim(s) \/ CheckPush(s) \/ WritePush(s)
             \/ Leave(s) \/ Disconnect(s) \/ DisconnectWrites(s)
      PROVE  overtaken' = overtaken
  BY <1>1 DEF Find, Insert, Adopt, Claim, CheckPush, WritePush, Leave, Disconnect, DisconnectWrites,
              boundVars
<1>2. ASSUME NEW x \in Ids, ExpireGeneration(x) \/ EndSession(x)
      PROVE  overtaken' = overtaken
  BY <1>2 DEF ExpireGeneration, EndSession, boundVars
<1>3. ASSUME NEW e \in Events,
             (\E s \in Sockets : SendEvent(e, s)) \/ CountIncident(e) \/ CountFails(e) \/ StoreScore(e)
      PROVE  overtaken' = overtaken
  BY <1>3 DEF SendEvent, CountIncident, CountFails, StoreScore, boundVars
<1>4. CASE EndSaves \/ Flush \/ Crash \/ UNCHANGED vars
  BY <1>4 DEF EndSaves, Flush, TakeBuffer, BulkWrite, BulkWriteFails, Crash, boundVars, vars
<1> QED BY <1>1, <1>2, <1>3, <1>4 DEF Next

\* No step but a bulk write, the end of a session or a crash forgets what is known
\* of a session that is in one bulk write at a time, and every step keeps the order
\* of the three places.
LEMMA OrderStep ==
  ASSUME TypeOK, JoinsOnce, EventsHaveSocket, [Next]_vars, NEW y \in Ids, InOrder(y)
  PROVE  /\ InOrder(y)'
         /\ \/ Newer(y)
            \/ y \in overtaken'
            \/ session'[y].status \in Terminal
            \/ \E s \in Sockets : dropping'[s] = y
            \/ crashes' > crashes
<1> DEFINE Excused == \/ session'[y].status \in Terminal
                      \/ \E s \in Sockets : dropping'[s] = y
                      \/ crashes' > crashes
<1>o. overtaken \subseteq overtaken'
  BY OvertakenStay
<1>i. CASE y \in overtaken'
  BY <1>i DEF InOrder
<1> SUFFICES ASSUME y \notin overtaken'
             PROVE  InOrder(y)' /\ (Newer(y) \/ Excused)
  BY <1>i
<1>0. /\ session \in [Ids -> Session] /\ session[y] \in Session /\ session[y].seen \in Nat
      /\ buffer \in [Ids -> Nat] /\ buffer[y] \in Nat
      /\ flush \in [Flushes -> [Ids -> Nat]] /\ \A f \in Flushes : flush[f][y] \in Nat
      /\ messages \in Nat /\ 0 \notin Ids /\ Nothing = 0 /\ y \notin overtaken
  BY <1>o, IdsArePositive, FieldsOf DEF TypeOK, Nothing
<1>t. /\ session'[y] \in Session /\ session'[y].seen \in Nat
      /\ buffer'[y] \in Nat /\ \A f \in Flushes : flush'[f][y] \in Nat
  <2>1. TypeOK'
    BY TypeStep
  <2>2. session'[y] \in Session /\ buffer'[y] \in Nat /\ \A f \in Flushes : flush'[f][y] \in Nat
    BY <2>1 DEF TypeOK
  <2> QED BY <2>2 DEF Session
\* Each of the places is as new, or another one has what it had.
<1>h. ASSUME session'[y].seen >= session[y].seen,
             \/ buffer'[y] >= buffer[y] \/ session'[y].seen >= buffer[y]
             \/ \E g \in Flushes : flush'[g][y] >= buffer[y],
             \A f \in Flushes : \/ flush'[f][y] >= flush[f][y] \/ session'[y].seen >= flush[f][y]
                              \/ buffer'[y] >= flush[f][y]
      PROVE  Newer(y)
  BY <1>h DEF Newer, Known
<1>q. ASSUME session'[y].seen = session[y].seen, UNCHANGED <<buffer, flush>>,
             messages' \in {messages, messages + 1}
      PROVE  InOrder(y)' /\ Newer(y)
  <2>1. InOrder(y)'
    BY <1>0, <1>q DEF InOrder
  <2>2. Newer(y)
    BY <1>0, <1>q, <1>h
  <2> QED BY <2>1, <2>2
<1>e. ASSUME session'[y].seen = session[y].seen, buffer'[y] \in {buffer[y], Nothing},
             \A f \in Flushes : flush'[f][y] \in {flush[f][y], Nothing}, UNCHANGED messages
      PROVE  InOrder(y)'
  BY <1>0, <1>e DEF InOrder
<1>s. \/ session'[y].seen = session[y].seen
      \/ \E f \in Flushes : BulkWrite(f) \/ BulkWriteFails(f)
  BY DocumentStep
<1>1. ASSUME NEW s \in Sockets, WritePush(s)
      PROVE  InOrder(y)' /\ Newer(y)
  <2>1. /\ session' = session /\ flush' = flush /\ messages' = messages + 1
        /\ buffer'[y] \in {buffer[y], messages + 1}
    BY <1>0, <1>1 DEF WritePush
  <2>2. InOrder(y)'
    BY <1>0, <2>1 DEF InOrder
  <2>3. buffer'[y] >= buffer[y]
    BY <1>0, <2>1 DEF InOrder
  <2> QED BY <1>0, <1>h, <2>1, <2>2, <2>3
<1>2. ASSUME NEW f \in Flushes, TakeBuffer(f)
      PROVE  InOrder(y)' /\ Newer(y)
  <2>1. /\ session' = session /\ flush'[f][y] = buffer[y] /\ buffer'[y] = 0 /\ flush[f][y] = 0
        /\ messages' = messages /\ \A g \in Flushes : g # f => flush'[g] = flush[g]
    BY <1>0, <1>2 DEF TakeBuffer, Empty
  <2>2. buffer[y] # 0 => \A g \in Flushes : flush[g][y] = 0
    BY <1>0, <1>2 DEF TakeBuffer
  <2>3. InOrder(y)'
    BY <1>0, <2>1, <2>2 DEF InOrder
  <2>4. \A g \in Flushes : flush'[g][y] >= flush[g][y]
    BY <1>0, <1>t, <2>1
  <2> QED BY <1>0, <1>h, <2>1, <2>3, <2>4
<1>3. ASSUME NEW f \in Flushes, BulkWrite(f)
      PROVE  InOrder(y)' /\ (Newer(y) \/ Excused)
  <2>1. /\ flush'[f][y] = 0 /\ buffer' = buffer /\ messages' = messages
        /\ \A g \in Flushes : g # f => flush'[g] = flush[g]
    BY <1>0, <1>3 DEF BulkWrite, boundVars, Empty
  <2>2. /\ session'[y].status = session[y].status
        /\ \/ session'[y].seen = session[y].seen
           \/ flush[f][y] # 0 /\ session'[y].seen = flush[f][y]
        /\ \/ flush[f][y] = 0 \/ session[y].status \in Terminal
           \/ session'[y].seen = flush[f][y]
    BY <1>0, <1>3, WrittenType DEF BulkWrite
  <2>3. InOrder(y)' /\ session'[y].seen >= session[y].seen
    BY <1>0, <2>1, <2>2 DEF InOrder
  <2>4. CASE session[y].status \in Terminal
    BY <2>2, <2>3, <2>4
  <2>5. CASE session[y].status \notin Terminal
    <3>1. flush'[f][y] >= flush[f][y] \/ session'[y].seen >= flush[f][y]
      BY <1>0, <1>t, <2>1, <2>2, <2>5
    <3> QED BY <1>0, <1>h, <2>1, <2>3, <3>1
  <2> QED BY <2>4, <2>5
<1>4. ASSUME NEW f \in Flushes, BulkWriteFails(f)
      PROVE  InOrder(y)' /\ Newer(y)
  <2>1. /\ flush'[f][y] = 0 /\ messages' = messages
        /\ buffer'[y] = IF buffer[y] = 0 THEN flush[f][y] ELSE buffer[y]
        /\ \A g \in Flushes : g # f => flush'[g] = flush[g]
    BY <1>0, <1>4 DEF BulkWriteFails, ReEnqueued, Empty
  <2>2. \/ session'[y].seen = session[y].seen
        \/ flush[f][y] # 0 /\ session'[y].seen = flush[f][y]
    <3>1. \E X : session' = Written(f, X)
      BY <1>4 DEF BulkWriteFails
    <3> QED BY <1>0, <3>1, WrittenType
  <2>3. /\ session'[y].seen >= session[y].seen
        /\ buffer'[y] >= buffer[y] /\ buffer'[y] >= flush[f][y]
    BY <1>0, <2>1, <2>2 DEF InOrder
  <2>4. InOrder(y)'
    BY <1>0, <2>1, <2>2 DEF InOrder
  <2> QED BY <1>0, <1>h, <2>1, <2>3, <2>4
<1>5. ASSUME NEW s \in Sockets, Leave(s)
      PROVE  InOrder(y)' /\ (Newer(y) \/ Excused)
  <2>1. /\ flush' = flush /\ messages' = messages
        /\ buffer'[y] = IF y = current[s] THEN 0 ELSE buffer[y]
    BY <1>0, <1>5 DEF Leave, boundVars
  <2>2. y = current[s] => session'[y].status = "ENDED"
    BY <1>0, <1>5 DEF Leave, Session
  <2>3. session'[y].seen = session[y].seen
    BY <1>0, <1>5, FieldsOf DEF Leave
  <2>4. InOrder(y)'
    BY <1>0, <1>e, <2>1, <2>3
  <2>5. y # current[s] => Newer(y)
    BY <1>0, <1>h, <2>1, <2>3
  <2> QED BY <2>2, <2>4, <2>5 DEF Terminal
<1>6. ASSUME NEW S, S \subseteq Sockets, Drop(S), flush' = flush, messages' = messages,
             session'[y].seen = session[y].seen
      PROVE  InOrder(y)' /\ (Newer(y) \/ Excused)
  <2>1. buffer'[y] = IF \E s \in S : current[s] = y THEN 0 ELSE buffer[y]
    BY <1>0, <1>6 DEF Drop
  <2>2. InOrder(y)'
    BY <1>0, <1>e, <1>6, <2>1
  <2>3. CASE \E s \in S : current[s] = y
    <3>1. \E s \in Sockets : dropping'[s] = y
      BY <1>6, <2>3 DEF Drop
    <3> QED BY <2>2, <3>1
  <2>4. CASE ~\E s \in S : current[s] = y
    BY <1>0, <1>h, <1>6, <2>1, <2>2, <2>4
  <2> QED BY <2>3, <2>4
<1>7. ASSUME NEW s \in Sockets, Disconnect(s)
      PROVE  InOrder(y)' /\ (Newer(y) \/ Excused)
  BY <1>6, <1>7 DEF Disconnect, boundVars
<1>8. CASE EndSaves
  <2>1. session'[y].seen = session[y].seen
    BY <1>0, <1>8, FieldsOf DEF EndSaves
  <2> QED BY <1>6, <1>8, <2>1 DEF EndSaves, boundVars
<1>9. CASE Crash
  <2>1. /\ session' = session /\ buffer'[y] = 0 /\ messages' = messages
        /\ \A f \in Flushes : flush'[f][y] = 0
        /\ crashes' > crashes
    BY <1>0, <1>9 DEF Crash, TypeOK, Empty
  <2> QED BY <1>0, <1>e, <2>1
<1>10. ASSUME NEW s \in Sockets,
              Find(s) \/ Insert(s) \/ Adopt(s) \/ Claim(s) \/ CheckPush(s) \/ DisconnectWrites(s)
       PROVE  UNCHANGED <<buffer, flush, messages>>
  BY <1>10 DEF Find, Insert, Adopt, Claim, CheckPush, DisconnectWrites, bufferVars, boundVars
<1>11. ASSUME NEW x \in Ids, ExpireGeneration(x) \/ EndSession(x)
       PROVE  UNCHANGED <<buffer, flush, messages>>
  BY <1>11 DEF ExpireGeneration, EndSession, bufferVars, boundVars
<1>12. ASSUME NEW e \in Events,
              (\E s \in Sockets : SendEvent(e, s)) \/ CountIncident(e) \/ CountFails(e) \/ StoreScore(e)
       PROVE  UNCHANGED <<buffer, flush>> /\ messages' \in {messages, messages + 1}
  BY <1>12 DEF SendEvent, CountIncident, CountFails, StoreScore, bufferVars, boundVars
<1>13. CASE UNCHANGED vars
  BY <1>q, <1>13 DEF vars, bufferVars, boundVars
<1>14. CASE \/ \E s \in Sockets : \/ Find(s) \/ Insert(s) \/ Adopt(s) \/ Claim(s)
                                  \/ CheckPush(s) \/ DisconnectWrites(s)
            \/ \E x \in Ids : ExpireGeneration(x) \/ EndSession(x)
            \/ \E e \in Events : \/ \E s \in Sockets : SendEvent(e, s)
                                 \/ CountIncident(e) \/ CountFails(e) \/ StoreScore(e)
  <2>1. /\ UNCHANGED <<buffer, flush>> /\ messages' \in {messages, messages + 1}
    BY <1>10, <1>11, <1>12, <1>14
  <2> QED BY <1>3, <1>4, <1>q, <1>s, <2>1
<1> QED BY <1>1, <1>2, <1>3, <1>4, <1>5, <1>7, <1>8, <1>9, <1>13, <1>14 DEF Next, Flush

\* What an event's handler does to the events on their way to be counted.
LEMMA SentChange ==
  ASSUME TypeOK, EventsHaveSocket, NEW e \in Events
  PROVE  /\ \A s \in Sockets : SendEvent(e, s) =>
               /\ e \notin Sent /\ current[s] \in Ids
               /\ \/ /\ Sent' = Sent \cup {e} /\ event'[e].socket = s
                     /\ incidents' = [incidents EXCEPT ![current[s]] = incidents[current[s]] + 1]
                  \/ Sent' = Sent /\ incidents' = incidents
         /\ CountIncident(e) \/ CountFails(e) => e \in Sent /\ Sent' = Sent \ {e}
         /\ StoreScore(e) => Sent' = Sent
         /\ (\E s \in Sockets : SendEvent(e, s)) \/ CountIncident(e) \/ CountFails(e) \/ StoreScore(e) =>
               \A d \in Events : d # e => event'[d] = event[d]
<1> DEFINE Event == [at : {"unsent", "count", "store", "done"},
                     socket : Sockets \cup {"none"}, session : {0} \cup Ids, score : 0..100]
<1>0. event \in [Events -> Event] /\ event[e] \in Event
  BY DEF TypeOK
<1>1. ASSUME NEW new, event' = [event EXCEPT ![e] = new]
      PROVE  /\ event'[e] = new
             /\ \A d \in Events : d # e => event'[d] = event[d]
             /\ Sent' = IF new.at = "count" THEN Sent \cup {e} ELSE Sent \ {e}
  <2>1. event'[e] = new /\ \A d \in Events : d # e => event'[d] = event[d]
    BY <1>0, <1>1
  <2>2. Sent' = {d \in Events : event'[d].at = "count"}
    BY DEF Sent
  <2> QED BY <2>1, <2>2 DEF Sent
<1>2. [NoEvent EXCEPT !.at = "done"].at = "done"
  BY DEF NoEvent
<1>3. ASSUME NEW s \in Sockets, SendEvent(e, s)
      PROVE  /\ e \notin Sent /\ current[s] \in Ids
             /\ \/ /\ Sent' = Sent \cup {e} /\ event'[e].socket = s
                   /\ incidents' = [incidents EXCEPT ![current[s]] = incidents[current[s]] + 1]
                \/ Sent' = Sent /\ incidents' = incidents
             /\ \A d \in Events : d # e => event'[d] = event[d]
  <2>1. e \notin Sent /\ current[s] \in Ids
    BY <1>3 DEF SendEvent, IsCurrentGeneration, Sent, TypeOK
  <2>2. CASE /\ incidents' = [incidents EXCEPT ![current[s]] = @ + 1]
             /\ event' = [event EXCEPT ![e] = [@ EXCEPT !.at = "count", !.socket = s]]
    <3>1. PICK new : new = [event[e] EXCEPT !.at = "count", !.socket = s]
      OBVIOUS
    <3>2. new.at = "count" /\ new.socket = s
      BY <1>0, <3>1
    <3>3. event' = [event EXCEPT ![e] = new]
      BY <2>2, <3>1
    <3> QED BY <1>1, <2>1, <2>2, <3>2, <3>3
  <2>3. CASE /\ event' = [event EXCEPT ![e] = [@ EXCEPT !.at = "done"]]
             /\ UNCHANGED incidents
    <3>1. PICK new : new = [event[e] EXCEPT !.at = "done"]
      OBVIOUS
    <3>2. new.at = "done"
      BY <1>0, <3>1
    <3>3. event' = [event EXCEPT ![e] = new]
      BY <2>3, <3>1
    <3> QED BY <1>1, <2>1, <2>3, <3>2, <3>3
  <2> QED BY <1>3, <2>2, <2>3 DEF SendEvent
<1>6. ASSUME CountFails(e)
      PROVE  /\ e \in Sent /\ Sent' = Sent \ {e}
             /\ \A d \in Events : d # e => event'[d] = event[d]
  <2>1. e \in Sent /\ event' = [event EXCEPT ![e] = [NoEvent EXCEPT !.at = "done"]]
    BY <1>6 DEF CountFails, Sent
  <2> QED BY <1>1, <1>2, <2>1
<1>4. ASSUME CountIncident(e)
      PROVE  /\ e \in Sent /\ Sent' = Sent \ {e}
             /\ \A d \in Events : d # e => event'[d] = event[d]
  <2>1. PICK new : new.at # "count" /\ event' = [event EXCEPT ![e] = new]
    <3>1. [at |-> "store", socket |-> "none", session |-> current[event[e].socket],
           score |-> Scored(score[current[event[e].socket]])].at # "count"
      OBVIOUS
    <3> QED BY <1>2, <1>4, <3>1 DEF CountIncident
  <2> QED BY <1>1, <1>4, <2>1 DEF CountIncident, Sent
<1>5. ASSUME StoreScore(e)
      PROVE  Sent' = Sent /\ \A d \in Events : d # e => event'[d] = event[d]
  <2>1. e \notin Sent
    BY <1>5 DEF StoreScore, Sent
  <2>2. event' = [event EXCEPT ![e] = [NoEvent EXCEPT !.at = "done"]]
    BY <1>5 DEF StoreScore
  <2> QED BY <1>1, <1>2, <2>1, <2>2
<1> QED BY <1>3, <1>4, <1>5, <1>6

\* All other steps leave the events alone, but a crash.
LEMMA EventsStay ==
  ASSUME [Next]_vars
  PROVE  \/ event' = event
         \/ Crash
         \/ \E e \in Events : (\E s \in Sockets : SendEvent(e, s)) \/ CountIncident(e) \/ CountFails(e) \/ StoreScore(e)
<1>1. ASSUME NEW s \in Sockets,
             \/ Find(s) \/ Insert(s) \/ Adopt(s) \/ Claim(s) \/ CheckPush(s) \/ WritePush(s)
             \/ Leave(s) \/ Disconnect(s) \/ DisconnectWrites(s)
      PROVE  event' = event
  BY <1>1 DEF Find, Insert, Adopt, Claim, CheckPush, WritePush, Leave, Disconnect, DisconnectWrites
<1>2. ASSUME NEW x \in Ids, ExpireGeneration(x) \/ EndSession(x)
      PROVE  event' = event
  BY <1>2 DEF ExpireGeneration, EndSession
<1>3. CASE EndSaves \/ Flush \/ UNCHANGED vars
  BY <1>3 DEF EndSaves, Flush, TakeBuffer, BulkWrite, BulkWriteFails, vars
<1> QED BY <1>1, <1>2, <1>3 DEF Next

\* Which session a socket has changes when its join has answered, and when it leaves.
LEMMA SocketsStay ==
  ASSUME TypeOK, JoinsOnce, [Next]_vars
  PROVE  \/ Crash
         \/ /\ \A s \in Sockets : join[s] \in Adopted => join'[s] \in Adopted
            /\ \/ current' = current
               \/ \E s \in Sockets : Adopt(s) \/ Leave(s)
<1>1. ASSUME NEW s \in Sockets, Find(s) \/ Insert(s)
      PROVE  /\ \A t \in Sockets : join[t] \in Adopted => join'[t] \in Adopted
             /\ current' = current
  <2>1. join[s] \notin Adopted /\ \E l, x : Answer(s, l, x)
    BY <1>1 DEF Find, Insert, Adopted
  <2> QED BY <2>1 DEF Answer, TypeOK
<1>2. ASSUME NEW s \in Sockets, Adopt(s) \/ Claim(s)
      PROVE  /\ \A t \in Sockets : join[t] \in Adopted => join'[t] \in Adopted
             /\ current' = current \/ Adopt(s)
  BY <1>2 DEF Adopt, Claim, Adopted, TypeOK
<1>3. ASSUME NEW s \in Sockets,
             CheckPush(s) \/ WritePush(s) \/ Leave(s) \/ Disconnect(s) \/ DisconnectWrites(s)
      PROVE  join' = join /\ (current' = current \/ Leave(s))
  BY <1>3 DEF CheckPush, WritePush, Leave, Disconnect, DisconnectWrites
<1>4. ASSUME NEW x \in Ids, ExpireGeneration(x) \/ EndSession(x)
      PROVE  join' = join /\ current' = current
  BY <1>4 DEF ExpireGeneration, EndSession, socketVars
<1>5. ASSUME NEW e \in Events,
             (\E s \in Sockets : SendEvent(e, s)) \/ CountIncident(e) \/ CountFails(e) \/ StoreScore(e)
      PROVE  join' = join /\ current' = current
  BY <1>5 DEF SendEvent, CountIncident, CountFails, StoreScore, socketVars
<1>6. CASE EndSaves \/ Flush \/ UNCHANGED vars
  BY <1>6 DEF EndSaves, Flush, TakeBuffer, BulkWrite, BulkWriteFails, socketVars, vars
<1> QED BY <1>1, <1>2, <1>3, <1>4, <1>5, <1>6 DEF Next

LEMMA SentStep ==
  ASSUME TypeOK, JoinsOnce, EventsHaveSocket, SentAfterAdoption, [Next]_vars
  PROVE  SentAfterAdoption'
<1>0. 0 \notin Ids
  BY IdsArePositive
<1>1. CASE Crash
  <2>1. Sent' = {} /\ \A s \in Sockets : current'[s] = 0
    BY <1>1 DEF Crash, Sent, NoEvent
  <2> QED BY <2>1, FS_EmptySet DEF SentAfterAdoption
<1>2. CASE ~Crash
  <2>1. \A s \in Sockets : join[s] \in Adopted => join'[s] \in Adopted
    BY <1>2, SocketsStay
  <2>2. \A s \in Sockets : current'[s] # 0 => join'[s] \in Adopted
    <3>1. ASSUME NEW s \in Sockets, Adopt(s)
          PROVE  \A t \in Sockets : current'[t] # 0 => join'[t] \in Adopted
      BY <3>1 DEF Adopt, TypeOK, SentAfterAdoption, Adopted
    <3>2. ASSUME NEW s \in Sockets, Leave(s)
          PROVE  \A t \in Sockets : current'[t] # 0 => current[t] # 0
      BY <3>2 DEF Leave, TypeOK
    <3> QED BY <1>2, <2>1, <3>1, <3>2, SocketsStay DEF SentAfterAdoption
  <2>3. (\A d \in Sent' : join'[event'[d].socket] \in Adopted) /\ IsFiniteSet(Sent')
    <3>0. \A d \in Sent : /\ event[d].socket \in Sockets /\ join[event[d].socket] \in Adopted
                          /\ join'[event[d].socket] \in Adopted
      BY <2>1 DEF EventsHaveSocket, SentAfterAdoption, Sent
    <3>1. CASE event' = event
      BY <3>0, <3>1 DEF Sent, SentAfterAdoption
    <3>2. ASSUME NEW e \in Events, NEW s \in Sockets, SendEvent(e, s)
          PROVE  (\A d \in Sent' : join'[event'[d].socket] \in Adopted) /\ IsFiniteSet(Sent')
      <4>1. current[s] \in Ids /\ e \notin Sent /\ \A d \in Events : d # e => event'[d] = event[d]
        BY <3>2, SentChange
      <4>2. join'[s] \in Adopted
        BY <1>0, <2>1, <4>1 DEF SentAfterAdoption
      <4>3. Sent \subseteq Events
        BY DEF Sent
      <4>4. CASE Sent' = Sent \cup {e} /\ event'[e].socket = s
        <5>1. IsFiniteSet(Sent')
          BY <4>4, FS_AddElement DEF SentAfterAdoption
        <5> QED BY <3>0, <4>1, <4>2, <4>3, <4>4, <5>1
      <4>5. CASE Sent' = Sent
        BY <3>0, <4>1, <4>3, <4>5 DEF SentAfterAdoption
      <4> QED BY <3>2, <4>4, <4>5, SentChange
    <3>3. ASSUME NEW e \in Events, CountIncident(e) \/ CountFails(e) \/ StoreScore(e)
          PROVE  (\A d \in Sent' : join'[event'[d].socket] \in Adopted) /\ IsFiniteSet(Sent')
      <4>1. /\ Sent' \subseteq Sent /\ Sent \subseteq Events
            /\ \A d \in Events : d # e => event'[d] = event[d]
        BY <3>3, SentChange DEF Sent
      <4>2. e \notin Sent'
        BY <3>3, SentChange DEF Sent, StoreScore
      <4>3. IsFiniteSet(Sent')
        BY <4>1, FS_Subset DEF SentAfterAdoption
      <4> QED BY <3>0, <4>1, <4>2, <4>3
    <3> QED BY <1>2, <3>1, <3>2, <3>3, EventsStay
  <2> QED BY <2>2, <2>3 DEF SentAfterAdoption
<1> QED BY <1>1, <1>2

\* The number of incidents stored for a session grows with an event that is sent, and
\* the number of lost increments with one that fails.
LEMMA IncidentsStay ==
  ASSUME [Next]_vars
  PROVE  /\ incidents' = incidents \/ \E e \in Events, s \in Sockets : SendEvent(e, s)
         /\ missed' = missed \/ \E e \in Events : CountFails(e)
<1>1. ASSUME NEW s \in Sockets,
             \/ Find(s) \/ Insert(s) \/ Adopt(s) \/ Claim(s) \/ CheckPush(s) \/ WritePush(s)
             \/ Leave(s) \/ Disconnect(s) \/ DisconnectWrites(s)
      PROVE  incidents' = incidents /\ missed' = missed
  BY <1>1 DEF Find, Insert, Adopt, Claim, CheckPush, WritePush, Leave, Disconnect, DisconnectWrites,
              boundVars
<1>2. ASSUME NEW x \in Ids, ExpireGeneration(x) \/ EndSession(x)
      PROVE  incidents' = incidents /\ missed' = missed
  BY <1>2 DEF ExpireGeneration, EndSession, boundVars
<1>3. ASSUME NEW e \in Events, CountIncident(e) \/ CountFails(e) \/ StoreScore(e)
      PROVE  incidents' = incidents /\ (missed' = missed \/ CountFails(e))
  BY <1>3 DEF CountIncident, CountFails, StoreScore, boundVars
<1>5. ASSUME NEW e \in Events, NEW s \in Sockets, SendEvent(e, s)
      PROVE  missed' = missed
  BY <1>5 DEF SendEvent
<1>4. CASE EndSaves \/ Flush \/ Crash \/ UNCHANGED vars
  BY <1>4 DEF EndSaves, Flush, TakeBuffer, BulkWrite, BulkWriteFails, Crash, boundVars, vars
<1> QED BY <1>1, <1>2, <1>3, <1>4, <1>5 DEF Next

\* Each step moves an incident from what is sent to what is counted, or neither.
LEMMA CountedStep ==
  ASSUME TypeOK, JoinsOnce, EventsHaveSocket, SentAfterAdoption, IncidentsCounted, [Next]_vars
  PROVE  IncidentsCounted'
<1> SUFFICES ASSUME crashes' = 0, NEW x \in Ids, session'[x].status # "ENDED"
             PROVE  session'[x].incidentCount + Cardinality(Counting(x)') + missed'[x] = incidents'[x]
  BY DEF IncidentsCounted
<1>0. /\ session[x] \in Session /\ session[x].incidentCount \in Nat
      /\ incidents \in [Ids -> Nat] /\ incidents[x] \in Nat /\ 0 \notin Ids
      /\ missed \in [Ids -> Nat] /\ missed[x] \in Nat
  BY IdsArePositive, FieldsOf DEF TypeOK
<1>1. ~Crash /\ crashes = 0
  <2>1. ~Crash
    BY DEF Crash, TypeOK
  <2>2. ASSUME NEW s \in Sockets,
               \/ Find(s) \/ Insert(s) \/ Adopt(s) \/ Claim(s) \/ CheckPush(s) \/ WritePush(s)
               \/ Leave(s) \/ Disconnect(s) \/ DisconnectWrites(s)
        PROVE  crashes' = crashes
    BY <2>2 DEF Find, Insert, Adopt, Claim, CheckPush, WritePush, Leave, Disconnect,
                DisconnectWrites, boundVars
  <2>3. ASSUME NEW y \in Ids, ExpireGeneration(y) \/ EndSession(y)
        PROVE  crashes' = crashes
    BY <2>3 DEF ExpireGeneration, EndSession, boundVars
  <2>4. ASSUME NEW e \in Events,
               (\E s \in Sockets : SendEvent(e, s)) \/ CountIncident(e) \/ CountFails(e) \/ StoreScore(e)
        PROVE  crashes' = crashes
    BY <2>4 DEF SendEvent, CountIncident, CountFails, StoreScore, boundVars
  <2>5. EndSaves => crashes' = crashes
    BY DEF EndSaves, boundVars
  <2>6. Flush => crashes' = crashes
    BY DEF Flush, TakeBuffer, BulkWrite, BulkWriteFails, boundVars
  <2>7. UNCHANGED vars => crashes' = crashes
    BY DEF vars, boundVars
  <2> QED BY <2>1, <2>2, <2>3, <2>4, <2>5, <2>6, <2>7 DEF Next
<1>2. session[x].incidentCount + Cardinality(Counting(x)) + missed[x] = incidents[x]
  BY <1>1, EndedStep DEF IncidentsCounted
<1>3. /\ Counting(x) = {d \in Sent : current[event[d].socket] = x}
      /\ Counting(x)' = {d \in Sent' : current'[event'[d].socket] = x}
  BY DEF Counting, Sent
<1>4. /\ IsFiniteSet(Counting(x)) /\ Cardinality(Counting(x)) \in Nat
      /\ Sent \subseteq Events /\ Sent' \subseteq Events
  BY <1>3, FS_Subset, FS_CardinalityType DEF SentAfterAdoption, Sent
<1>5. ASSUME NEW e \in Events, NEW s \in Sockets, SendEvent(e, s)
      PROVE  session'[x].incidentCount + Cardinality(Counting(x)') + missed'[x] = incidents'[x]
  <2>1. session' = session /\ current' = current /\ missed' = missed
    BY <1>5 DEF SendEvent, socketVars
  <2>2. e \notin Sent /\ \A d \in Events : d # e => event'[d] = event[d]
    BY <1>5, SentChange
  <2>3. CASE /\ Sent' = Sent \cup {e} /\ event'[e].socket = s
             /\ incidents' = [incidents EXCEPT ![current[s]] = incidents[current[s]] + 1]
    <3>1. CASE x = current[s]
      <4>1. Counting(x)' = Counting(x) \cup {e} /\ e \notin Counting(x)
        BY <1>3, <1>4, <2>1, <2>2, <2>3, <3>1
      <4>2. Cardinality(Counting(x)') = Cardinality(Counting(x)) + 1
        BY <1>4, <4>1, FS_AddElement
      <4>3. incidents'[x] = incidents[x] + 1
        BY <1>0, <2>3, <3>1
      <4> QED BY <1>0, <1>2, <1>4, <2>1, <4>2, <4>3
    <3>2. CASE x # current[s]
      <4>1. Counting(x)' = Counting(x)
        BY <1>3, <1>4, <2>1, <2>2, <2>3, <3>2
      <4>2. incidents'[x] = incidents[x]
        BY <1>0, <2>3, <3>2
      <4> QED BY <1>2, <2>1, <4>1, <4>2
    <3> QED BY <3>1, <3>2
  <2>4. CASE Sent' = Sent /\ incidents' = incidents
    <3>1. Counting(x)' = Counting(x)
      BY <1>3, <1>4, <2>1, <2>2, <2>4
    <3> QED BY <1>2, <2>1, <2>4, <3>1
  <2> QED BY <1>5, <2>3, <2>4, SentChange
<1>6. ASSUME NEW e \in Events, CountIncident(e) \/ CountFails(e)
      PROVE  session'[x].incidentCount + Cardinality(Counting(x)') + missed'[x] = incidents'[x]
  <2> DEFINE y == current[event[e].socket]
  <2>1. current' = current /\ incidents' = incidents
    BY <1>6 DEF CountIncident, CountFails, socketVars
  <2>2. e \in Sent /\ Sent' = Sent \ {e} /\ \A d \in Events : d # e => event'[d] = event[d]
    BY <1>6, SentChange
  <2>3. Counting(x)' = Counting(x) \ {e}
    BY <1>3, <1>4, <2>1, <2>2
  <2>4. y \in {0} \cup Ids
    BY <1>6 DEF CountIncident, CountFails, EventsHaveSocket, TypeOK
  <2>5. CASE x = y
    <3>1. \/ session' = [session EXCEPT ![y] = CountedOnce(session[y])] /\ missed' = missed
          \/ missed' = [missed EXCEPT ![y] = missed[y] + 1] /\ session' = session
      BY <1>0, <1>6, <2>5 DEF CountIncident, CountFails, boundVars
    <3>2. \/ session'[x].incidentCount = session[x].incidentCount + 1 /\ missed'[x] = missed[x]
          \/ session'[x].incidentCount = session[x].incidentCount /\ missed'[x] = missed[x] + 1
      BY <1>0, <2>5, <3>1, FieldsOf DEF TypeOK
    <3>3. e \in Counting(x)
      BY <1>3, <2>2, <2>5
    <3>4. Cardinality(Counting(x)') = Cardinality(Counting(x)) - 1
      BY <1>4, <2>3, <3>3, FS_RemoveElement
    <3>5. Cardinality(Counting(x)) >= 1
      BY <1>4, <3>3, FS_EmptySet
    <3> QED BY <1>0, <1>2, <1>4, <2>1, <3>2, <3>4, <3>5
  <2>6. CASE x # y
    <3>1. session'[x] = session[x] /\ missed'[x] = missed[x]
      BY <1>0, <1>6, <2>6 DEF CountIncident, CountFails, boundVars, TypeOK
    <3>2. Counting(x)' = Counting(x)
      BY <1>3, <2>3, <2>6
    <3> QED BY <1>2, <2>1, <3>1, <3>2
  <2> QED BY <2>5, <2>6
<1>7. ASSUME NEW e \in Events, StoreScore(e)
      PROVE  session'[x].incidentCount + Cardinality(Counting(x)') + missed'[x] = incidents'[x]
  <2>1. session' = session /\ current' = current /\ incidents' = incidents /\ missed' = missed
    BY <1>7 DEF StoreScore, socketVars, boundVars
  <2>2. Sent' = Sent /\ e \notin Sent /\ \A d \in Events : d # e => event'[d] = event[d]
    BY <1>7, SentChange DEF Sent, StoreScore
  <2>3. Counting(x)' = Counting(x)
    BY <1>3, <1>4, <2>1, <2>2
  <2> QED BY <1>2, <2>1, <2>3
<1>8. CASE ~\E e \in Events :
              (\E s \in Sockets : SendEvent(e, s)) \/ CountIncident(e) \/ CountFails(e) \/ StoreScore(e)
  <2>1. event' = event /\ incidents' = incidents /\ missed' = missed
        /\ session'[x].incidentCount = session[x].incidentCount
    BY <1>1, <1>8, EventsStay, IncidentsStay, DocumentStep
  <2>2. Counting(x)' = Counting(x)
    <3>1. Sent' = Sent /\ \A d \in Sent : event[d].socket \in Sockets
      BY <2>1 DEF Sent, EventsHaveSocket
    <3>2. CASE current' = current
      BY <1>3, <2>1, <3>1, <3>2
    <3>3. ASSUME NEW s \in Sockets, Adopt(s)
          PROVE  Counting(x)' = Counting(x)
      <4>1. \A d \in Sent : event[d].socket # s
        BY <3>3 DEF Adopt, SentAfterAdoption, Adopted
      <4>2. \A t \in Sockets : t # s => current'[t] = current[t]
        BY <3>3 DEF Adopt, TypeOK
      <4> QED BY <1>3, <2>1, <3>1, <4>1, <4>2
    <3>4. ASSUME NEW s \in Sockets, Leave(s)
          PROVE  Counting(x)' = Counting(x)
      <4>1. x # current[s]
        BY <1>0, <3>4 DEF Leave, TypeOK, Session
      <4>2. current' = [current EXCEPT ![s] = 0]
        BY <3>4 DEF Leave
      <4>3. \A t \in Sockets : current'[t] = x <=> current[t] = x
        BY <1>0, <4>1, <4>2 DEF TypeOK
      <4> QED BY <1>3, <2>1, <3>1, <4>3
    <3> QED BY <1>1, <3>2, <3>3, <3>4, SocketsStay
  <2> QED BY <1>2, <2>1, <2>2
<1> QED BY <1>5, <1>6, <1>7, <1>8

LEMMA DeliveryStep == Inv /\ DInv /\ [Next]_vars => DInv'
<1> SUFFICES ASSUME Inv, DInv, [Next]_vars
             PROVE  DInv'
  OBVIOUS
<1> QED BY OrderStep, SentStep, CountedStep DEF Inv, DInv

LEMMA InitDelivery == Init => DInv
<1> SUFFICES ASSUME Init
             PROVE  DInv
  OBVIOUS
<1>1. Sent = {} /\ \A x \in Ids : Counting(x) = {}
  BY DEF Init, NoEvent, Sent, Counting
<1>2. \A x \in Ids : InOrder(x)
  BY DEF Init, InOrder, NoSession, Empty, Nothing
<1>3. SentAfterAdoption
  BY <1>1, FS_EmptySet DEF Init, SentAfterAdoption
<1>4. \A x \in Ids : session[x].incidentCount = 0 /\ incidents[x] = 0 /\ missed[x] = 0
  BY DEF Init, NoSession
<1>5. Cardinality({}) = 0
  BY FS_EmptySet
<1>6. IncidentsCounted
  BY <1>1, <1>4, <1>5 DEF IncidentsCounted
<1> QED BY <1>2, <1>3, <1>6 DEF DInv

LEMMA DeliveryInvariant == Spec => [](Inv /\ DInv)
<1> QED BY InitInv, InvStep, InitDelivery, DeliveryStep, PTL DEF Spec

\* Every incident stored for a session that goes on is in its counter, or its
\* handler is about to count it, or its increment failed, whatever sockets join,
\* drop and leave meanwhile.
THEOREM ProctoringIncidentsCounted == Spec => []IncidentsCounted
<1>1. DInv => IncidentsCounted
  BY DEF DInv
<1> QED BY <1>1, DeliveryInvariant, PTL

\* A bulk write that fails, and messages that come while it is under way, do not
\* take the newest message of a student off its way to the database, unless the
\* session was in another bulk write at the same time.
THEOREM ProctoringNewestKept == Spec => NewestKept
<1>1. Inv /\ DInv /\ [Next]_vars =>
        [\A x \in Ids : \/ Newer(x)
                        \/ x \in overtaken'
                        \/ session'[x].status \in Terminal
                        \/ \E s \in Sockets : dropping'[s] = x
                        \/ crashes' > crashes]_vars
  BY OrderStep DEF Inv, DInv
<1> QED BY <1>1, DeliveryInvariant, PTL DEF Spec, NewestKept

=============================================================================
