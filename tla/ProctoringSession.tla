------------------------- MODULE ProctoringSession -------------------------
(***************************************************************************)
(* The proctoring sessions of one student at one exam, in one backend      *)
(* process: who may write a session, and what reaches the database.        *)
(*                                                                         *)
(*   backend/src/sockets/proctoring.socket.js           the student events *)
(*   backend/src/controllers/proctoring.controllers.js  endSession         *)
(*   backend/src/Services/proctoring/suspicion.scorer.js  live score       *)
(*   backend/src/models/proctoringSession.models.js     document and index *)
(*   frontend/src/hooks/useProctoring.js                join, leave        *)
(*                                                                         *)
(* A student's browser may be connected more than once: a reconnection, or *)
(* a second tab, joins while the server still holds the old socket.  The   *)
(* handlers of a socket are asynchronous and overlap.  Presence, a copy    *)
(* in Redis that expires after 30 s, is left out, and so are the WebRTC    *)
(* messages, which the server only forwards.                               *)
(***************************************************************************)
EXTENDS Naturals, FiniteSets

CONSTANTS
    Sockets,        \* connections the student's browser opens
    Events,         \* proctoring:event messages
    Flushes,        \* bulk writes that may be under way at once
    MaxSessions,    \* bound on the session documents
    MaxMessages,      \* bound on the heartbeats, status messages and events sent
    MaxFaults,      \* bound on what fails: writes, Redis, its keys, the process
    Contribution,   \* what the signal of an event adds to the score
    AlertScore      \* ALERT_THRESHOLD_SCORE

ASSUME BoundAssumption == /\ MaxSessions \in Nat
                          /\ MaxMessages \in Nat
                          /\ MaxFaults \in Nat
                          /\ Contribution \in Nat
                          /\ AlertScore \in Nat

VARIABLES
    session,     \* ProctoringSession documents
    incidents,   \* number of ProctoringIncident documents of each session
    generation,  \* proctor:gen:<session> in Redis, 0 when absent
    expired,     \* such a key has run out (it lives for an hour from the last join)
    score,       \* proctor:ai:<session> in Redis
    marked,      \* localDedupMap: sessions whose alert was emitted lately
    alerts,      \* alerts sent to the admins for each session
    buffer,      \* dbWriteBuffer, Nothing where it has no entry
    flush,       \* entries of each bulk write in progress
    join,        \* the call the join of a socket makes next
    found,       \* the session that call answered with
    current,     \* currentSessionId of the socket, 0 when null
    mine,        \* myGeneration of the socket
    connected,
    room,        \* the session whose room the socket is in
    checked,     \* a heartbeat of the socket has passed the generation check
    dropping,    \* the session its disconnect handler is about to write
    event,       \* proctoring:event handlers in progress
    ending,      \* the session an admin's endSession has loaded
    messages, faults, crashes,
    missed,      \* history: increments of incidentCount that failed for good
    overtaken    \* history: sessions with entries in two bulk writes at once

redisVars  == <<generation, expired, score>>
alertVars  == <<marked, alerts>>
bufferVars == <<buffer, flush>>
socketVars == <<join, found, current, mine, connected, room, checked, dropping>>
boundVars  == <<messages, faults, crashes, missed, overtaken>>
vars == <<session, incidents, redisVars, alertVars, bufferVars, socketVars, event, ending, boundVars>>

Ids       == 1..MaxSessions
Nothing   == 0
Terminal  == {"ENDED", "DISCONNECTED"}
Joinable  == {"ACTIVE", "DISCONNECTED"}
Session   == [status : {"ABSENT", "ACTIVE", "ENDED", "DISCONNECTED"},
              seen : Nat, incidentCount : Nat]
Empty     == [x \in Ids |-> Nothing]
NoSession == [status |-> "ABSENT", seen |-> Nothing, incidentCount |-> 0]
NoEvent   == [at |-> "unsent", socket |-> "none", session |-> 0, score |-> 0]

TypeOK ==
    /\ session \in [Ids -> Session]
    /\ incidents \in [Ids -> Nat]
    /\ generation \in [Ids -> Nat]
    /\ expired \in BOOLEAN
    /\ score \in [Ids -> 0..100]
    /\ marked \subseteq Ids
    /\ alerts \in [Ids -> Nat]
    /\ buffer \in [Ids -> Nat]
    /\ flush \in [Flushes -> [Ids -> Nat]]
    /\ join \in [Sockets -> {"idle", "insert", "retry", "adopt", "claim", "joined", "failed"}]
    /\ found \in [Sockets -> {0} \cup Ids]
    /\ current \in [Sockets -> {0} \cup Ids]
    /\ mine \in [Sockets -> Nat]
    /\ connected \in [Sockets -> BOOLEAN]
    /\ room \in [Sockets -> {0} \cup Ids]
    /\ checked \in [Sockets -> BOOLEAN]
    /\ dropping \in [Sockets -> {0} \cup Ids]
    /\ event \in [Events -> [at : {"unsent", "count", "store", "done"},
                             socket : Sockets \cup {"none"}, session : {0} \cup Ids,
                             score : 0..100]]
    /\ ending \in {0} \cup Ids
    /\ messages \in Nat /\ faults \in Nat /\ crashes \in Nat
    /\ missed \in [Ids -> Nat]
    /\ overtaken \subseteq Ids

Init ==
    /\ session = [x \in Ids |-> NoSession]
    /\ incidents = [x \in Ids |-> 0]
    /\ generation = [x \in Ids |-> 0]
    /\ expired = FALSE
    /\ score = [x \in Ids |-> 0]
    /\ marked = {}
    /\ alerts = [x \in Ids |-> 0]
    /\ buffer = Empty
    /\ flush = [f \in Flushes |-> Empty]
    /\ join = [s \in Sockets |-> "idle"]
    /\ found = [s \in Sockets |-> 0]
    /\ current = [s \in Sockets |-> 0]
    /\ mine = [s \in Sockets |-> 0]
    /\ connected = [s \in Sockets |-> FALSE]
    /\ room = [s \in Sockets |-> 0]
    /\ checked = [s \in Sockets |-> FALSE]
    /\ dropping = [s \in Sockets |-> 0]
    /\ event = [e \in Events |-> NoEvent]
    /\ ending = 0
    /\ messages = 0 /\ faults = 0 /\ crashes = 0
    /\ missed = [x \in Ids |-> 0]
    /\ overtaken = {}

-----------------------------------------------------------------------------
(* Joining.                                                                *)

\* The partial unique index on exam, student and status.
Indexed == {x \in Ids : session[x].status = "ACTIVE"}
\* What the filter of findOneAndUpdate matches.
Open    == {x \in Ids : session[x].status \in Joinable}
Absent  == {x \in Ids : session[x].status = "ABSENT"}

Opened(doc) == [doc EXCEPT !.status = "ACTIVE"]

Answer(s, l, x) ==
    /\ join' = [join EXCEPT ![s] = l]
    /\ found' = [found EXCEPT ![s] = x]
    /\ connected' = [connected EXCEPT ![s] = @ \/ join[s] = "idle"]
    /\ UNCHANGED <<current, mine, room, checked, dropping>>

\* A socket connects and sends its join.  The update half of the upsert, and the findOneAndUpdate after a duplicate
\* key.  Re-opening a DISCONNECTED session next to an ACTIVE one violates the
\* index; the second call has no handler for that, and the process dies.
Find(s) ==
    /\ \/ /\ join[s] = "idle"
          /\ \/ \E x \in Open :
                   IF Indexed \subseteq {x}
                   THEN session' = [session EXCEPT ![x] = Opened(@)] /\ Answer(s, "adopt", x)
                   ELSE Answer(s, "retry", 0) /\ UNCHANGED session
             \/ Open = {} /\ Absent # {} /\ Answer(s, "insert", 0) /\ UNCHANGED session
       \/ /\ join[s] = "retry"
          /\ \/ \E x \in Open :
                   /\ Indexed \subseteq {x}
                   /\ session' = [session EXCEPT ![x] = Opened(@)]
                   /\ Answer(s, "adopt", x)
             \/ Open = {} /\ Answer(s, "failed", 0) /\ UNCHANGED session
    /\ UNCHANGED <<incidents, redisVars, alertVars, bufferVars, event, ending, boundVars>>

\* The insert half: an ACTIVE document that came in between is a duplicate key.
Insert(s) ==
    /\ join[s] = "insert"
    /\ \/ \E x \in Absent :
             /\ Indexed = {}
             /\ \A y \in Absent : x <= y
             /\ session' = [session EXCEPT ![x] = Opened(@)]
             /\ Answer(s, "adopt", x)
       \/ Indexed # {} /\ Answer(s, "retry", 0) /\ UNCHANGED session
    /\ UNCHANGED <<incidents, redisVars, alertVars, bufferVars, event, ending, boundVars>>

\* currentSessionId is set; until claimGeneration answers the socket has
\* generation 0 and counts as current.
Adopt(s) ==
    /\ join[s] = "adopt"
    /\ join' = [join EXCEPT ![s] = "claim"]
    /\ current' = [current EXCEPT ![s] = found[s]]
    /\ UNCHANGED <<session, incidents, redisVars, alertVars, bufferVars, found, mine, connected,
                   room, checked, dropping, event, ending, boundVars>>

\* Mutant: the counter is read and not incremented.
SameGeneration(x) == IF generation[x] = 0 THEN 1 ELSE generation[x]

NextGeneration(x) == generation[x] + 1

\* INCR, or 0 when Redis does not answer; then the socket enters the room.
Claim(s) ==
    LET x == found[s] IN
    /\ join[s] = "claim"
    /\ \/ /\ generation' = [generation EXCEPT ![x] = NextGeneration(x)]
          /\ mine' = [mine EXCEPT ![s] = NextGeneration(x)]
          /\ UNCHANGED faults
       \/ /\ faults < MaxFaults
          /\ faults' = faults + 1
          /\ mine' = [mine EXCEPT ![s] = 0]
          /\ UNCHANGED generation
    /\ join' = [join EXCEPT ![s] = "joined"]
    /\ found' = [found EXCEPT ![s] = 0]
    /\ room' = [room EXCEPT ![s] = IF connected[s] THEN x ELSE 0]
    /\ UNCHANGED <<session, incidents, expired, score, alertVars, bufferVars, current,
                   connected, checked, dropping, event, ending, messages, crashes, missed,
                   overtaken>>

\* EXPIRE 3600 is set at a join and never refreshed.
ExpireGeneration(x) ==
    /\ generation[x] # 0
    /\ faults < MaxFaults
    /\ faults' = faults + 1
    /\ generation' = [generation EXCEPT ![x] = 0]
    /\ expired' = TRUE
    /\ UNCHANGED <<session, incidents, score, alertVars, bufferVars, socketVars, event, ending,
                   messages, crashes, missed, overtaken>>

-----------------------------------------------------------------------------
(* Heartbeats, status messages and their way into the database.            *)

IsCurrentGeneration(s) ==
    /\ current[s] # 0
    /\ mine[s] = 0 \/ generation[current[s]] = mine[s]

CheckPush(s) ==
    /\ connected[s] /\ ~checked[s]
    /\ IsCurrentGeneration(s)
    /\ messages < MaxMessages
    /\ checked' = [checked EXCEPT ![s] = TRUE]
    /\ UNCHANGED <<session, incidents, redisVars, alertVars, bufferVars, join, found, current,
                   mine, connected, room, dropping, event, ending, boundVars>>

\* A heartbeat or a status message is merged into the buffered entry, of which
\* only the time of the newest message is kept here.
WritePush(s) ==
    /\ checked[s]
    /\ current[s] # 0
    /\ checked' = [checked EXCEPT ![s] = FALSE]
    /\ messages < MaxMessages
    /\ messages' = messages + 1
    /\ buffer' = [buffer EXCEPT ![current[s]] = messages']
    /\ UNCHANGED <<session, incidents, redisVars, alertVars, flush, join, found, current, mine,
                   connected, room, dropping, event, ending, faults, crashes, missed, overtaken>>

\* The 15 s timer takes the buffer over, and does not wait for the bulk writes
\* that are still under way.
TakeBuffer(f) ==
    /\ flush[f] = Empty /\ buffer # Empty
    /\ flush' = [flush EXCEPT ![f] = buffer]
    /\ buffer' = Empty
    /\ overtaken' = overtaken \cup
                      {x \in Ids : buffer[x] # Nothing /\ \E g \in Flushes : flush[g][x] # Nothing}
    /\ UNCHANGED <<session, incidents, redisVars, alertVars, socketVars, event, ending,
                   messages, faults, crashes, missed>>

\* The updates of bulk write f that reach the sessions of X.
Written(f, X) ==
    [x \in Ids |-> IF x \in X /\ flush[f][x] # Nothing /\ session[x].status \notin Terminal
                   THEN [session[x] EXCEPT !.seen = flush[f][x]] ELSE session[x]]

BulkWrite(f) ==
    /\ flush[f] # Empty
    /\ session' = Written(f, Ids)
    /\ flush' = [flush EXCEPT ![f] = Empty]
    /\ UNCHANGED <<incidents, redisVars, alertVars, buffer, socketVars, event, ending, boundVars>>

\* Mutant: entries go back even when a newer one has come.
ReEnqueuedAll(f) == [x \in Ids |-> IF flush[f][x] = Nothing THEN buffer[x] ELSE flush[f][x]]

\* Entries whose session has another one by now are dropped, and it need not be
\* a newer one: it may come from an earlier bulk write that failed as well.
ReEnqueued(f) == [x \in Ids |-> IF buffer[x] = Nothing THEN flush[f][x] ELSE buffer[x]]

\* The updates are unordered, and any of them may have been made when it fails.
BulkWriteFails(f) ==
    /\ flush[f] # Empty
    /\ faults < MaxFaults
    /\ faults' = faults + 1
    /\ \E X \in SUBSET Ids : session' = Written(f, X)
    /\ buffer' = ReEnqueued(f)
    /\ flush' = [flush EXCEPT ![f] = Empty]
    /\ UNCHANGED <<incidents, redisVars, alertVars, socketVars, event, ending, messages,
                   crashes, missed, overtaken>>

-----------------------------------------------------------------------------
(* Incidents and the suspicion score.                                      *)

\* The guards, checkIncidentRL, and ProctoringIncident.create; an event over the
\* limit is dropped.
SendEvent(e, s) ==
    /\ event[e].at = "unsent"
    /\ connected[s]
    /\ IsCurrentGeneration(s)
    /\ messages < MaxMessages
    /\ messages' = messages + 1
    /\ \/ /\ incidents' = [incidents EXCEPT ![current[s]] = @ + 1]
          /\ event' = [event EXCEPT ![e] = [@ EXCEPT !.at = "count", !.socket = s]]
       \/ /\ event' = [event EXCEPT ![e] = [@ EXCEPT !.at = "done"]]
          /\ UNCHANGED incidents
    /\ UNCHANGED <<session, redisVars, alertVars, bufferVars, socketVars, ending, faults, crashes,
                   missed, overtaken>>

\* Mutant: the counter is set from the number of incidents known to have come.
CountedAnew(doc) == [doc EXCEPT !.incidentCount = 1]

CountedOnce(doc) == [doc EXCEPT !.incidentCount = @ + 1]

\* Math.min(100, Math.round(score * 0.8 + contribution))
Scored(n) == LET m == (8 * n + 5) \div 10 + Contribution IN IF m > 100 THEN 100 ELSE m

\* Mutant: the mark is left to the step that stores the state.
AlertUnmarked(x, n) ==
    /\ alerts' = IF n >= AlertScore /\ x \notin marked THEN [alerts EXCEPT ![x] = @ + 1] ELSE alerts
    /\ UNCHANGED marked

\* An alert of session x at score n, if none was sent lately; it is decided and
\* marked without an await, so no two events of a process both find it unmarked.
Alert(x, n) ==
    IF n >= AlertScore /\ x \notin marked
    THEN alerts' = [alerts EXCEPT ![x] = @ + 1] /\ marked' = marked \cup {x}
    ELSE UNCHANGED alertVars

\* $inc on the socket's session, whichever that is by now, and the first half of
\* processSignals.  A socket that has left has no session to count in, and what
\* comes next throws inside the try.
CountIncident(e) ==
    LET x == current[event[e].socket] IN
    /\ event[e].at = "count"
    /\ IF x = 0
       THEN /\ event' = [event EXCEPT ![e] = [NoEvent EXCEPT !.at = "done"]]
            /\ UNCHANGED <<session, alertVars>>
       ELSE /\ session' = [session EXCEPT ![x] = CountedOnce(@)]
            /\ event' = [event EXCEPT ![e] = [at |-> "store", socket |-> "none", session |-> x,
                                               score |-> Scored(score[x])]]
            /\ Alert(x, Scored(score[x]))
    /\ UNCHANGED <<incidents, redisVars, bufferVars, socketVars, ending, boundVars>>

\* The increment throws, whether it was made or not, and the handler ends with it:
\* the incident stays stored, and nothing is scored.
CountFails(e) ==
    LET x == current[event[e].socket] IN
    /\ event[e].at = "count" /\ x # 0
    /\ faults < MaxFaults
    /\ faults' = faults + 1
    /\ \/ session' = [session EXCEPT ![x] = CountedOnce(@)] /\ UNCHANGED missed
       \/ missed' = [missed EXCEPT ![x] = @ + 1] /\ UNCHANGED session
    /\ event' = [event EXCEPT ![e] = [NoEvent EXCEPT !.at = "done"]]
    /\ UNCHANGED <<incidents, redisVars, alertVars, bufferVars, socketVars, ending, messages,
                   crashes, overtaken>>

\* The state as this handler computed it, over whatever another one stored or
\* the end of the session deleted.
StoreScore(e) ==
    /\ event[e].at = "store"
    /\ score' = [score EXCEPT ![event[e].session] = event[e].score]
    /\ event' = [event EXCEPT ![e] = [NoEvent EXCEPT !.at = "done"]]
    /\ UNCHANGED <<session, incidents, generation, expired, alertVars, bufferVars, socketVars,
                   ending, boundVars>>

-----------------------------------------------------------------------------
(* Leaving, disconnecting, and the end by an admin.                        *)

\* The update, the deletions in Redis, and the finally block.  A heartbeat buffered
\* between the deletion from the buffer and the update is filtered by the flush.
Leave(s) ==
    LET x == current[s] IN
    /\ connected[s] /\ x # 0
    /\ buffer' = [buffer EXCEPT ![x] = Nothing]
    /\ session' = [session EXCEPT ![x].status = "ENDED"]
    /\ score' = [score EXCEPT ![x] = 0]
    /\ current' = [current EXCEPT ![s] = 0]
    /\ UNCHANGED <<incidents, generation, expired, alertVars, flush, join, found, mine,
                   connected, room, checked, dropping, event, ending, boundVars>>

\* The connection of each socket of S is gone; the handler ignores a socket
\* without a session, and looks at no generation.
Drop(S) ==
    /\ connected' = [s \in Sockets |-> connected[s] /\ s \notin S]
    /\ room' = [s \in Sockets |-> IF s \in S THEN 0 ELSE room[s]]
    /\ dropping' = [s \in Sockets |-> IF s \in S THEN current[s] ELSE dropping[s]]
    /\ buffer' = [x \in Ids |-> IF \E s \in S : current[s] = x THEN Nothing ELSE buffer[x]]

Disconnect(s) ==
    /\ connected[s]
    /\ Drop({s})
    /\ UNCHANGED <<session, incidents, redisVars, alertVars, flush, join, found, current, mine,
                   checked, event, ending, boundVars>>

\* Mutant: the update has no filter on the status.
DisconnectedAlways(doc) == [doc EXCEPT !.status = "DISCONNECTED"]

\* findOneAndUpdate with the filter status: "ACTIVE".
Disconnected(doc) ==
    IF doc.status = "ACTIVE" THEN [doc EXCEPT !.status = "DISCONNECTED"] ELSE doc

DisconnectWrites(s) ==
    /\ dropping[s] # 0
    /\ session' = [session EXCEPT ![dropping[s]] = Disconnected(@)]
    /\ dropping' = [dropping EXCEPT ![s] = 0]
    /\ UNCHANGED <<incidents, redisVars, alertVars, bufferVars, join, found, current, mine,
                   connected, room, checked, event, ending, boundVars>>

EndSession(x) ==
    /\ ending = 0
    /\ session[x].status \in Joinable
    /\ ending' = x
    /\ UNCHANGED <<session, incidents, redisVars, alertVars, bufferVars, socketVars, event,
                   boundVars>>

\* save(), then the sockets in the room are disconnected.
EndSaves ==
    LET x == ending IN
    /\ x # 0
    /\ session' = [session EXCEPT ![x].status = "ENDED"]
    /\ Drop({s \in Sockets : connected[s] /\ room[s] = x})
    /\ score' = [score EXCEPT ![x] = 0]
    /\ ending' = 0
    /\ UNCHANGED <<incidents, generation, expired, alertVars, flush, join, found, current, mine,
                   checked, event, boundVars>>

\* What is thrown outside a try ends the process: a heartbeat that
\* finds currentSessionId null after its await, or the second duplicate key.
Throws ==
    \/ \E s \in Sockets : checked[s] /\ current[s] = 0
    \/ \E s \in Sockets : join[s] = "retry" /\ \E x \in Open : ~(Indexed \subseteq {x})

\* Memory and handlers of the process are gone, and no disconnect handler runs.
Crash ==
    /\ \/ Throws /\ UNCHANGED faults
       \/ faults < MaxFaults /\ faults' = faults + 1
    /\ crashes' = crashes + 1
    /\ marked' = {}
    /\ buffer' = Empty
    /\ flush' = [f \in Flushes |-> Empty]
    /\ join' = [s \in Sockets |-> IF join[s] = "idle" THEN "idle" ELSE "failed"]
    /\ found' = [s \in Sockets |-> 0]
    /\ current' = [s \in Sockets |-> 0]
    /\ mine' = [s \in Sockets |-> 0]
    /\ connected' = [s \in Sockets |-> FALSE]
    /\ room' = [s \in Sockets |-> 0]
    /\ checked' = [s \in Sockets |-> FALSE]
    /\ dropping' = [s \in Sockets |-> 0]
    /\ event' = [e \in Events |-> IF event[e].at = "unsent" THEN NoEvent ELSE [NoEvent EXCEPT !.at = "done"]]
    /\ ending' = 0
    /\ UNCHANGED <<session, incidents, redisVars, alerts, messages, missed, overtaken>>

-----------------------------------------------------------------------------
Flush == \E f \in Flushes : TakeBuffer(f) \/ BulkWrite(f) \/ BulkWriteFails(f)

Next ==
    \/ \E s \in Sockets : \/ Find(s) \/ Insert(s) \/ Adopt(s) \/ Claim(s)
                          \/ CheckPush(s) \/ WritePush(s)
                          \/ Leave(s) \/ Disconnect(s) \/ DisconnectWrites(s)
    \/ \E x \in Ids : ExpireGeneration(x) \/ EndSession(x)
    \/ EndSaves
    \/ \E e \in Events : \/ \E s \in Sockets : SendEvent(e, s)
                         \/ CountIncident(e) \/ CountFails(e) \/ StoreScore(e)
    \/ Flush
    \/ Crash

Spec == Init /\ [][Next]_vars

-----------------------------------------------------------------------------
(* Properties                                                              *)

\* A session that was ended, by the student or by an admin, is never opened
\* again, whatever joins, late disconnects and buffered heartbeats are under way.
EndedStaysEnded ==
    [][\A x \in Ids : session[x].status = "ENDED" => session'[x].status = "ENDED"]_vars

\* While the counter of generations has not expired, at most one of the sockets
\* that claimed a session may write to it (isCurrentGeneration).
SoleWriter ==
    ~expired => \A s, t \in Sockets :
        /\ current[s] = current[t]
        /\ mine[s] # 0 /\ mine[t] # 0
        /\ IsCurrentGeneration(s) /\ IsCurrentGeneration(t)
        => s = t

\* The newest message of a student is not lost on its way to the database, however
\* writes fail and new messages come in between ("Re-enqueue entries that are not
\* yet superseded"), unless the session is closed or the process dies, or two bulk
\* writes with entries of the session were under way at once: then the older entry
\* may be written last, or be put back in the way of the newer one.
Known(x) == {session[x].seen, buffer[x]} \cup {flush[f][x] : f \in Flushes}
Newer(x) == \A n \in Known(x) : \E m \in Known(x)' : m >= n

NewestKept ==
    [][\A x \in Ids : \/ Newer(x)
                      \/ x \in overtaken'
                      \/ session'[x].status \in Terminal
                      \/ \E s \in Sockets : dropping'[s] = x
                      \/ crashes' > crashes]_vars

\* Each incident stored for a session is in its counter or about to be, or its
\* increment failed, as long as the session was not left and the process did not
\* die in between: no increment is made twice or in another session.
Counting(x) == {e \in Events : event[e].at = "count" /\ current[event[e].socket] = x}

IncidentsCounted ==
    crashes = 0 => \A x \in Ids :
        session[x].status # "ENDED" =>
            session[x].incidentCount + Cardinality(Counting(x)) + missed[x] = incidents[x]

\* One process sends the alert of a session once within the cooldown.
AlertedOnce == crashes = 0 => \A x \in Ids : alerts[x] <= 1

=============================================================================
