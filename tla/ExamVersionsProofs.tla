------------------------- MODULE ExamVersionsProofs -------------------------
(***************************************************************************)
(* For any numbers of requests, polls, recommit jobs and verifications:    *)
(* the types, that CONFIRMED records are on the ledger with their hash,    *)
(* that the versions on the ledger form a hash chain, and that neither     *)
(* verdict of a verification comes without its commitment.  All follow     *)
(* from IInv, which rests on the ledger and the records never changing     *)
(* what they hold (Grows).                                                 *)
(***************************************************************************)
EXTENDS ExamVersions, TLAPS, WellFoundedInduction

\* What no step undoes: a hash on the ledger, and the fields of a record.
Grows ==
    /\ \A v \in Versions : ledger[v] # None => ledger'[v] = ledger[v]
    /\ \A v \in Versions : v \in Recorded =>
          /\ v \in Recorded'
          /\ outbox'[v].hash = outbox[v].hash
          /\ outbox'[v].prev = outbox[v].prev

-----------------------------------------------------------------------------
(* The newest confirmed version.                                           *)

\* A set of versions that is not empty has a greatest member.
LEMMA Greatest ==
  ASSUME NEW S \in SUBSET Versions, S # {}
  PROVE  Max(S) \in S
<1> DEFINE M == MaxWrites + 1
           T == {n \in Nat : \E v \in S : n = M - v}
<1>1. M \in Nat /\ \A v \in S : v \in Nat /\ M - v \in Nat
  BY BoundAssumption DEF Versions
<1>2. T \subseteq Nat /\ T # {}
  BY <1>1
<1>3. PICK n \in T : \A m \in T : <<m, n>> \notin OpToRel(<, Nat)
  <2> HIDE DEF T
  <2> QED BY <1>2, NatLessThanWellFounded, WFMin
<1>4. \A m \in T : ~(m < n)
  BY <1>2, <1>3 DEF OpToRel
<1>5. PICK v \in S : n = M - v
  BY <1>3
<1>6. \A w \in S : v >= w
  <2> TAKE w \in S
  <2>1. M - w \in T
    BY <1>1
  <2> QED BY <1>1, <1>4, <1>5, <2>1
<1>7. \E x \in S : \A y \in S : x >= y
  BY <1>6
<1> QED BY <1>7 DEF Max

LEMMA Latest ==
  /\ LatestVersion \in Versions
  /\ Confirmed # {} => LatestVersion \in Confirmed
<1>1. Confirmed \in SUBSET Versions
  BY DEF Confirmed, HasStatus
<1>2. CASE Confirmed = {}
  BY <1>2, BoundAssumption DEF LatestVersion, Versions
<1>3. CASE Confirmed # {}
  BY <1>1, <1>3, Greatest DEF LatestVersion
<1> QED BY <1>2, <1>3

-----------------------------------------------------------------------------
(* What Grows preserves.                                                   *)

LEMMA FollowsKept ==
  ASSUME Grows, NEW v \in Versions, v > 1, NEW p, Follows(v, p)
  PROVE  Follows(v, p)'
<1>1. v - 1 \in Versions
  BY BoundAssumption DEF Versions
<1> QED BY <1>1 DEF Follows, Grows

LEMMA Unchanged ==
  ASSUME RecordsHold, UNCHANGED commitVars
  PROVE  Grows /\ RecordsHold'
  BY DEF Grows, RecordsHold, commitVars, Recorded, Confirmed, HasStatus, Follows

LEMMA RequestsKept ==
  ASSUME TypeOK, RequestsHold, Grows, NEW a \in Admins, request'[a] = request[a]
  PROVE  /\ request'[a].at # "idle" => request'[a].doc # None
         /\ request'[a].at = "enqueue" => /\ request'[a].version > 1
                                          /\ Follows(request[a].version, request[a].prev)'
<1>1. request[a].version \in Versions
  BY DEF TypeOK
<1> QED BY <1>1, FollowsKept DEF RequestsHold

LEMMA AllRequestsKept ==
  ASSUME TypeOK, RequestsHold, Grows, UNCHANGED request
  PROVE  RequestsHold'
<1>1. ASSUME NEW a \in Admins
      PROVE  /\ request'[a].at # "idle" => request'[a].doc # None
             /\ request'[a].at = "enqueue" =>
                   /\ request'[a].version > 1
                   /\ Follows(request[a].version, request[a].prev)'
  BY RequestsKept
<1> QED BY <1>1 DEF RequestsHold

LEMMA RunnersKept ==
  ASSUME TypeOK, RunnersHold, Grows, UNCHANGED <<pc, at, todo>>
  PROVE  RunnersHold'
  BY DEF TypeOK, RunnersHold, Grows, Busy

LEMMA SweepKept ==
  ASSUME TypeOK, SweepHolds, Grows, UNCHANGED sweep
  PROVE  SweepHolds'
  BY DEF TypeOK, SweepHolds, Grows

LEMMA CheckKept ==
  ASSUME TypeOK, ChecksHold, Grows, NEW k \in Checks, check'[k] = check[k]
  PROVE  /\ check'[k].at # "idle" => check'[k].doc # None
         /\ check'[k].at = "valid" => \E v \in Versions : ledger'[v] = check'[k].doc
         /\ check'[k].at \in {"pending", "alarm"} =>
               \E v \in Versions : ledger'[v] \notin {None, check'[k].doc}
<1>1. CASE check[k].at = "valid"
  BY <1>1 DEF ChecksHold, Grows
<1>2. CASE check[k].at \in {"pending", "alarm"}
  <2>1. PICK v \in Versions : ledger[v] \notin {None, check[k].doc}
    BY <1>2 DEF ChecksHold
  <2>2. ledger'[v] = ledger[v]
    BY <2>1 DEF Grows
  <2> QED BY <1>2, <2>1, <2>2 DEF ChecksHold
<1>3. CASE check[k].at \notin {"valid", "pending", "alarm"}
  BY <1>3 DEF ChecksHold
<1> QED BY <1>1, <1>2, <1>3

LEMMA ChecksKept ==
  ASSUME TypeOK, ChecksHold, Grows, UNCHANGED check
  PROVE  ChecksHold'
  BY CheckKept DEF ChecksHold

-----------------------------------------------------------------------------
(* The writes of the collection and of the ledger.                         *)

LEMMA Created ==
  ASSUME TypeOK, RecordsHold, NEW v \in Versions, NEW d \in Contents,
         NEW p \in Contents \cup {None}, v > 1 => Follows(v, p),
         CreateRecord(v, d, p), UNCHANGED ledger
  PROVE  Grows /\ RecordsHold' /\ outbox' \in [Versions -> Record]
<1>1. d # None
  BY DEF Contents, None
<1>2. CASE v \in Recorded
  <2>1. UNCHANGED commitVars
    BY <1>2 DEF CreateRecord, commitVars
  <2> QED BY <2>1, Unchanged DEF TypeOK, commitVars
<1>3. CASE v \notin Recorded
  <2>1. outbox' = [outbox EXCEPT ![v] = [status |-> "PENDING", hash |-> d, prev |-> p]]
    BY <1>3 DEF CreateRecord
  <2>2. outbox' \in [Versions -> Record]
    BY <2>1 DEF TypeOK, Record
  <2>3. /\ \A u \in Versions : u # v => outbox'[u] = outbox[u]
        /\ outbox'[v] = [status |-> "PENDING", hash |-> d, prev |-> p]
    BY <2>1 DEF TypeOK
  <2>4. Recorded' = Recorded \cup {v} /\ Confirmed' = Confirmed
    BY <1>3, <2>3 DEF Recorded, Confirmed, HasStatus
  <2>5. Grows
    BY <1>3, <2>3, <2>4 DEF Grows
  <2>6. ASSUME NEW u \in Recorded' PROVE outbox'[u].hash # None
    BY <1>1, <2>3, <2>4 DEF RecordsHold, Recorded, HasStatus
  <2>7. ASSUME NEW u \in Recorded', u > 1 PROVE Follows(u, outbox[u].prev)'
    BY <2>3, <2>4, <2>7 DEF RecordsHold, Recorded, HasStatus, Follows
  <2>8. \A u \in Versions : ledger'[u] # None => u \in Recorded' /\ ledger'[u] = outbox'[u].hash
    BY <1>3, <2>3, <2>4 DEF RecordsHold
  <2>9. \A u \in Confirmed' : ledger'[u] # None
    BY <2>4 DEF RecordsHold
  <2> QED BY <2>2, <2>5, <2>6, <2>7, <2>8, <2>9 DEF RecordsHold
<1> QED BY <1>2, <1>3

\* A change of statuses that leaves the fields alone, confirms nothing that is
\* not on the ledger, and keeps every record.
LEMMA Restated ==
  ASSUME TypeOK, RecordsHold, UNCHANGED ledger, outbox' \in [Versions -> Record],
         Recorded' = Recorded,
         \A u \in Versions : /\ outbox'[u].hash = outbox[u].hash
                             /\ outbox'[u].prev = outbox[u].prev,
         \A u \in Confirmed' : ledger[u] # None
  PROVE  Grows /\ RecordsHold'
<1>1. Grows
  BY DEF Grows
<1>2. \A u \in Versions : ledger'[u] # None => u \in Recorded' /\ ledger'[u] = outbox'[u].hash
  BY DEF RecordsHold
<1>3. ASSUME NEW u \in Recorded'
      PROVE  outbox'[u].hash # None /\ (u > 1 => Follows(u, outbox[u].prev)')
  BY DEF RecordsHold, Follows, Recorded, HasStatus
<1> QED BY <1>1, <1>2, <1>3 DEF RecordsHold

LEMMA StatusSet ==
  ASSUME TypeOK, RecordsHold, UNCHANGED ledger, NEW v \in Recorded,
         NEW s \in {"PENDING", "PROCESSING", "CONFIRMED", "FAILED"},
         s = "CONFIRMED" => ledger[v] # None, SetStatus(v, s)
  PROVE  Grows /\ RecordsHold' /\ outbox' \in [Versions -> Record]
<1>1. v \in Versions
  BY DEF Recorded, HasStatus
<1>2. outbox' \in [Versions -> Record]
  <2>1. outbox \in [Versions -> Record]
    BY DEF TypeOK
  <2>2. [outbox[v] EXCEPT !.status = s] \in Record
    BY <1>1, <2>1 DEF Record
  <2> QED BY <1>1, <2>1, <2>2 DEF SetStatus
<1>3. /\ \A u \in Versions : /\ outbox'[u].hash = outbox[u].hash
                             /\ outbox'[u].prev = outbox[u].prev
                             /\ u # v => outbox'[u] = outbox[u]
      /\ outbox'[v].status = s
  <2>1. outbox' = [outbox EXCEPT ![v] = [outbox[v] EXCEPT !.status = s]]
    BY DEF SetStatus
  <2>2. outbox \in [Versions -> Record] /\ outbox[v] \in Record
    BY <1>1 DEF TypeOK
  <2>3. /\ \A u \in Versions : u # v => outbox'[u] = outbox[u]
        /\ outbox'[v] = [outbox[v] EXCEPT !.status = s]
    BY <1>1, <2>1, <2>2
  <2>4. /\ outbox'[v].status = s
        /\ outbox'[v].hash = outbox[v].hash
        /\ outbox'[v].prev = outbox[v].prev
    BY <2>2, <2>3 DEF Record
  <2> QED BY <2>3, <2>4
<1>4. Recorded' = Recorded
  BY <1>1, <1>3 DEF Recorded, HasStatus
<1>5. \A u \in Confirmed' : ledger[u] # None
  BY <1>3 DEF RecordsHold, Confirmed, HasStatus
<1> QED BY <1>2, <1>3, <1>4, <1>5, Restated

LEMMA LedgerWritten ==
  ASSUME TypeOK, RecordsHold, UNCHANGED outbox, NEW v \in Recorded, ledger[v] = None,
         ledger' = [ledger EXCEPT ![v] = outbox[v].hash]
  PROVE  Grows /\ RecordsHold' /\ ledger' \in [Versions -> Contents \cup {None}]
<1>1. v \in Versions
  BY DEF Recorded, HasStatus
<1>2. ledger' \in [Versions -> Contents \cup {None}]
  BY <1>1 DEF TypeOK, Record
<1>3. ledger'[v] = outbox[v].hash /\ \A u \in Versions : u # v => ledger'[u] = ledger[u]
  BY <1>1 DEF TypeOK
<1>4. Recorded' = Recorded /\ Confirmed' = Confirmed
  BY DEF Recorded, Confirmed, HasStatus
<1>5. Grows
  BY <1>3, <1>4 DEF Grows
<1>6. ASSUME NEW u \in Recorded
      PROVE  outbox'[u].hash # None /\ (u > 1 => Follows(u, outbox[u].prev)')
  <2>1. u \in Versions
    BY DEF Recorded, HasStatus
  <2>2. u > 1 => Follows(u, outbox[u].prev)'
    BY <1>5, <2>1, FollowsKept DEF RecordsHold, Follows
  <2> QED BY <2>2 DEF RecordsHold
<1>7. \A u \in Versions : ledger'[u] # None => u \in Recorded' /\ ledger'[u] = outbox'[u].hash
  BY <1>3, <1>4 DEF RecordsHold
<1>8. \A u \in Confirmed' : ledger'[u] # None
  <2> TAKE u \in Confirmed'
  <2>1. u \in Versions
    BY DEF Confirmed, HasStatus
  <2> QED BY <1>4, <1>5, <2>1 DEF RecordsHold, Grows
<1> QED BY <1>2, <1>4, <1>5, <1>6, <1>7, <1>8 DEF RecordsHold

-----------------------------------------------------------------------------
(* The steps.                                                              *)

ExamTypes    == /\ contents \in Contents
                /\ contents <= writes + 1
                /\ exam \in 1..contents
                /\ creating \in BOOLEAN
BoundTypes   == writes \in 0..MaxWrites /\ events \in 0..MaxEvents
CommitTypes  == /\ outbox \in [Versions -> Record]
                /\ ledger \in [Versions -> Contents \cup {None}]
Requests     == [at: {"idle", "latest", "enqueue"}, doc: Contents \cup {None},
                 version: Versions, prev: Contents \cup {None}]
RequestTypes == request \in [Admins -> Requests]
RunTypes     == /\ pc \in [Runners -> {"idle", "poll", "submit", "confirm", "fail"}]
                /\ at \in [Runners -> Versions]
                /\ phase \in [Jobs -> {"off", "reset", "loop"}]
                /\ todo \in [Jobs -> SUBSET Versions]
                /\ running \in BOOLEAN
SweepTypes   == sweep \in [at: {"idle", "found", "missing", "refill"},
                           version: Versions, doc: Contents \cup {None}]
Verifications == [at: {"idle", "version", "ask", "pending", "valid", "alarm"},
                  doc: Contents \cup {None}, version: Versions]
CheckTypes   == check \in [Checks -> Verifications]

\* TypeOK, by the part of the state it speaks of.
LEMMA Types == TypeOK <=> /\ ExamTypes /\ BoundTypes /\ CommitTypes /\ RequestTypes
                          /\ RunTypes /\ SweepTypes /\ CheckTypes
  BY DEF TypeOK, ExamTypes, BoundTypes, CommitTypes, RequestTypes, Requests, RunTypes,
         SweepTypes, CheckTypes, Verifications

LEMMA TypesNext == TypeOK' <=> /\ ExamTypes' /\ BoundTypes' /\ CommitTypes' /\ RequestTypes'
                               /\ RunTypes' /\ SweepTypes' /\ CheckTypes'
  BY DEF TypeOK, ExamTypes, BoundTypes, CommitTypes, RequestTypes, Requests, RunTypes,
         SweepTypes, CheckTypes, Verifications

\* The parts a step leaves alone keep their types.
LEMMA SameTypes ==
  ASSUME TypeOK
  PROVE  /\ UNCHANGED <<examVars, writes>> => ExamTypes'
         /\ UNCHANGED boundVars => BoundTypes'
         /\ UNCHANGED commitVars => CommitTypes'
         /\ UNCHANGED request => RequestTypes'
         /\ UNCHANGED runVars => RunTypes'
         /\ UNCHANGED sweep => SweepTypes'
         /\ UNCHANGED check => CheckTypes'
<1> USE Types
<1>1. UNCHANGED <<examVars, writes>> => ExamTypes'
  BY DEF ExamTypes, examVars
<1>2. UNCHANGED boundVars => BoundTypes'
  BY DEF BoundTypes, boundVars
<1>3. UNCHANGED commitVars => CommitTypes'
  BY DEF CommitTypes, commitVars
<1>4. UNCHANGED request => RequestTypes'
  BY DEF RequestTypes
<1>5. UNCHANGED runVars => RunTypes'
  BY DEF RunTypes, runVars, jobVars
<1>6. UNCHANGED sweep => SweepTypes'
  BY DEF SweepTypes
<1>7. UNCHANGED check => CheckTypes'
  BY DEF CheckTypes
<1> QED BY <1>1, <1>2, <1>3, <1>4, <1>5, <1>6, <1>7

LEMMA OneIsVersion == 1 \in Versions
  BY BoundAssumption DEF Versions

LEMMA ExamIsContent == ASSUME TypeOK PROVE exam \in Contents /\ exam # None
  BY BoundAssumption DEF TypeOK, Contents, None

\* A step that touches neither the requests, the runners' records, the sweep
\* nor the checks leaves what they hold.
LEMMA OthersKept ==
  ASSUME IInv, Grows, RecordsHold', TypeOK', UNCHANGED <<request, pc, at, todo, sweep, check>>
  PROVE  IInv'
  BY AllRequestsKept, RunnersKept, SweepKept, ChecksKept DEF IInv

LEMMA EventTypes == ASSUME BoundTypes, Event, UNCHANGED writes PROVE BoundTypes'
  BY BoundAssumption DEF BoundTypes, Event

LEMMA EnqueueFirstKeeps == ASSUME IInv, EnqueueFirst PROVE IInv'
<1>1. Grows /\ RecordsHold' /\ outbox' \in [Versions -> Record]
  BY Created, OneIsVersion, ExamIsContent DEF IInv, EnqueueFirst
<1>2. TypeOK'
  <2>1. ExamTypes'
    BY Types DEF IInv, EnqueueFirst, boundVars, ExamTypes
  <2>2. CommitTypes'
    BY <1>1, Types DEF IInv, EnqueueFirst, CommitTypes
  <2> QED BY <2>1, <2>2, SameTypes, TypesNext DEF IInv, EnqueueFirst
<1> QED BY <1>1, <1>2, OthersKept DEF EnqueueFirst, runVars, jobVars

LEMMA EnqueueFirstLostKeeps == ASSUME IInv, EnqueueFirstLost PROVE IInv'
<1>1. Grows /\ RecordsHold'
  BY Unchanged DEF IInv, EnqueueFirstLost
<1>2. TypeOK'
  <2>1. ExamTypes'
    BY Types DEF IInv, EnqueueFirstLost, ExamTypes
  <2>2. BoundTypes'
    BY Types, EventTypes DEF IInv, EnqueueFirstLost
  <2> QED BY <2>1, <2>2, SameTypes, TypesNext DEF IInv, EnqueueFirstLost
<1> QED BY <1>1, <1>2, OthersKept DEF EnqueueFirstLost, runVars, jobVars

LEMMA WriteTypes == ASSUME BoundTypes, Write, UNCHANGED events PROVE BoundTypes'
  BY BoundAssumption DEF BoundTypes, Write

\* A counted write of the exam makes at most one new content.
LEMMA NewContentTypes ==
  ASSUME TypeOK, creating' = creating, Write,
         \/ exam' = contents + 1 /\ contents' = contents + 1
         \/ exam' = exam /\ contents' = contents
  PROVE  ExamTypes' /\ exam' \in Contents /\ exam' # None
<1>1. /\ contents \in Nat /\ contents >= 1 /\ exam \in 1..contents
      /\ contents <= writes + 1 /\ writes \in Nat /\ MaxWrites \in Nat
  BY BoundAssumption DEF TypeOK, Contents
<1>2. contents' \in Nat /\ contents' >= 1 /\ exam' \in 1..contents'
  BY <1>1
<1>3. contents' <= writes' + 1 /\ contents' <= MaxWrites + 1
  BY <1>1 DEF Write
<1>4. contents' \in Contents /\ exam' \in Contents /\ exam' # None
  BY <1>1, <1>2, <1>3 DEF Contents, None
<1> QED BY <1>2, <1>3, <1>4 DEF ExamTypes, TypeOK

LEMMA EditExamKeeps == ASSUME IInv, EditExam PROVE IInv'
<1>1. Grows /\ RecordsHold'
  BY Unchanged DEF IInv, EditExam
<1>2. TypeOK'
  <2>1. BoundTypes'
    BY Types, WriteTypes DEF IInv, EditExam
  <2>2. ExamTypes'
    BY NewContentTypes DEF IInv, EditExam, NewContent
  <2> QED BY <2>1, <2>2, SameTypes, TypesNext DEF IInv, EditExam
<1> QED BY <1>1, <1>2, OthersKept DEF EditExam, runVars, jobVars

\* Follows in the next state, of values read in this one.
FollowsNext(v, prev) == \/ ledger'[v - 1] # None /\ prev = ledger'[v - 1]
                        \/ v = 2 /\ prev = None

\* A request's step: the others keep what they hold.
LEMMA RequestMoves ==
  ASSUME IInv, Grows, RecordsHold', TypeOK', NEW a \in Admins, NEW new \in Requests,
         request' = [request EXCEPT ![a] = new],
         new.at # "idle" => new.doc # None,
         new.at = "enqueue" => new.version > 1 /\ FollowsNext(new.version, new.prev),
         UNCHANGED <<pc, at, todo, sweep, check>>
  PROVE  IInv'
<1>1. ASSUME NEW b \in Admins
      PROVE  /\ request'[b].at # "idle" => request'[b].doc # None
             /\ request'[b].at = "enqueue" =>
                   /\ request'[b].version > 1
                   /\ Follows(request[b].version, request[b].prev)'
  <2>1. CASE b = a
    <3>1. request'[b] = new
      BY <2>1 DEF IInv, TypeOK
    <3> QED BY <3>1 DEF Follows, FollowsNext
  <2>2. CASE b # a
    BY <2>2, RequestsKept DEF IInv
  <2> QED BY <2>1, <2>2
<1>2. RequestsHold'
  BY <1>1 DEF RequestsHold
<1> QED BY <1>2, RunnersKept, SweepKept, ChecksKept DEF IInv

LEMMA NoRequestType == NoRequest \in Requests
  BY OneIsVersion DEF NoRequest, Requests

LEMMA UpdateExamKeeps == ASSUME IInv, NEW a \in Admins, UpdateExam(a) PROVE IInv'
<1> DEFINE new == [NoRequest EXCEPT !.at = "latest", !.doc = exam']
<1>1. Grows /\ RecordsHold'
  BY Unchanged DEF IInv, UpdateExam
<1>2. BoundTypes'
  BY Types, WriteTypes DEF IInv, UpdateExam
<1>3. ExamTypes' /\ exam' \in Contents /\ exam' # None
  BY NewContentTypes DEF IInv, UpdateExam, NewContent
<1>4. new \in Requests /\ new.at = "latest" /\ new.doc = exam'
  BY <1>3, OneIsVersion DEF NoRequest, Requests
<1>5. RequestTypes'
  BY <1>4, Types DEF IInv, UpdateExam, RequestTypes
<1>6. TypeOK'
  BY <1>2, <1>3, <1>5, SameTypes, TypesNext DEF IInv, UpdateExam
<1> QED BY <1>1, <1>3, <1>4, <1>6, RequestMoves DEF UpdateExam, runVars, jobVars

LEMMA ReadLatestKeeps == ASSUME IInv, NEW a \in Admins, ReadLatest(a) PROVE IInv'
<1> DEFINE p == IF Confirmed = {} THEN None ELSE outbox[LatestVersion].hash
           new == [request[a] EXCEPT !.at = "enqueue", !.version = LatestVersion + 1,
                                     !.prev = p]
<1>1. Grows /\ RecordsHold'
  BY Unchanged DEF IInv, ReadLatest
<1>2. request[a] \in Requests /\ request[a].doc # None
  BY Types DEF IInv, RequestTypes, RequestsHold, ReadLatest
<1>3. p \in Contents \cup {None}
  BY Latest, Types DEF IInv, CommitTypes, Record
<1>4. /\ new \in Requests /\ new.doc = request[a].doc /\ new.at = "enqueue"
      /\ new.version = LatestVersion + 1 /\ new.prev = p
  BY <1>2, <1>3 DEF Requests, ReadLatest
<1>5. request' = [request EXCEPT ![a] = new]
  BY DEF ReadLatest
<1>6. LatestVersion + 1 > 1 /\ (LatestVersion + 1) - 1 = LatestVersion
  BY Latest DEF Versions
<1>7. FollowsNext(LatestVersion + 1, p)
  <2>1. CASE Confirmed = {}
    BY <2>1 DEF LatestVersion, FollowsNext
  <2>2. CASE Confirmed # {}
    <3>1. LatestVersion \in Confirmed /\ LatestVersion \in Recorded
      BY <2>2, Latest DEF Confirmed, Recorded, HasStatus
    <3>2. ledger[LatestVersion] # None /\ p = ledger[LatestVersion]
      BY <2>2, <3>1, Latest DEF IInv, RecordsHold
    <3> QED BY <1>6, <3>2 DEF FollowsNext, ReadLatest, commitVars
  <2> QED BY <2>1, <2>2
<1>8. TypeOK'
  <2>1. RequestTypes'
    BY <1>4, <1>5, Types DEF IInv, RequestTypes
  <2> QED BY <2>1, SameTypes, TypesNext DEF IInv, ReadLatest, boundVars
<1>9. FollowsNext(new.version, new.prev)
  BY <1>4, <1>7
<1>10. UNCHANGED <<pc, at, todo, sweep, check>>
  BY DEF ReadLatest, runVars, jobVars
<1> HIDE DEF new, p
<1> QED BY <1>1, <1>2, <1>4, <1>5, <1>6, <1>8, <1>9, <1>10, RequestMoves

LEMMA EnqueueNextKeeps == ASSUME IInv, NEW a \in Admins, EnqueueNext(a) PROVE IInv'
<1>1. /\ request[a] \in Requests
      /\ request[a].doc # None /\ request[a].version > 1
      /\ Follows(request[a].version, request[a].prev)
  BY Types DEF IInv, RequestTypes, RequestsHold, EnqueueNext
<1>2. /\ request[a].version \in Versions /\ request[a].doc \in Contents
      /\ request[a].prev \in Contents \cup {None}
  BY <1>1 DEF Requests
<1>3. Grows /\ RecordsHold' /\ outbox' \in [Versions -> Record]
  BY <1>1, <1>2, Created DEF IInv, EnqueueNext
<1>4. request' = [request EXCEPT ![a] = NoRequest] /\ NoRequest.at = "idle"
  BY DEF EnqueueNext, EndRequest, NoRequest
<1>5. TypeOK'
  <2>1. RequestTypes'
    BY <1>4, NoRequestType, Types DEF IInv, RequestTypes
  <2>2. CommitTypes'
    BY <1>3, Types DEF IInv, EnqueueNext, CommitTypes
  <2> QED BY <2>1, <2>2, SameTypes, TypesNext DEF IInv, EnqueueNext, boundVars
<1>6. UNCHANGED <<pc, at, todo, sweep, check>>
  BY DEF EnqueueNext, runVars, jobVars
<1> QED BY <1>3, <1>4, <1>5, <1>6, NoRequestType, RequestMoves

LEMMA EnqueueNextLostKeeps == ASSUME IInv, NEW a \in Admins, EnqueueNextLost(a) PROVE IInv'
<1>1. Grows /\ RecordsHold'
  BY Unchanged DEF IInv, EnqueueNextLost
<1>2. request' = [request EXCEPT ![a] = NoRequest] /\ NoRequest.at = "idle"
  BY DEF EnqueueNextLost, EndRequest, NoRequest
<1>3. TypeOK'
  <2>1. RequestTypes'
    BY <1>2, NoRequestType, Types DEF IInv, RequestTypes
  <2>2. BoundTypes'
    BY Types, EventTypes DEF IInv, EnqueueNextLost
  <2> QED BY <2>1, <2>2, SameTypes, TypesNext DEF IInv, EnqueueNextLost
<1>4. UNCHANGED <<pc, at, todo, sweep, check>>
  BY DEF EnqueueNextLost, runVars, jobVars
<1> QED BY <1>1, <1>2, <1>3, <1>4, NoRequestType, RequestMoves

\* A runner's step: the others keep what they hold.
LEMMA RunnerMoves ==
  ASSUME IInv, Grows, RecordsHold', TypeOK', NEW r \in Runners,
         \A q \in Runners : q # r => pc'[q] = pc[q] /\ at'[q] = at[q],
         Busy(r)' => at'[r] \in Recorded',
         pc'[r] = "confirm" => ledger'[at'[r]] # None,
         \A j \in Jobs : todo'[j] \subseteq todo[j],
         UNCHANGED <<request, sweep, check>>
  PROVE  IInv'
<1>1. ASSUME NEW q \in Runners
      PROVE  /\ Busy(q)' => at'[q] \in Recorded'
             /\ pc'[q] = "confirm" => ledger'[at'[q]] # None
  <2>1. CASE q = r
    BY <2>1
  <2>2. CASE q # r
    <3>1. at[q] \in Versions /\ pc'[q] = pc[q] /\ at'[q] = at[q]
      BY <2>2 DEF IInv, TypeOK
    <3> QED BY <3>1 DEF IInv, RunnersHold, Grows, Busy
  <2> QED BY <2>1, <2>2
<1>2. ASSUME NEW j \in Jobs PROVE todo'[j] \subseteq Recorded'
  BY DEF IInv, RunnersHold, Grows, TypeOK
<1>3. RunnersHold'
  BY <1>1, <1>2 DEF RunnersHold
<1> QED BY <1>3, AllRequestsKept, SweepKept, ChecksKept DEF IInv

LEMMA RecordedAreVersions == Recorded \subseteq Versions
  BY DEF Recorded, HasStatus

\* Taking a record up, by the worker or by a job.
LEMMA TakenUp ==
  ASSUME IInv, NEW r \in Runners, NEW v \in Recorded, TakeUp(r, v), UNCHANGED ledger
  PROVE  /\ Grows /\ RecordsHold' /\ CommitTypes'
         /\ pc' \in [Runners -> {"idle", "poll", "submit", "confirm", "fail"}]
         /\ at' \in [Runners -> Versions]
         /\ \A q \in Runners : q # r => pc'[q] = pc[q] /\ at'[q] = at[q]
         /\ pc'[r] = "submit" /\ at'[r] = v /\ v \in Recorded'
<1>1. v \in Versions
  BY RecordedAreVersions
<1>2. Grows /\ RecordsHold' /\ outbox' \in [Versions -> Record]
  BY StatusSet DEF IInv, TakeUp
<1>3. CommitTypes'
  BY <1>2, Types DEF IInv, CommitTypes
<1>4. /\ pc' \in [Runners -> {"idle", "poll", "submit", "confirm", "fail"}]
      /\ at' \in [Runners -> Versions]
      /\ \A q \in Runners : q # r => pc'[q] = pc[q] /\ at'[q] = at[q]
      /\ pc'[r] = "submit" /\ at'[r] = v
  BY <1>1 DEF IInv, TypeOK, TakeUp
<1>5. v \in Recorded'
  BY <1>1, <1>2 DEF Grows
<1> QED BY <1>2, <1>3, <1>4, <1>5

LEMMA ClaimKeeps == ASSUME IInv, NEW w \in Workers, Claim(w) PROVE IInv'
<1>1. PICK v \in Claimable : TakeUp(w, v)
  BY DEF Claim
<1>2. v \in Recorded /\ w \in Runners
  BY DEF Claimable, Recorded, HasStatus, Runners
<1>3. UNCHANGED ledger
  BY DEF Claim
<1>4. RunTypes'
  BY <1>1, <1>2, <1>3, TakenUp, Types DEF IInv, RunTypes, Claim, jobVars
<1>5. TypeOK'
  BY <1>1, <1>2, <1>3, <1>4, TakenUp, SameTypes, TypesNext DEF IInv, Claim, boundVars
<1>6. UNCHANGED <<todo, request, sweep, check>>
  BY DEF Claim, jobVars
<1> QED BY <1>1, <1>2, <1>3, <1>5, <1>6, TakenUp, RunnerMoves

LEMMA TakeOverKeeps == ASSUME IInv, NEW j \in Jobs, TakeOver(j) PROVE IInv'
<1>1. PICK v \in todo[j] : TakeUp(j, v) /\ todo' = [todo EXCEPT ![j] = @ \ {v}]
  BY DEF TakeOver
<1>2. v \in Recorded /\ j \in Runners
  BY DEF IInv, RunnersHold, Runners
<1>3. UNCHANGED ledger
  BY DEF TakeOver
<1>4. todo' \in [Jobs -> SUBSET Versions] /\ \A i \in Jobs : todo'[i] \subseteq todo[i]
  BY <1>1 DEF IInv, TypeOK
<1>5. RunTypes'
  BY <1>1, <1>2, <1>3, <1>4, TakenUp, Types DEF IInv, RunTypes, TakeOver
<1>6. TypeOK'
  BY <1>1, <1>2, <1>3, <1>5, TakenUp, SameTypes, TypesNext DEF IInv, TakeOver, boundVars
<1>7. UNCHANGED <<request, sweep, check>>
  BY DEF TakeOver
<1> QED BY <1>1, <1>2, <1>3, <1>4, <1>6, <1>7, TakenUp, RunnerMoves
\* A submission moves only its own runner, and stays with its record.
LEMMA PcMoved ==
  ASSUME IInv, NEW r \in Runners, NEW s \in {"idle", "poll", "submit", "confirm", "fail"},
         pc' = [pc EXCEPT ![r] = s], UNCHANGED <<at, jobVars>>
  PROVE  /\ RunTypes' /\ pc'[r] = s /\ UNCHANGED <<at, todo>>
         /\ \A q \in Runners : q # r => pc'[q] = pc[q] /\ at'[q] = at[q]
  BY Types DEF IInv, RunTypes, jobVars

LEMMA SubmitKeeps == ASSUME IInv, NEW r \in Runners, Submit(r) PROVE IInv'
<1>1. at[r] \in Recorded /\ at[r] \in Versions
  BY RecordedAreVersions DEF IInv, RunnersHold, Submit, Busy
<1>2. outbox[at[r]].hash # None
  BY <1>1 DEF IInv, RecordsHold
<1>3. UNCHANGED outbox
  BY DEF Submit
<1>4. Grows /\ RecordsHold' /\ CommitTypes' /\ ledger'[at[r]] # None
  <2>1. CASE ledger[at[r]] = None
    <3>1. ledger' = [ledger EXCEPT ![at[r]] = outbox[at[r]].hash]
      BY <2>1 DEF Submit
    <3>2. Grows /\ RecordsHold' /\ ledger' \in [Versions -> Contents \cup {None}]
      BY <1>1, <1>3, <2>1, <3>1, LedgerWritten DEF IInv
    <3>3. ledger'[at[r]] # None
      BY <1>1, <1>2, <3>1 DEF IInv, TypeOK
    <3> QED BY <1>3, <3>2, <3>3, Types DEF IInv, CommitTypes
  <2>2. CASE ledger[at[r]] # None
    <3>1. UNCHANGED commitVars
      BY <1>3, <2>2 DEF Submit, commitVars
    <3> QED BY <2>2, <3>1, Unchanged, Types DEF IInv, CommitTypes, commitVars
  <2> QED BY <2>1, <2>2
<1> DEFINE s == IF ledger'[at[r]] = outbox[at[r]].hash THEN "confirm" ELSE "fail"
<1>5. s \in {"idle", "poll", "submit", "confirm", "fail"} /\ pc' = [pc EXCEPT ![r] = s]
  BY DEF Submit
<1>6. UNCHANGED <<at, jobVars, request, sweep, check>>
  BY DEF Submit
<1> HIDE DEF s
<1>7. /\ RunTypes' /\ UNCHANGED <<at, todo>>
      /\ \A q \in Runners : q # r => pc'[q] = pc[q] /\ at'[q] = at[q]
  BY <1>5, <1>6, PcMoved
<1>8. TypeOK'
  BY <1>4, <1>7, SameTypes, TypesNext DEF IInv, Submit, boundVars
<1>9. at'[r] \in Recorded' /\ ledger'[at'[r]] # None
  BY <1>1, <1>4, <1>7 DEF Grows
<1> QED BY <1>4, <1>6, <1>7, <1>8, <1>9, RunnerMoves

LEMMA SubmitFailsKeeps == ASSUME IInv, NEW r \in Runners, SubmitFails(r) PROVE IInv'
<1>1. at[r] \in Recorded /\ at[r] \in Versions
  BY RecordedAreVersions DEF IInv, RunnersHold, SubmitFails, Busy
<1>2. UNCHANGED outbox
  BY DEF SubmitFails
<1>3. Grows /\ RecordsHold' /\ CommitTypes'
  <2>1. CASE UNCHANGED ledger
    BY <1>2, <2>1, Unchanged, Types DEF IInv, CommitTypes, commitVars
  <2>2. CASE ledger[at[r]] = None /\ ledger' = [ledger EXCEPT ![at[r]] = outbox[at[r]].hash]
    BY <1>1, <1>2, <2>2, LedgerWritten, Types DEF IInv, CommitTypes
  <2> QED BY <2>1, <2>2 DEF SubmitFails
<1>4. pc' = [pc EXCEPT ![r] = "fail"] /\ UNCHANGED <<at, jobVars, request, sweep, check>>
  BY DEF SubmitFails
<1>5. /\ RunTypes' /\ pc'[r] = "fail" /\ UNCHANGED <<at, todo>>
      /\ \A q \in Runners : q # r => pc'[q] = pc[q] /\ at'[q] = at[q]
  BY <1>4, PcMoved
<1>6. BoundTypes'
  BY Types, EventTypes DEF IInv, SubmitFails
<1>7. TypeOK'
  BY <1>3, <1>5, <1>6, SameTypes, TypesNext DEF IInv, SubmitFails
<1>8. at'[r] \in Recorded'
  BY <1>1, <1>3, <1>5 DEF Grows
<1> QED BY <1>3, <1>4, <1>5, <1>7, <1>8, RunnerMoves

LEMMA Released ==
  ASSUME IInv, NEW r \in Runners, at[r] \in Recorded,
         NEW s \in {"PENDING", "PROCESSING", "CONFIRMED", "FAILED"},
         s = "CONFIRMED" => ledger[at[r]] # None, Release(r, s)
  PROVE  IInv'
<1>1. Grows /\ RecordsHold' /\ outbox' \in [Versions -> Record]
  BY StatusSet DEF IInv, Release
<1>2. CommitTypes'
  BY <1>1, Types DEF IInv, CommitTypes, Release
<1>3. /\ RunTypes' /\ pc'[r] = "idle" /\ UNCHANGED <<todo, request, sweep, check>>
      /\ \A q \in Runners : q # r => pc'[q] = pc[q] /\ at'[q] = at[q]
  BY Types, OneIsVersion DEF IInv, RunTypes, Release, jobVars
<1>4. TypeOK'
  BY <1>2, <1>3, SameTypes, TypesNext DEF IInv, Release, boundVars
<1> QED BY <1>1, <1>3, <1>4, RunnerMoves DEF Busy

LEMMA ConfirmKeeps == ASSUME IInv, NEW r \in Runners, Confirm(r) PROVE IInv'
<1>1. at[r] \in Recorded /\ ledger[at[r]] # None
  BY DEF IInv, RunnersHold, Confirm, Busy
<1> QED BY <1>1, Released DEF Confirm

LEMMA FailKeeps == ASSUME IInv, NEW r \in Runners, Fail(r) PROVE IInv'
<1>1. at[r] \in Recorded
  BY DEF IInv, RunnersHold, Fail, Busy
<1>2. CASE Release(r, "FAILED")
  BY <1>1, <1>2, Released
<1>3. CASE Release(r, "PENDING")
  BY <1>1, <1>3, Released
<1> QED BY <1>2, <1>3 DEF Fail

LEMMA StartJobKeeps == ASSUME IInv, NEW j \in Jobs, StartJob(j) PROVE IInv'
<1>1. PICK S \in ResetSets :
         outbox' = [v \in Versions |-> IF v \in S THEN [outbox[v] EXCEPT !.status = "PENDING"]
                                       ELSE outbox[v]]
  BY DEF StartJob
<1>2. S \subseteq Recorded
  BY DEF ResetSets, Recorded, HasStatus
<1>3. outbox \in [Versions -> Record] /\ \A v \in Versions : outbox[v] \in Record
  BY DEF IInv, TypeOK
<1>4. ASSUME NEW v \in Versions
      PROVE  /\ outbox'[v] \in Record
             /\ outbox'[v].hash = outbox[v].hash
             /\ outbox'[v].prev = outbox[v].prev
             /\ v \in S => outbox'[v].status = "PENDING"
             /\ v \notin S => outbox'[v].status = outbox[v].status
  <2>1. CASE v \in S
    <3>1. outbox'[v] = [outbox[v] EXCEPT !.status = "PENDING"]
      BY <1>1, <2>1
    <3> QED BY <1>3, <2>1, <3>1 DEF Record
  <2>2. CASE v \notin S
    <3>1. outbox'[v] = outbox[v]
      BY <1>1, <2>2
    <3> QED BY <1>3, <2>2, <3>1
  <2> QED BY <2>1, <2>2
<1>5. outbox' \in [Versions -> Record]
  <2>1. \A v \in Versions : outbox'[v] \in Record
    BY <1>4
  <2>2. outbox' = [v \in Versions |-> outbox'[v]]
    BY <1>1
  <2> QED BY <2>1, <2>2
<1>6. Recorded' = Recorded
  BY <1>2, <1>4 DEF Recorded, HasStatus
<1>7. \A u \in Confirmed' : ledger[u] # None
  BY <1>4 DEF IInv, RecordsHold, Confirmed, HasStatus
<1>8. UNCHANGED ledger
  BY DEF StartJob
<1>9. Grows /\ RecordsHold'
  BY <1>4, <1>5, <1>6, <1>7, <1>8, Restated DEF IInv
<1>10. CommitTypes' /\ BoundTypes'
  BY <1>5, Types, EventTypes DEF IInv, CommitTypes, StartJob
<1>11. RunTypes'
  BY Types DEF IInv, RunTypes, StartJob
<1>12. TypeOK'
  BY <1>10, <1>11, SameTypes, TypesNext DEF IInv, StartJob
<1> QED BY <1>9, <1>12, OthersKept DEF StartJob

LEMMA PollKeeps == ASSUME IInv, NEW w \in Workers, Poll(w) \/ EndPoll(w) PROVE IInv'
<1>1. PICK s \in {"poll", "idle"} : pc' = [pc EXCEPT ![w] = s]
  BY DEF Poll, EndPoll
<1>2. UNCHANGED <<at, jobVars, request, sweep, check>> /\ w \in Runners
  BY DEF Poll, EndPoll, Runners
<1>3. Grows /\ RecordsHold'
  BY Unchanged DEF IInv, Poll, EndPoll
<1>4. /\ RunTypes' /\ pc'[w] = s /\ UNCHANGED <<at, todo>>
      /\ \A q \in Runners : q # w => pc'[q] = pc[q] /\ at'[q] = at[q]
  BY <1>1, <1>2, PcMoved
<1>5. TypeOK'
  BY <1>4, SameTypes, TypesNext DEF IInv, Poll, EndPoll, boundVars
<1>6. ~Busy(w)' /\ pc'[w] # "confirm"
  BY <1>4 DEF Busy
<1> QED BY <1>2, <1>3, <1>4, <1>5, <1>6, RunnerMoves

LEMMA AbandonKeeps == ASSUME IInv, NEW r \in Runners, Abandon(r) PROVE IInv'
<1>1. Grows /\ RecordsHold'
  BY Unchanged DEF IInv, Abandon
<1>2. /\ RunTypes' /\ pc'[r] = "idle" /\ UNCHANGED <<todo, request, sweep, check>>
      /\ \A q \in Runners : q # r => pc'[q] = pc[q] /\ at'[q] = at[q]
  BY Types, OneIsVersion DEF IInv, RunTypes, Abandon, jobVars
<1>3. BoundTypes'
  BY Types, EventTypes DEF IInv, Abandon
<1>4. TypeOK'
  BY <1>2, <1>3, SameTypes, TypesNext DEF IInv, Abandon
<1> QED BY <1>1, <1>2, <1>4, RunnerMoves DEF Busy

LEMMA ListPendingKeeps == ASSUME IInv, NEW j \in Jobs, ListPending(j) PROVE IInv'
<1>1. Grows /\ RecordsHold'
  BY Unchanged DEF IInv, ListPending
<1>2. HasStatus({"PENDING"}) \subseteq Recorded /\ HasStatus({"PENDING"}) \subseteq Versions
  BY DEF Recorded, HasStatus
<1>3. RunTypes'
  BY <1>2, Types DEF IInv, RunTypes, ListPending
<1>4. TypeOK'
  BY <1>3, SameTypes, TypesNext DEF IInv, ListPending, boundVars
<1>5. UNCHANGED <<outbox, ledger, pc, at, request, sweep, check>>
  BY DEF ListPending, commitVars
<1>6. \A i \in Jobs : todo'[i] \subseteq Recorded
  <2>1. \A i \in Jobs : todo'[i] = todo[i] \/ todo'[i] = HasStatus({"PENDING"})
    BY DEF ListPending, IInv, TypeOK
  <2> QED BY <1>2, <2>1 DEF IInv, RunnersHold
<1>7. Recorded' = Recorded
  BY <1>5 DEF Recorded, HasStatus
<1>8. RunnersHold'
  BY <1>5, <1>6, <1>7 DEF IInv, RunnersHold, Busy
<1> QED BY <1>1, <1>4, <1>5, <1>8, AllRequestsKept, SweepKept, ChecksKept DEF IInv

LEMMA EndJobKeeps == ASSUME IInv, NEW j \in Jobs, EndJob(j) PROVE IInv'
<1>1. Grows /\ RecordsHold'
  BY Unchanged DEF IInv, EndJob
<1>2. RunTypes'
  BY Types DEF IInv, RunTypes, EndJob
<1>3. TypeOK'
  BY <1>2, SameTypes, TypesNext DEF IInv, EndJob, boundVars
<1>4. \A i \in Jobs : todo'[i] \subseteq todo[i]
  BY DEF EndJob, IInv, TypeOK
<1>5. j \in Runners /\ pc'[j] = "idle" /\ UNCHANGED <<pc, at, request, sweep, check>>
  BY DEF EndJob, Runners
<1> QED BY <1>1, <1>3, <1>4, <1>5, RunnerMoves DEF Busy
\* A step of the reconciler.
LEMMA SweepMoves ==
  ASSUME IInv, Grows, RecordsHold', SweepHolds', CommitTypes', SweepTypes', BoundTypes',
         UNCHANGED <<examVars, request, runVars, check, writes>>
  PROVE  IInv'
<1>1. TypeOK'
  BY SameTypes, TypesNext DEF IInv
<1>2. UNCHANGED <<pc, at, todo>>
  BY DEF runVars, jobVars
<1> QED BY <1>1, <1>2, AllRequestsKept, RunnersKept, ChecksKept DEF IInv

LEMMA IdleSweepHolds == ASSUME sweep' = IdleSweep PROVE SweepHolds' /\ SweepTypes'
  BY OneIsVersion DEF SweepHolds, SweepTypes, IdleSweep

LEMMA AuditFailedKeeps == ASSUME IInv, AuditFailed PROVE IInv'
<1>1. PICK v \in HasStatus({"FAILED"}) :
         \/ /\ sweep' = [sweep EXCEPT !.version = v,
                            !.at = IF ledger[v] = None THEN "missing" ELSE "found"]
            /\ UNCHANGED events
         \/ Event /\ sweep' = [sweep EXCEPT !.version = v, !.at = "missing"]
  BY DEF AuditFailed
<1>2. v \in Recorded /\ v \in Versions
  BY DEF Recorded, HasStatus
<1>3. Grows /\ RecordsHold' /\ CommitTypes'
  BY Unchanged, Types, SameTypes DEF IInv, AuditFailed
<1>4. sweep \in [at: {"idle", "found", "missing", "refill"},
                version: Versions, doc: Contents \cup {None}]
  BY Types DEF IInv, SweepTypes
<1>5. /\ sweep'.at \in {"found", "missing"} /\ sweep'.version = v /\ SweepTypes'
      /\ sweep'.at = "found" => ledger[v] # None
  BY <1>1, <1>2, <1>4 DEF SweepTypes
<1>6. SweepHolds'
  BY <1>2, <1>3, <1>5 DEF SweepHolds, Grows
<1>7. BoundTypes'
  <2>1. UNCHANGED writes /\ (Event \/ UNCHANGED events)
    BY <1>1 DEF AuditFailed
  <2>2. BoundTypes
    BY Types DEF IInv
  <2> QED BY <2>1, <2>2, EventTypes DEF BoundTypes
<1> QED BY <1>3, <1>5, <1>6, <1>7, SweepMoves DEF AuditFailed

LEMMA SettleFailedKeeps == ASSUME IInv, SettleFailed PROVE IInv'
<1>1. PICK s \in {"PENDING", "CONFIRMED"} :
         /\ SetStatus(sweep.version, s)
         /\ sweep.at \in {"found", "missing"}
         /\ s = "CONFIRMED" => sweep.at = "found"
  BY DEF SettleFailed
<1>2. sweep.version \in Recorded /\ (s = "CONFIRMED" => ledger[sweep.version] # None)
  BY <1>1 DEF IInv, SweepHolds
<1>3. UNCHANGED ledger
  BY DEF SettleFailed
<1>4. Grows /\ RecordsHold' /\ outbox' \in [Versions -> Record]
  BY <1>1, <1>2, <1>3, StatusSet DEF IInv
<1>5. CommitTypes' /\ BoundTypes'
  BY <1>3, <1>4, Types, SameTypes DEF IInv, CommitTypes, SettleFailed
<1> QED BY <1>4, <1>5, IdleSweepHolds, SweepMoves DEF SettleFailed, boundVars

LEMMA ReadUncommittedKeeps == ASSUME IInv, ReadUncommitted PROVE IInv'
<1>1. Grows /\ RecordsHold' /\ CommitTypes' /\ BoundTypes'
  BY Unchanged, SameTypes DEF IInv, ReadUncommitted
<1>2. sweep'.at = "refill" /\ sweep'.doc = exam /\ SweepTypes'
  BY ExamIsContent, OneIsVersion DEF IInv, ReadUncommitted, IdleSweep, SweepTypes
<1>3. SweepHolds'
  BY <1>2, ExamIsContent DEF IInv, SweepHolds
<1> QED BY <1>1, <1>2, <1>3, SweepMoves DEF ReadUncommitted, boundVars

LEMMA RefillKeeps == ASSUME IInv, Refill PROVE IInv'
<1>1. sweep.doc \in Contents
  BY DEF IInv, TypeOK, SweepHolds, Refill
<1>2. Grows /\ RecordsHold' /\ outbox' \in [Versions -> Record]
  BY <1>1, Created, OneIsVersion DEF IInv, Refill
<1>3. CommitTypes' /\ BoundTypes'
  BY <1>2, Types, SameTypes DEF IInv, CommitTypes, Refill
<1> QED BY <1>2, <1>3, IdleSweepHolds, SweepMoves DEF Refill, boundVars

\* A step of a verification: the others keep what they hold.
LEMMA CheckMoves ==
  ASSUME IInv, NEW k \in Checks, NEW new \in Verifications,
         check' = [check EXCEPT ![k] = new],
         new.at # "idle" => new.doc # None,
         new.at = "valid" => \E v \in Versions : ledger[v] = new.doc,
         new.at \in {"pending", "alarm"} =>
            \E v \in Versions : ledger[v] \notin {None, new.doc},
         BoundTypes', UNCHANGED <<examVars, commitVars, request, runVars, sweep, writes>>
  PROVE  IInv'
<1>1. Grows /\ RecordsHold'
  BY Unchanged DEF IInv
<1>2. UNCHANGED <<ledger, pc, at, todo>>
  BY DEF runVars, jobVars, commitVars
<1>3. ASSUME NEW i \in Checks
      PROVE  /\ check'[i].at # "idle" => check'[i].doc # None
             /\ check'[i].at = "valid" => \E v \in Versions : ledger'[v] = check'[i].doc
             /\ check'[i].at \in {"pending", "alarm"} =>
                   \E v \in Versions : ledger'[v] \notin {None, check'[i].doc}
  <2>1. CASE i = k
    <3>1. check'[i] = new
      BY <2>1 DEF IInv, TypeOK
    <3> QED BY <1>2, <3>1
  <2>2. CASE i # k
    BY <1>1, <2>2, CheckKept DEF IInv
  <2> QED BY <2>1, <2>2
<1>4. ChecksHold'
  BY <1>3 DEF ChecksHold
<1>5. CheckTypes'
  BY Types DEF IInv, CheckTypes
<1>6. TypeOK'
  BY <1>5, SameTypes, TypesNext DEF IInv
<1> QED BY <1>1, <1>2, <1>4, <1>6, AllRequestsKept, RunnersKept, SweepKept DEF IInv

LEMMA Checked ==
  ASSUME IInv, NEW k \in Checks, check[k].at # "idle"
  PROVE  check[k] \in Verifications /\ check[k].doc # None /\ check[k].version \in Versions
  BY Types DEF IInv, CheckTypes, Verifications, ChecksHold

LEMMA FinishKeeps ==
  ASSUME IInv, NEW k \in Checks, Finish(k),
         UNCHANGED <<examVars, commitVars, request, runVars, sweep, boundVars>>
  PROVE  IInv'
<1>1. NoCheck \in Verifications /\ NoCheck.at = "idle"
  BY OneIsVersion DEF NoCheck, Verifications
<1>2. check' = [check EXCEPT ![k] = NoCheck]
  BY DEF Finish
<1>3. BoundTypes' /\ UNCHANGED writes
  BY SameTypes DEF IInv, boundVars
<1> QED BY <1>1, <1>2, <1>3, CheckMoves

LEMMA ProceedKeeps ==
  ASSUME IInv, NEW k \in Checks, check[k].at # "idle",
         NEW step \in {"pending", "valid", "alarm"}, Proceed(k, step),
         step = "valid" => \E v \in Versions : ledger[v] = check[k].doc,
         step # "valid" => \E v \in Versions : ledger[v] \notin {None, check[k].doc},
         UNCHANGED <<examVars, commitVars, request, runVars, sweep, boundVars>>
  PROVE  IInv'
<1> DEFINE new == [check[k] EXCEPT !.at = step, !.version = 1]
<1>1. check' = [check EXCEPT ![k] = new]
  BY DEF Proceed
<1>2. new \in Verifications /\ new.at = step /\ new.doc = check[k].doc
  BY Checked, OneIsVersion DEF Verifications
<1>3. BoundTypes' /\ UNCHANGED writes
  BY SameTypes DEF IInv, boundVars
<1>4. check[k].doc # None
  BY Checked
<1> HIDE DEF new
<1> QED BY <1>1, <1>2, <1>3, <1>4, CheckMoves

LEMMA ReadExamKeeps == ASSUME IInv, NEW k \in Checks, ReadExam(k) PROVE IInv'
<1> DEFINE new == [at |-> "version", doc |-> exam, version |-> 1]
<1>1. check' = [check EXCEPT ![k] = new]
  BY DEF ReadExam
<1>2. new \in Verifications /\ new.at = "version" /\ new.doc # None
  BY ExamIsContent, OneIsVersion DEF IInv, Verifications
<1>3. BoundTypes'
  BY Types, EventTypes DEF IInv, ReadExam
<1> HIDE DEF new
<1> QED BY <1>1, <1>2, <1>3, CheckMoves DEF ReadExam

LEMMA ReadVersionKeeps == ASSUME IInv, NEW k \in Checks, ReadVersion(k) PROVE IInv'
<1> DEFINE new == [check[k] EXCEPT !.at = "ask", !.version = LatestVersion]
<1>1. check' = [check EXCEPT ![k] = new]
  BY DEF ReadVersion
<1>2. check[k] \in Verifications /\ check[k].doc # None
  BY Checked DEF ReadVersion
<1>3. new \in Verifications /\ new.at = "ask" /\ new.doc # None
  BY <1>2, Latest DEF Verifications
<1>4. BoundTypes' /\ UNCHANGED writes
  BY SameTypes DEF IInv, ReadVersion, boundVars
<1> HIDE DEF new
<1> QED BY <1>1, <1>3, <1>4, CheckMoves DEF ReadVersion

LEMMA AskLedgerKeeps == ASSUME IInv, NEW k \in Checks, AskLedger(k) PROVE IInv'
<1>1. check[k].at # "idle" /\ check[k].version \in Versions
  BY Checked DEF AskLedger
<1>2. CASE Verdict(k) = "HASH_MATCH" /\ Proceed(k, "valid")
  <2>1. ledger[check[k].version] = check[k].doc
    BY <1>2 DEF Verdict
  <2> QED BY <1>1, <1>2, <2>1, ProceedKeeps DEF AskLedger
<1>3. CASE Verdict(k) = "HASH_MISMATCH" /\ Proceed(k, "pending")
  <2>1. ledger[check[k].version] \notin {None, check[k].doc}
    BY <1>3 DEF Verdict
  <2> QED BY <1>1, <1>3, <2>1, ProceedKeeps DEF AskLedger
<1>4. CASE Verdict(k) = "COMMITMENT_NOT_FOUND" /\ Finish(k)
  BY <1>4, FinishKeeps DEF AskLedger
<1> QED BY <1>2, <1>3, <1>4 DEF AskLedger

LEMMA LookForPendingKeeps == ASSUME IInv, NEW k \in Checks, LookForPending(k) PROVE IInv'
<1>1. CASE Proceed(k, "alarm")
  <2>1. check[k].at # "idle" /\ \E v \in Versions : ledger[v] \notin {None, check[k].doc}
    BY DEF LookForPending, IInv, ChecksHold
  <2> QED BY <1>1, <2>1, ProceedKeeps DEF LookForPending
<1>2. CASE Finish(k)
  BY <1>2, FinishKeeps DEF LookForPending
<1> QED BY <1>1, <1>2 DEF LookForPending

-----------------------------------------------------------------------------
(* The theorems.                                                           *)

LEMMA InitHolds == Init => IInv
<1> SUFFICES ASSUME Init PROVE IInv
  OBVIOUS
<1>1. Recorded = {} /\ Confirmed = {}
  BY DEF Init, Recorded, Confirmed, HasStatus, NoRecord
<1>2. ExamTypes /\ BoundTypes
  BY BoundAssumption DEF Init, ExamTypes, BoundTypes, Contents
<1>3. CommitTypes /\ RunTypes
  BY OneIsVersion DEF Init, CommitTypes, RunTypes, NoRecord, Record
<1>4. RequestTypes /\ SweepTypes /\ CheckTypes
  BY OneIsVersion, NoRequestType
     DEF Init, RequestTypes, SweepTypes, CheckTypes, Verifications, IdleSweep, NoCheck
<1>5. RecordsHold
  BY <1>1 DEF Init, RecordsHold
<1>6. RequestsHold /\ RunnersHold /\ SweepHolds /\ ChecksHold
  BY DEF Init, RequestsHold, RunnersHold, SweepHolds, ChecksHold, NoRequest, IdleSweep,
         Busy, NoCheck
<1> QED BY <1>2, <1>3, <1>4, <1>5, <1>6, Types DEF IInv

LEMMA StepKeeps == IInv /\ [Next]_vars => IInv'
<1> SUFFICES ASSUME IInv, [Next]_vars PROVE IInv'
  OBVIOUS
<1>1. CASE EnqueueFirst \/ EnqueueFirstLost \/ EditExam
  BY <1>1, EnqueueFirstKeeps, EnqueueFirstLostKeeps, EditExamKeeps
<1>2. ASSUME NEW a \in Admins, Request(a) PROVE IInv'
  BY <1>2, UpdateExamKeeps, ReadLatestKeeps, EnqueueNextKeeps, EnqueueNextLostKeeps DEF Request
<1>3. ASSUME NEW w \in Workers, Polling(w) PROVE IInv'
  BY <1>3, PollKeeps, ClaimKeeps DEF Polling
<1>4. ASSUME NEW r \in Runners, Run(r) PROVE IInv'
  BY <1>4, SubmitKeeps, SubmitFailsKeeps, ConfirmKeeps, FailKeeps, AbandonKeeps DEF Run
<1>5. ASSUME NEW j \in Jobs, Job(j) PROVE IInv'
  BY <1>5, StartJobKeeps, ListPendingKeeps, TakeOverKeeps, EndJobKeeps DEF Job
<1>6. CASE Sweep
  BY <1>6, AuditFailedKeeps, SettleFailedKeeps, ReadUncommittedKeeps, RefillKeeps DEF Sweep
<1>7. ASSUME NEW k \in Checks, Verification(k) PROVE IInv'
  <2>1. CASE AskFails(k) \/ EndCheck(k)
    BY <2>1, FinishKeeps DEF AskFails, EndCheck
  <2> QED BY <1>7, <2>1, ReadExamKeeps, ReadVersionKeeps, AskLedgerKeeps, LookForPendingKeeps
          DEF Verification
<1>8. CASE UNCHANGED vars
  <2>1. Grows /\ RecordsHold'
    BY <1>8, Unchanged DEF IInv, vars
  <2>2. TypeOK'
    BY <1>8, SameTypes, TypesNext DEF IInv, vars, boundVars
  <2> QED BY <1>8, <2>1, <2>2, OthersKept DEF vars, runVars, jobVars
<1> QED BY <1>1, <1>2, <1>3, <1>4, <1>5, <1>6, <1>7, <1>8 DEF Next

\* IInv is an inductive invariant of the specification.
THEOREM Invariant == Spec => []IInv
  BY InitHolds, StepKeeps, PTL DEF Spec

\* Every variable keeps its type, whatever the requests, jobs and checks do.
THEOREM TypeCorrect == Spec => []TypeOK
<1>1. IInv => TypeOK
  BY DEF IInv
<1> QED BY <1>1, Invariant, PTL

\* A CONFIRMED record's hash is on the ledger: neither a recommit job that takes
\* a record from under the worker nor the sweep's late answer can undo it.
THEOREM ConfirmedHolds == Spec => []ConfirmedVersionHolds
<1>1. IInv => ConfirmedVersionHolds
  BY DEF IInv, RecordsHold, ConfirmedVersionHolds, Confirmed, HasStatus
<1> QED BY <1>1, Invariant, PTL

\* The ledger's versions form a chain of hashes, however the requests of
\* updateExamStatus overlap and whichever of their enqueues are lost.
THEOREM ChainHolds == Spec => []LedgerIsChained
<1>1. IInv => LedgerIsChained
  BY DEF IInv, RecordsHold, LedgerIsChained
<1> QED BY <1>1, Invariant, PTL

\* An exam is reported valid only for a content that is recorded and committed.
THEOREM ValidHolds == Spec => []ValidIsCommitted
<1>1. IInv => ValidIsCommitted
  <2> SUFFICES ASSUME IInv, NEW k \in Checks, check[k].at = "valid"
               PROVE  \E v \in Recorded : /\ ledger[v] = check[k].doc
                                          /\ outbox[v].hash = check[k].doc
    BY DEF ValidIsCommitted
  <2>1. PICK v \in Versions : ledger[v] = check[k].doc
    BY DEF IInv, ChecksHold
  <2>2. check[k].doc # None
    BY DEF IInv, ChecksHold
  <2> QED BY <2>1, <2>2 DEF IInv, RecordsHold
<1> QED BY <1>1, Invariant, PTL

\* A breach is announced only when the ledger holds another content of the exam.
THEOREM AlarmHolds == Spec => []AlarmHasEvidence
<1>1. IInv => AlarmHasEvidence
  BY DEF IInv, ChecksHold, AlarmHasEvidence
<1> QED BY <1>1, Invariant, PTL
=============================================================================
