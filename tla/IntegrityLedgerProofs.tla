------------------------ MODULE IntegrityLedgerProofs ------------------------
(***************************************************************************)
(* Theorems of IntegrityLedger, for any number of ids, hashes and clients. *)
(***************************************************************************)
EXTENDS IntegrityLedger, SequenceTheorems, TLAPS

\* A channel nobody has used is well typed.
LEMMA InitTypeOK == Init => LedgerTypeOK
  <1> SUFFICES ASSUME Init PROVE LedgerTypeOK
    OBVIOUS
  <1>1. genesis \in BOOLEAN
    BY Zenon DEF Init
  <1>2. /\ record \in [Ids -> Hashes \cup {None}]
        /\ height \in Nat /\ heightVersion \in Nat
        /\ index \in Seq(Ids)
        /\ tx \in [Clients -> CreateTx \cup {NoTx, InitTx}]
        /\ answered \subseteq Entry
        /\ order \in Seq(Ids) /\ forgotten \in Nat
    BY DEF Init, NoTx
  <1> QED
    BY <1>1, <1>2 DEF LedgerTypeOK

\* The shapes of a transaction are told apart by their kind.
LEMMA TxKinds ==
    /\ NoTx.kind = "none" /\ InitTx.kind = "init"
    /\ \A t \in CreateTx : t.kind = "create"
  BY DEF NoTx, InitTx, CreateTx

\* SetIndex writes one entry, at the end or within.
LEMMA SetIndexTyped ==
    ASSUME index \in Seq(Ids), NEW h \in Nat, NEW id \in Ids, SetIndex(h, id)
    PROVE  index' \in Seq(Ids)
  <1>1. CASE h <= Len(index)
    <2>1. index' = [index EXCEPT ![h] = id]
      BY <1>1 DEF SetIndex
    <2>2. CASE h = 0
      <3>1. index' = index
        BY <2>1, <2>2
      <3> QED
        BY <3>1
    <2>3. CASE h \in 1..Len(index)
      BY <2>1, <2>3, ExceptSeq
    <2> QED
      BY <1>1, <2>2, <2>3
  <1>2. CASE ~(h <= Len(index))
    BY <1>2 DEF SetIndex
  <1> QED
    BY <1>1, <1>2

LEMMA NextTypeOK == LedgerTypeOK /\ [Next]_vars => LedgerTypeOK'
  <1> SUFFICES ASSUME LedgerTypeOK, [Next]_vars PROVE LedgerTypeOK'
    OBVIOUS
  <1>1. ASSUME NEW c \in Clients, NEW id \in Ids, NEW hash \in Hashes,
               EndorseCreate(c, id, hash)
        PROVE  LedgerTypeOK'
    BY <1>1 DEF EndorseCreate, LedgerTypeOK, CreateTx
  <1>2. ASSUME NEW c \in Clients, EndorseInit(c)
        PROVE  LedgerTypeOK'
    BY <1>2 DEF EndorseInit, LedgerTypeOK
  <1>3. ASSUME NEW c \in Clients, CommitCreate(c)
        PROVE  LedgerTypeOK'
    <2>1. tx[c] \in CreateTx
      BY <1>3, TxKinds DEF CommitCreate, LedgerTypeOK
    <2>2. /\ tx[c].id \in Ids /\ tx[c].hash \in Hashes
          /\ tx[c].newHeight \in Nat
      BY <2>1 DEF CreateTx
    <2>3. index' \in Seq(Ids)
      BY <1>3, <2>2, SetIndexTyped DEF CommitCreate, LedgerTypeOK
    <2>4. answered' \subseteq Entry
      BY <1>3, <2>2 DEF CommitCreate, LedgerTypeOK, Entry
    <2>5. order' \in Seq(Ids)
      BY <1>3, <2>2, AppendProperties DEF CommitCreate, LedgerTypeOK
    <2> QED
      BY <1>3, <2>2, <2>3, <2>4, <2>5 DEF CommitCreate, LedgerTypeOK
  <1>4. ASSUME NEW c \in Clients, InvalidateCreate(c)
        PROVE  LedgerTypeOK'
    BY <1>4 DEF InvalidateCreate, LedgerTypeOK
  <1>5. ASSUME NEW c \in Clients, CommitInit(c)
        PROVE  LedgerTypeOK'
    <2>1. /\ genesis' \in BOOLEAN
          /\ height' \in Nat
          /\ heightVersion' \in Nat
          /\ forgotten' \in Nat
      <3>1. CASE genesis
        BY <1>5, <3>1 DEF CommitInit, LedgerTypeOK
      <3>2. CASE ~genesis
        BY <1>5, <3>2 DEF CommitInit, LedgerTypeOK
      <3> QED
        BY <3>1, <3>2
    <2> QED
      BY <1>5, <2>1 DEF CommitInit, LedgerTypeOK
  <1>6. ASSUME NEW c \in Clients, DropTx(c)
        PROVE  LedgerTypeOK'
    BY <1>6 DEF DropTx, LedgerTypeOK
  <1>7. CASE UNCHANGED vars
    BY <1>7 DEF vars, LedgerTypeOK
  <1> QED
    BY <1>1, <1>2, <1>3, <1>4, <1>5, <1>6, <1>7 DEF Next

\* The world state keeps its type, whenever initLedger is invoked.
THEOREM LedgerTypes == Spec => []LedgerTypeOK
  BY InitTypeOK, NextTypeOK, PTL DEF Spec

-----------------------------------------------------------------------------
\* What a client was told is on the ledger, as it was told.
AnsweredIsRecorded == \A e \in answered : record[e.id] = e.hash

LEMMA NextAnswered ==
    LedgerTypeOK /\ AnsweredIsRecorded /\ [Next]_vars => AnsweredIsRecorded'
  <1> SUFFICES ASSUME LedgerTypeOK, AnsweredIsRecorded, [Next]_vars
               PROVE  AnsweredIsRecorded'
    OBVIOUS
  <1>1. ASSUME NEW c \in Clients, CommitCreate(c)
        PROVE  AnsweredIsRecorded'
    <2>1. /\ tx[c].id \in Ids /\ tx[c].hash \in Hashes
          /\ record[tx[c].id] = None
      BY <1>1, TxKinds
         DEF CommitCreate, CreateIsValid, Exists, LedgerTypeOK, CreateTx
    <2>2. ASSUME NEW e \in answered
          PROVE  record'[e.id] = e.hash
      BY <1>1, <2>1, NoneAssumption
         DEF CommitCreate, LedgerTypeOK, AnsweredIsRecorded, Entry
    <2>3. record'[tx[c].id] = tx[c].hash
      BY <1>1, <2>1 DEF CommitCreate, LedgerTypeOK
    <2> QED
      BY <1>1, <2>2, <2>3 DEF CommitCreate, AnsweredIsRecorded
  <1>2. ASSUME UNCHANGED <<record, answered>>
        PROVE  AnsweredIsRecorded'
    BY <1>2 DEF AnsweredIsRecorded
  <1> QED
    BY <1>1, <1>2
       DEF Next, EndorseCreate, EndorseInit, InvalidateCreate, CommitInit, DropTx, vars

\* A commitment whose client was told COMMITTED verifies ever after with its own
\* hash and with no other, whatever raced for its id and even if initLedger
\* reset the height.
THEOREM LedgerAnsweredVerifies == Spec => []AnsweredVerifies
  <1>1. Init => AnsweredIsRecorded
    BY DEF Init, AnsweredIsRecorded
  <1>2. LedgerTypeOK /\ AnsweredIsRecorded => AnsweredVerifies
    BY DEF AnsweredIsRecorded, AnsweredVerifies, Verifies
  <1> QED
    BY <1>1, <1>2, NextAnswered, LedgerTypes, PTL DEF Spec

-----------------------------------------------------------------------------
(* HEIGHT_INDEX lists the commitments in their order, whenever initLedger  *)
(* is invoked or ordered.                                                  *)

LEMMA InitLedgerInv == Init => LedgerInv
  <1> SUFFICES ASSUME Init PROVE LedgerInv
    OBVIOUS
  <1>1. \A c \in Clients : tx[c].kind = "none"
    BY DEF Init, NoTx
  <1>2. HeightIsCurrent
    BY <1>1 DEF HeightIsCurrent
  <1>3. IndexListsCommits
    BY DEF Init, IndexListsCommits
  <1> QED
    BY <1>2, <1>3, InitTypeOK DEF LedgerInv

\* SetIndex at the position after the height changes no entry below it.
LEMMA SetIndexExtends ==
    ASSUME index \in Seq(Ids), NEW h \in Nat, h <= Len(index), NEW id \in Ids,
           SetIndex(h + 1, id)
    PROVE  /\ h + 1 <= Len(index')
           /\ \A i \in 1..h : index'[i] = index[i]
           /\ index'[h + 1] = id
  <1>1. CASE h + 1 <= Len(index)
    <2>1. index' = [index EXCEPT ![h + 1] = id] /\ h + 1 \in 1..Len(index)
      BY <1>1 DEF SetIndex
    <2> QED
      BY <2>1, ExceptSeq
  <1>2. CASE ~(h + 1 <= Len(index))
    <2>1. index' = Append(index, id) /\ Len(index) = h
      BY <1>2 DEF SetIndex
    <2> QED
      BY <2>1, AppendProperties
  <1> QED
    BY <1>1, <1>2

\* A valid CreateCommitment puts its id, which was not on the ledger, at the
\* next height.
LEMMA CommitExtends ==
    ASSUME LedgerInv, NEW c \in Clients, CommitCreate(c)
    PROVE  /\ tx[c].id \in Ids /\ tx[c].hash \in Hashes
           /\ ~Exists(tx[c].id)
           /\ height' = height + 1
           /\ height + 1 <= Len(index')
           /\ \A i \in 1..height : index'[i] = index[i]
           /\ index'[height + 1] = tx[c].id
           /\ Len(order') = Len(order) + 1
           /\ \A i \in 1..Len(order) : order'[i] = order[i]
           /\ order'[Len(order) + 1] = tx[c].id
           /\ record' = [record EXCEPT ![tx[c].id] = tx[c].hash]
           /\ forgotten' = forgotten
  <1>1. /\ tx[c].id \in Ids /\ tx[c].hash \in Hashes
        /\ ~Exists(tx[c].id)
        /\ tx[c].version = heightVersion
    BY TxKinds DEF CommitCreate, CreateIsValid, LedgerInv, LedgerTypeOK, CreateTx
  <1>2. tx[c].newHeight = height + 1
    BY <1>1 DEF CommitCreate, LedgerInv, HeightIsCurrent
  <1>3. SetIndex(height + 1, tx[c].id)
    BY <1>2 DEF CommitCreate
  <1>4. index \in Seq(Ids) /\ height \in Nat /\ height <= Len(index)
    BY DEF LedgerInv, LedgerTypeOK, IndexListsCommits
  <1>5. /\ height + 1 <= Len(index')
        /\ \A i \in 1..height : index'[i] = index[i]
        /\ index'[height + 1] = tx[c].id
    BY <1>1, <1>3, <1>4, SetIndexExtends
  <1>6. order' = Append(order, tx[c].id) /\ order \in Seq(Ids)
    BY DEF CommitCreate, LedgerInv, LedgerTypeOK
  <1>7. /\ Len(order') = Len(order) + 1
        /\ \A i \in 1..Len(order) : order'[i] = order[i]
        /\ order'[Len(order) + 1] = tx[c].id
    BY <1>1, <1>6, AppendProperties
  <1> QED
    BY <1>1, <1>2, <1>5, <1>7 DEF CommitCreate

LEMMA NextLedgerInv == LedgerInv /\ [Next]_vars => LedgerInv'
  <1> SUFFICES ASSUME LedgerInv, [Next]_vars PROVE LedgerInv'
    OBVIOUS
  <1>0. LedgerTypeOK'
    BY NextTypeOK DEF LedgerInv
  <1>1. ASSUME NEW c \in Clients, NEW id \in Ids, NEW hash \in Hashes,
               EndorseCreate(c, id, hash)
        PROVE  LedgerInv'
    <2>1. HeightIsCurrent'
      BY <1>1 DEF EndorseCreate, LedgerInv, LedgerTypeOK, HeightIsCurrent
    <2>2. IndexListsCommits'
      BY <1>1 DEF EndorseCreate, LedgerInv, IndexListsCommits, Exists
    <2> QED
      BY <1>0, <2>1, <2>2 DEF LedgerInv
  <1>2. ASSUME NEW c \in Clients, CommitCreate(c)
        PROVE  LedgerInv'
    <2>1. HeightIsCurrent'
      <3>1. /\ heightVersion' = heightVersion + 1
            /\ tx' = [tx EXCEPT ![c] = NoTx]
        BY <1>2 DEF CommitCreate
      <3>2. \A d \in Clients : tx'[d] = tx[d] \/ tx'[d].kind = "none"
        BY <3>1, TxKinds DEF LedgerInv, LedgerTypeOK
      <3>3. ASSUME NEW d \in Clients, tx'[d].kind = "create"
            PROVE  tx'[d].version <= heightVersion /\ heightVersion < heightVersion'
        BY <3>1, <3>2, <3>3 DEF LedgerInv, LedgerTypeOK, HeightIsCurrent
      <3>4. ASSUME NEW d \in Clients, tx'[d].kind = "create"
            PROVE  tx'[d].version \in Nat
        BY <3>2, <3>4, TxKinds DEF LedgerInv, LedgerTypeOK, CreateTx
      <3> QED
        BY <3>1, <3>3, <3>4 DEF HeightIsCurrent, LedgerInv, LedgerTypeOK
    <2>2. IndexListsCommits'
      <3>1. /\ height \in Nat /\ forgotten \in Nat
            /\ Len(order) = forgotten + height
            /\ \A i \in 1..height : index[i] = order[forgotten + i]
            /\ \A i \in 1..Len(order) : Exists(order[i])
        BY DEF LedgerInv, IndexListsCommits, LedgerTypeOK
      <3>2. /\ Len(order') = forgotten' + height'
            /\ height' <= Len(index')
        BY <1>2, <3>1, CommitExtends
      <3>3. ASSUME NEW i \in 1..height'
            PROVE  index'[i] = order'[forgotten' + i]
        <4>1. CASE i \in 1..height
          <5>1. forgotten + i \in 1..Len(order)
            BY <3>1, <4>1
          <5> QED
            BY <1>2, <3>1, <4>1, <5>1, CommitExtends
        <4>2. CASE i = height + 1
          BY <1>2, <3>1, <4>2, CommitExtends
        <4> QED
          BY <1>2, <3>1, <4>1, <4>2, CommitExtends
      <3>4. /\ \A id \in Ids : record'[id] = IF id = tx[c].id THEN tx[c].hash
                                                             ELSE record[id]
            /\ tx[c].hash # None
            /\ \A i \in 1..Len(order) : order[i] \in Ids
        BY <1>2, CommitExtends, NoneAssumption DEF LedgerInv, LedgerTypeOK
      <3>5. ASSUME NEW i \in 1..Len(order')
            PROVE  record'[order'[i]] # None
        <4>1. CASE i \in 1..Len(order)
          BY <1>2, <3>1, <3>4, <4>1, CommitExtends DEF Exists
        <4>2. CASE i = Len(order) + 1
          BY <1>2, <3>4, <4>2, CommitExtends
        <4> QED
          BY <1>2, <3>1, <4>1, <4>2, CommitExtends
      <3> QED
        BY <3>2, <3>3, <3>5 DEF IndexListsCommits, Exists
    <2> QED
      BY <1>0, <2>1, <2>2 DEF LedgerInv
  <1>3. ASSUME NEW c \in Clients, InvalidateCreate(c) \/ DropTx(c)
        PROVE  LedgerInv'
    <2>1. /\ tx' = [tx EXCEPT ![c] = NoTx]
          /\ UNCHANGED <<record, height, heightVersion, index, order, forgotten>>
      BY <1>3 DEF InvalidateCreate, DropTx
    <2>2. \A d \in Clients : tx'[d] = tx[d] \/ tx'[d].kind = "none"
      BY <2>1, TxKinds DEF LedgerInv, LedgerTypeOK
    <2>3. HeightIsCurrent'
      BY <2>1, <2>2 DEF LedgerInv, HeightIsCurrent
    <2>4. IndexListsCommits'
      BY <2>1 DEF LedgerInv, IndexListsCommits, Exists
    <2> QED
      BY <1>0, <2>3, <2>4 DEF LedgerInv
  <1>4. ASSUME NEW c \in Clients, EndorseInit(c)
        PROVE  LedgerInv'
    <2>1. /\ tx' = [tx EXCEPT ![c] = InitTx]
          /\ UNCHANGED <<record, height, heightVersion, index, order, forgotten>>
      BY <1>4 DEF EndorseInit
    <2>2. \A d \in Clients : tx'[d] = tx[d] \/ tx'[d].kind = "init"
      BY <2>1, TxKinds DEF LedgerInv, LedgerTypeOK
    <2>3. HeightIsCurrent'
      BY <2>1, <2>2 DEF LedgerInv, HeightIsCurrent
    <2>4. IndexListsCommits'
      BY <2>1 DEF LedgerInv, IndexListsCommits, Exists
    <2> QED
      BY <1>0, <2>3, <2>4 DEF LedgerInv
  <1>5. ASSUME NEW c \in Clients, CommitInit(c)
        PROVE  LedgerInv'
    <2>1. /\ tx' = [tx EXCEPT ![c] = NoTx]
          /\ UNCHANGED <<record, index, order>>
      BY <1>5 DEF CommitInit
    <2>2. \A d \in Clients : tx'[d] = tx[d] \/ tx'[d].kind = "none"
      BY <2>1, TxKinds DEF LedgerInv, LedgerTypeOK
    <2>3. CASE UNCHANGED <<height, heightVersion, forgotten>>
      <3>1. HeightIsCurrent'
        BY <2>2, <2>3 DEF LedgerInv, HeightIsCurrent
      <3>2. IndexListsCommits'
        BY <2>1, <2>3 DEF LedgerInv, IndexListsCommits, Exists
      <3> QED
        BY <1>0, <3>1, <3>2 DEF LedgerInv
    <2>4. CASE height' = 0 /\ heightVersion' = heightVersion + 1 /\ forgotten' = Len(order)
      <3>1. ASSUME NEW d \in Clients, tx'[d].kind = "create"
            PROVE  tx'[d].version <= heightVersion /\ tx'[d].version \in Nat
        BY <2>2, <3>1, TxKinds DEF LedgerInv, LedgerTypeOK, HeightIsCurrent, CreateTx
      <3>2. HeightIsCurrent'
        BY <2>4, <3>1 DEF LedgerInv, LedgerTypeOK, HeightIsCurrent
      <3>3. IndexListsCommits'
        <4>1. order \in Seq(Ids) /\ index \in Seq(Ids)
          BY DEF LedgerInv, LedgerTypeOK
        <4> QED
          BY <2>1, <2>4, <4>1 DEF LedgerInv, IndexListsCommits, Exists
      <3> QED
        BY <1>0, <3>2, <3>3 DEF LedgerInv
    <2> QED
      BY <1>5, <2>3, <2>4 DEF CommitInit
  <1>6. CASE UNCHANGED vars
    BY <1>0, <1>6 DEF vars, LedgerInv, HeightIsCurrent, IndexListsCommits, Exists
  <1> QED
    BY <1>1, <1>2, <1>3, <1>4, <1>5, <1>6 DEF Next

LEMMA LedgerInvariant == Spec => []LedgerInv
  BY InitLedgerInv, NextLedgerInv, PTL DEF Spec

\* GetRecentCommitments answers the newest commitments, newest first, without a
\* gap and as many as were asked for, up to its cap and back to the last time
\* initLedger set the height to 0, whenever that was.
THEOREM LedgerRecentIsComplete == Spec => []RecentIsComplete
  <1>1. LedgerInv => RecentIsComplete
    <2> SUFFICES ASSUME LedgerInv, NEW limit \in 1..(MaxAnswer + 1)
                 PROVE  Recent(limit) =
                          [i \in 1..Least(Len(order) - forgotten, Least(limit, MaxAnswer)) |->
                              order[Len(order) + 1 - i]]
      BY DEF RecentIsComplete
    <2> DEFINE n == Least(height, Least(limit, MaxAnswer))
    <2>1. /\ height \in Nat /\ forgotten \in Nat
          /\ Len(order) = forgotten + height
          /\ Len(order) - forgotten = height
          /\ \A i \in 1..height : index[i] = order[forgotten + i]
      BY DEF LedgerInv, LedgerTypeOK, IndexListsCommits
    <2>2. n \in Nat /\ n <= height
      BY <2>1, LedgerAssumption DEF Least
    <2>3. ASSUME NEW i \in 1..n
          PROVE  index[height + 1 - i] = order[Len(order) + 1 - i]
      <3>1. /\ height + 1 - i \in 1..height
            /\ forgotten + (height + 1 - i) = Len(order) + 1 - i
        BY <2>1, <2>2
      <3> QED
        BY <2>1, <3>1
    <2>4. Recent(limit) = [i \in 1..n |-> index[height + 1 - i]]
      BY DEF Recent
    <2> HIDE DEF n
    <2>5. Recent(limit) = [i \in 1..n |-> order[Len(order) + 1 - i]]
      BY <2>3, <2>4, Zenon
    <2> QED
      BY <2>1, <2>5 DEF n
  <1> QED
    BY <1>1, LedgerInvariant, PTL

\* The log the index stands for is that of the commitments in their order.
LEMMA LogIsOrder ==
    LedgerInv =>
        LogOf = [i \in 1..Len(order) |-> [id |-> order[i], hash |-> record[order[i]]]]
  <1> SUFFICES ASSUME LedgerInv
               PROVE  LogOf = [i \in 1..Len(order) |->
                                  [id |-> order[i], hash |-> record[order[i]]]]
    OBVIOUS
  <1>1. /\ height \in Nat /\ forgotten \in Nat
        /\ Len(order) = forgotten + height
        /\ \A i \in 1..height : index[i] = order[forgotten + i]
    BY DEF LedgerInv, LedgerTypeOK, IndexListsCommits
  <1>2. ASSUME NEW i \in 1..Len(order)
        PROVE  LogId(i) = order[i]
    <2>1. CASE i <= forgotten
      BY <2>1 DEF LogId
    <2>2. CASE ~(i <= forgotten)
      <3>1. i - forgotten \in 1..height /\ forgotten + (i - forgotten) = i
        BY <1>1, <2>2
      <3> QED
        BY <1>1, <2>2, <3>1 DEF LogId
    <2> QED
      BY <2>1, <2>2
  <1> QED
    BY <1>1, <1>2 DEF LogOf

LEMMA LogIsOrderNext ==
    LedgerInv' =>
        LogOf' = [i \in 1..Len(order') |-> [id |-> order'[i], hash |-> record'[order'[i]]]]
  <1>1. (LedgerInv =>
           LogOf = [i \in 1..Len(order) |-> [id |-> order[i], hash |-> record[order[i]]]])'
    BY LogIsOrder, PTL
  <1> QED
    BY <1>1

\* The chaincode under MVCC validation implements the append-only log: every
\* step, a late initLedger too, appends one new entry or leaves the log as it is.
THEOREM LedgerImplementsLog == Spec => ImplementsLog
  <1>1. Init => Log!LogInit
    BY DEF Init, Log!LogInit, LogOf
  <1>2. LedgerInv /\ [Next]_vars => [Log!LogNext]_LogOf
    <2> SUFFICES ASSUME LedgerInv, [Next]_vars PROVE [Log!LogNext]_LogOf
      OBVIOUS
    <2> DEFINE At(i) == [id |-> order[i], hash |-> record[order[i]]]
    <2>1. /\ height \in Nat /\ forgotten \in Nat
          /\ Len(order) = forgotten + height
          /\ \A i \in 1..height : index[i] = order[forgotten + i]
          /\ \A i \in 1..Len(order) : Exists(order[i]) /\ order[i] \in Ids
      BY DEF LedgerInv, LedgerTypeOK, IndexListsCommits
    <2>2. LogOf = [i \in 1..Len(order) |-> At(i)]
      BY LogIsOrder
    <2>3. ASSUME NEW c \in Clients, CommitCreate(c)
          PROVE  Log!LogNext
      <3> DEFINE e == [id |-> tx[c].id, hash |-> tx[c].hash]
      <3>1. e \in Log!Entry
        BY <2>3, CommitExtends DEF Log!Entry
      <3>2. \A i \in 1..Len(order) : order[i] # tx[c].id
        BY <2>1, <2>3, CommitExtends
      <3>3. Len(order) \in Nat
        BY <2>1
      <3>4. LogOf \in Seq(Log!Entry) /\ Len(LogOf) = Len(order)
        <4>1. \A i \in 1..Len(order) : At(i) \in Log!Entry
          BY <2>1 DEF LedgerInv, LedgerTypeOK, Exists, Log!Entry
        <4> HIDE DEF At
        <4> QED
          BY <2>2, <3>3, <4>1
      <3>5. ~Log!Logged(e.id)
        BY <2>2, <3>2, <3>4 DEF Log!Logged
      <3>6. LogOf' = Append(LogOf, e)
        <4>1. LogOf' = [i \in 1..Len(order') |-> At(i)']
          BY <2>3, NextLedgerInv, LogIsOrderNext
        <4>2. \A i \in 1..Len(order) : At(i)' = At(i)
          BY <2>1, <2>3, <3>2, CommitExtends DEF LedgerInv, LedgerTypeOK
        <4>3. [id |-> order'[Len(order) + 1],
               hash |-> record'[order'[Len(order) + 1]]] = e
          BY <2>3, CommitExtends DEF LedgerInv, LedgerTypeOK
        <4>4. Len(order') = Len(order) + 1
          BY <2>3, CommitExtends
        <4>5. LogOf' = [i \in 1..(Len(order) + 1) |->
                          IF i = Len(order) + 1 THEN e ELSE At(i)]
          <5>1. ASSUME NEW i \in 1..Len(order')
                PROVE  At(i)' = IF i = Len(order) + 1 THEN e ELSE At(i)
            <6>1. CASE i = Len(order) + 1
              BY <4>3, <6>1
            <6>2. CASE i # Len(order) + 1
              <7>1. i \in 1..Len(order)
                BY <3>3, <4>4, <6>2
              <7>2. At(i)' = At(i)
                BY <4>2, <7>1
              <7> HIDE DEF At, e
              <7> QED
                BY <6>2, <7>2
            <6> QED
              BY <6>1, <6>2
          <5> HIDE DEF At, e
          <5> QED
            BY <4>1, <4>4, <5>1
        <4>6. Append(LogOf, e) = [i \in 1..(Len(order) + 1) |->
                                    IF i = Len(order) + 1 THEN e ELSE LogOf[i]]
          BY <3>4, AppendProperties, SMT
        <4>7. \A i \in 1..(Len(order) + 1) :
                 i # Len(order) + 1 => LogOf[i] = At(i)
          <5> HIDE DEF At
          <5> QED
            BY <2>2, <3>3
        <4> HIDE DEF e, At
        <4> QED
          BY <4>5, <4>6, <4>7, Zenon
      <3> QED
        BY <3>1, <3>5, <3>6 DEF Log!LogNext, Log!AppendEntry
    <2>4. ASSUME UNCHANGED <<record, order>>
          PROVE  UNCHANGED LogOf
      <3>1. LogOf' = [i \in 1..Len(order') |-> At(i)']
        BY NextLedgerInv, LogIsOrderNext
      <3> QED
        BY <2>2, <2>4, <3>1
    <2> QED
      BY <2>3, <2>4
         DEF Next, EndorseCreate, EndorseInit, InvalidateCreate, CommitInit, DropTx, vars
  <1> QED
    BY <1>1, <1>2, LedgerInvariant, PTL DEF Spec, ImplementsLog, Log!LogSpec
=============================================================================
