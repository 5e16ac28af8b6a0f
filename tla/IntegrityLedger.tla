--------------------------- MODULE IntegrityLedger ---------------------------
(***************************************************************************)
(* The chaincode fabric/chaincode/zeroleak-integrity/src/                  *)
(* integrity-contract.ts on a Fabric channel.                              *)
(*                                                                         *)
(* A transaction is first executed by an endorsing peer against its world  *)
(* state, which records the version of every key it reads, and is applied  *)
(* later, when it is ordered, if all those versions are still current      *)
(* (MVCC).  Between the two any other transaction may be applied.          *)
(* CreateCommitment reads its id and LEDGER_HEIGHT; initLedger reads only  *)
(* GENESIS and sets LEDGER_HEIGHT to 0 without reading it, whenever it is  *)
(* invoked or ordered: no script of the deployment runs it first.          *)
(*                                                                         *)
(* A commitment is an id and a data hash; the other fields and their       *)
(* validation are left out, a client being one that sends valid fields.    *)
(***************************************************************************)
EXTENDS Naturals, Sequences

CONSTANTS
    Ids,            \* commitment ids
    Hashes,         \* data hashes
    Clients,        \* gateways with at most one transaction in flight each
    MaxAnswer       \* commitments GetRecentCommitments answers at most, 100

ASSUME LedgerAssumption == MaxAnswer \in Nat \ {0}

None == "none"
ASSUME NoneAssumption == None \notin Hashes

VARIABLES
    record,         \* the world state under each commitment id
    genesis,        \* is there a GENESIS record?
    height,         \* LEDGER_HEIGHT, 0 when the key does not exist
    heightVersion,  \* how often the key LEDGER_HEIGHT has been written
    index,          \* the ids under HEIGHT_INDEX_1, HEIGHT_INDEX_2, ...
    tx,             \* the transaction each client has in flight
    answered,       \* commitments a client was told are COMMITTED
    order,          \* history: the ids committed, in that order
    forgotten       \* history: how many of them preceded the height set to 0

vars == <<record, genesis, height, heightVersion, index, tx, answered, order, forgotten>>

Entry    == [id: Ids, hash: Hashes]
NoTx     == [kind |-> "none"]
CreateTx == [kind: {"create"}, id: Ids, hash: Hashes, version: Nat, newHeight: Nat]
InitTx   == [kind |-> "init"]

LedgerTypeOK ==
    /\ record \in [Ids -> Hashes \cup {None}]
    /\ genesis \in BOOLEAN
    /\ height \in Nat
    /\ heightVersion \in Nat
    /\ index \in Seq(Ids)
    /\ tx \in [Clients -> CreateTx \cup {NoTx, InitTx}]
    /\ answered \subseteq Entry
    /\ order \in Seq(Ids)
    /\ forgotten \in Nat

\* A channel nobody has used yet (the deployment scripts do not invoke initLedger).
Init ==
    /\ record = [id \in Ids |-> None]
    /\ genesis = FALSE
    /\ height = 0
    /\ heightVersion = 0
    /\ index = <<>>
    /\ tx = [c \in Clients |-> NoTx]
    /\ answered = {}
    /\ order = <<>>
    /\ forgotten = 0

Exists(id) == record[id] # None

-----------------------------------------------------------------------------
(* Endorsement.                                                            *)

\* Mutant: forgets to count the new commitment.
EndorseCreateSameHeight(c, id, hash) ==
    /\ tx[c] = NoTx
    /\ ~Exists(id)
    /\ tx' = [tx EXCEPT ![c] = [kind |-> "create", id |-> id, hash |-> hash,
                                version |-> heightVersion, newHeight |-> height]]
    /\ UNCHANGED <<record, genesis, height, heightVersion, index, answered, order, forgotten>>

\* CreateCommitment: reject a duplicate, read LEDGER_HEIGHT, propose the writes.
EndorseCreate(c, id, hash) ==
    /\ tx[c] = NoTx
    /\ ~Exists(id)
    /\ tx' = [tx EXCEPT ![c] = [kind |-> "create", id |-> id, hash |-> hash,
                                version |-> heightVersion, newHeight |-> height + 1]]
    /\ UNCHANGED <<record, genesis, height, heightVersion, index, answered, order, forgotten>>

\* initLedger: only if there is no GENESIS record.
EndorseInit(c) ==
    /\ tx[c] = NoTx
    /\ ~genesis
    /\ tx' = [tx EXCEPT ![c] = InitTx]
    /\ UNCHANGED <<record, genesis, height, heightVersion, index, answered, order, forgotten>>

-----------------------------------------------------------------------------
(* Commit.                                                                 *)

\* Mutant: the height counter is not part of what is validated.
CreateChecksIdOnly(t) == ~Exists(t.id)

\* Mutant: writes are applied as proposed.
CreateIsAlwaysValid(t) == TRUE

\* Both keys CreateCommitment read are as they were.
CreateIsValid(t) == ~Exists(t.id) /\ heightVersion = t.version

SetIndex(h, id) ==
    index' = IF h <= Len(index) THEN [index EXCEPT ![h] = id] ELSE Append(index, id)

\* The writes of CreateCommitment are applied and its client is answered.
CommitCreate(c) ==
    /\ tx[c].kind = "create"
    /\ CreateIsValid(tx[c])
    /\ record' = [record EXCEPT ![tx[c].id] = tx[c].hash]
    /\ height' = tx[c].newHeight
    /\ heightVersion' = heightVersion + 1
    /\ SetIndex(tx[c].newHeight, tx[c].id)
    /\ answered' = answered \cup {[id |-> tx[c].id, hash |-> tx[c].hash]}
    /\ order' = Append(order, tx[c].id)
    /\ tx' = [tx EXCEPT ![c] = NoTx]
    /\ UNCHANGED <<genesis, forgotten>>

\* The transaction is ordered but invalid: nothing is written.
InvalidateCreate(c) ==
    /\ tx[c].kind = "create"
    /\ ~CreateIsValid(tx[c])
    /\ tx' = [tx EXCEPT ![c] = NoTx]
    /\ UNCHANGED <<record, genesis, height, heightVersion, index, answered, order, forgotten>>

\* The writes of initLedger: GENESIS, and LEDGER_HEIGHT set to 0, unless the
\* GENESIS it found missing exists by now.
CommitInit(c) ==
    /\ tx[c] = InitTx
    /\ IF genesis THEN UNCHANGED <<genesis, height, heightVersion, forgotten>>
       ELSE /\ genesis' = TRUE
            /\ height' = 0
            /\ heightVersion' = heightVersion + 1
            /\ forgotten' = Len(order)
    /\ tx' = [tx EXCEPT ![c] = NoTx]
    /\ UNCHANGED <<record, index, answered, order>>

\* A client gives up, or the transaction never reaches the orderer.
DropTx(c) ==
    /\ tx[c] # NoTx
    /\ tx' = [tx EXCEPT ![c] = NoTx]
    /\ UNCHANGED <<record, genesis, height, heightVersion, index, answered, order, forgotten>>

Next ==
    \E c \in Clients :
        \/ \E id \in Ids, hash \in Hashes : EndorseCreate(c, id, hash)
        \/ EndorseInit(c)
        \/ CommitCreate(c)
        \/ InvalidateCreate(c)
        \/ CommitInit(c)
        \/ DropTx(c)

Spec == Init /\ [][Next]_vars

-----------------------------------------------------------------------------
(* Queries.                                                                *)

Least(m, n) == IF m < n THEN m ELSE n

\* GetRecentCommitments: from LEDGER_HEIGHT downwards, at most limit of them and
\* never more than MaxAnswer.
Recent(limit) ==
    [i \in 1..Least(height, Least(limit, MaxAnswer)) |-> index[height + 1 - i]]

\* VerifyCommitment, for an id that exists.
Verifies(id, hash) == record[id] = hash

-----------------------------------------------------------------------------
(* Properties.                                                             *)

\* The ledger implements an append-only log whose entries are the commitments
\* in the order of HEIGHT_INDEX, after those initLedger made it forget.
LogId(i) == IF i <= forgotten THEN order[i] ELSE index[i - forgotten]
LogOf == [i \in 1..(forgotten + height) |-> [id |-> LogId(i), hash |-> record[LogId(i)]]]
Log == INSTANCE CommitmentLog WITH log <- LogOf

ImplementsLog == Log!LogSpec

\* A commitment a client was told is COMMITTED verifies ever after, and with no
\* other hash, although several clients may have raced for its id.
AnsweredVerifies ==
    \A e \in answered : \A hash \in Hashes : Verifies(e.id, hash) <=> hash = e.hash

\* GetRecentCommitments answers the newest commitments, newest first, without a
\* gap and as many as were asked for, up to the cap: never one that raced for
\* its height and lost, and none from before initLedger set the height to 0.
RecentIsComplete ==
    \A limit \in 1..(MaxAnswer + 1) :
        Recent(limit) =
            [i \in 1..Least(Len(order) - forgotten, Least(limit, MaxAnswer)) |->
                order[Len(order) + 1 - i]]

-----------------------------------------------------------------------------
(* Why the ledger is a log: a transaction that read the current version of *)
(* LEDGER_HEIGHT proposes the next height, and HEIGHT_INDEX lists the      *)
(* commitments made since the height was set to 0, in their order.         *)

HeightIsCurrent ==
    \A c \in Clients :
        tx[c].kind = "create" =>
            /\ tx[c].version <= heightVersion
            /\ tx[c].version = heightVersion => tx[c].newHeight = height + 1

IndexListsCommits ==
    /\ Len(order) = forgotten + height
    /\ height <= Len(index)
    /\ \A i \in 1..height : index[i] = order[forgotten + i]
    /\ \A i \in 1..Len(order) : Exists(order[i])

LedgerInv ==
    /\ LedgerTypeOK
    /\ HeightIsCurrent
    /\ IndexListsCommits
=============================================================================
