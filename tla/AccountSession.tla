--------------------------- MODULE AccountSession ---------------------------
(***************************************************************************)
(* The one account document of a student or a professor, and the tokens    *)
(* that were issued for it.                                                *)
(*                                                                         *)
(*   backend/src/controllers/student.controllers.js    login, logout, ...  *)
(*   backend/src/controllers/professor.controllers.js  the same            *)
(*   backend/src/controllers/cheating.controllers.js   block, unblock      *)
(*   backend/src/controllers/admin.controllers.js      toggle, bulk block  *)
(*   backend/src/middlewares/auth.middleware.js        validateSession     *)
(*                                                                         *)
(* A token carries the sessionVersion of its login and is good for as long *)
(* as the document has that version.  A handler loads the document, goes   *)
(* on after an await, and saves: Mongoose then writes the paths that       *)
(* differ from what was loaded, over whatever has been saved since.        *)
(***************************************************************************)
EXTENDS Integers, Sequences

CONSTANTS
    Requests,   \* requests being handled at the same time
    MaxOps      \* bound on the requests that change the account

ASSUME MaxOpsAssumption == MaxOps \in Nat

VARIABLES
    account,    \* the stored document
    tokens,     \* the sessionVersion in each token issued
    at,         \* how far a request is
    op,         \* what it is
    doc,        \* the copy it has loaded
    ops,
    overlapped  \* some save had a copy with an old sessionVersion

reqVars     == <<at, op, doc>>
accountVars == <<account, tokens, reqVars, ops, overlapped>>

Account == [loggedIn : BOOLEAN, blocked : BOOLEAN, version : Nat]

\* What needs no token, what an admin does, what the middleware lets in.
Guarded == {"logout", "password", "incident", "terminate", "ping"}
Ops     == {"login", "force", "toggle", "unblock"} \cup Guarded

AccountOK ==
    /\ account \in Account
    /\ tokens \in Seq(Nat)
    /\ at \in [Requests -> {"idle", "validated", "loaded"}]
    /\ op \in [Requests -> Ops]
    /\ doc \in [Requests -> Account]
    /\ ops \in Nat
    /\ overlapped \in BOOLEAN

\* As registerStudent leaves it.
Registered == [loggedIn |-> FALSE, blocked |-> FALSE, version |-> 0]

AccountInit ==
    /\ account = Registered
    /\ tokens = <<>>
    /\ at = [r \in Requests |-> "idle"]
    /\ op = [r \in Requests |-> "login"]
    /\ doc = [r \in Requests |-> Registered]
    /\ ops = 0
    /\ overlapped = FALSE

\* validateSession.
Valid(t) == tokens[t] = account.version /\ account.loggedIn /\ ~account.blocked

-----------------------------------------------------------------------------
(* A request comes in and loads the document.                              *)

Start(r, o, where) ==
    /\ at[r] = "idle"
    /\ ops < MaxOps
    /\ ops' = ops + 1
    /\ at' = [at EXCEPT ![r] = where]
    /\ op' = [op EXCEPT ![r] = o]
    /\ doc' = [doc EXCEPT ![r] = account]

\* loginStudent turns away who is blocked, and who is logged in elsewhere unless
\* the student insists.
Login(r, o) ==
    /\ o \in {"login", "force"}
    /\ ~account.blocked
    /\ o = "force" \/ ~account.loggedIn
    /\ Start(r, o, "loaded")
    /\ UNCHANGED <<account, tokens, overlapped>>

\* toggleBlockStudent, unblockStudent.
AdminLoad(r, o) ==
    /\ o \in {"toggle", "unblock"}
    /\ Start(r, o, "loaded")
    /\ UNCHANGED <<account, tokens, overlapped>>

\* verifyStudentJWT; the ping goes on with the middleware's copy.
Authenticate(r, o, t) ==
    /\ o \in Guarded
    /\ Valid(t)
    /\ Start(r, o, IF o = "ping" THEN "loaded" ELSE "validated")
    /\ UNCHANGED <<account, tokens, overlapped>>

\* The handlers load the document once more.
Load(r) ==
    /\ at[r] = "validated"
    /\ at' = [at EXCEPT ![r] = "loaded"]
    /\ doc' = [doc EXCEPT ![r] = account]
    /\ UNCHANGED <<account, tokens, op, ops, overlapped>>

-----------------------------------------------------------------------------
(* The save.                                                               *)

\* Mutant: a login that replaces another one keeps the version.
LoggedInAgain(d) == [d EXCEPT !.loggedIn = TRUE, !.version = IF d.loggedIn THEN @ ELSE @ + 1]

LoggedIn(d) == [d EXCEPT !.loggedIn = TRUE, !.version = @ + 1]

LoggedOut(d) == [d EXCEPT !.loggedIn = FALSE, !.version = @ + 1]

\* changeStudentPassword; updateStudentProfile with a password.
NewPassword(d) == [d EXCEPT !.version = @ + 1]

\* Lifting a block does not touch the version.
Toggled(d) == [d EXCEPT !.blocked = ~@, !.version = IF d.blocked THEN @ ELSE @ + 1]

Unblocked(d) == [d EXCEPT !.blocked = FALSE]

\* recordIncident, terminateAttempt and a ping over the limit of violations.
Punished(d) == [d EXCEPT !.blocked = TRUE, !.version = @ + 1]

\* What each handler makes of its copy.
Changed(o, d) ==
    CASE o \in {"login", "force"} -> LoggedIn(d)
      [] o = "logout"   -> LoggedOut(d)
      [] o = "password" -> NewPassword(d)
      [] o = "toggle"   -> Toggled(d)
      [] o = "unblock"  -> Unblocked(d)
      [] OTHER          -> Punished(d)

\* An incident does not block who is blocked; then nothing is saved.
Refrains(o, d) == o \in {"incident", "ping"} /\ d.blocked

\* Mutant: the whole copy is stored.
StoredWhole(old, new) == new

\* save() sends the paths of the document that differ from the loaded ones.
Stored(old, new) ==
    [f \in DOMAIN account |-> IF new[f] = old[f] THEN account[f] ELSE new[f]]

Save(r) ==
    /\ at[r] = "loaded"
    /\ LET new == Changed(op[r], doc[r]) IN
       IF Refrains(op[r], doc[r]) THEN UNCHANGED <<account, tokens, overlapped>>
       ELSE /\ account' = Stored(doc[r], new)
            /\ tokens' = IF op[r] \in {"login", "force"} THEN Append(tokens, new.version) ELSE tokens
            /\ overlapped' = (overlapped \/ doc[r].version # account.version)
    /\ at' = [at EXCEPT ![r] = "idle"]
    /\ doc' = [doc EXCEPT ![r] = Registered]
    /\ op' = [op EXCEPT ![r] = "login"]
    /\ UNCHANGED ops

\* Mutant: blocking in bulk leaves the version alone.
BulkBlockOnly(block) ==
    /\ ops < MaxOps
    /\ ops' = ops + 1
    /\ account' = [account EXCEPT !.blocked = block]
    /\ UNCHANGED <<tokens, reqVars, overlapped>>

\* bulkBlockStudents: one update, that increments whatever is stored.
BulkBlock(block) ==
    /\ ops < MaxOps
    /\ ops' = ops + 1
    /\ account' = [account EXCEPT !.blocked = block, !.version = IF block THEN @ + 1 ELSE @]
    /\ UNCHANGED <<tokens, reqVars, overlapped>>

-----------------------------------------------------------------------------
AccountNext ==
    \/ \E r \in Requests :
          \/ \E o \in {"login", "force"} : Login(r, o)
          \/ \E o \in {"toggle", "unblock"} : AdminLoad(r, o)
          \/ \E o \in Guarded, t \in DOMAIN tokens : Authenticate(r, o, t)
          \/ Load(r)
          \/ Save(r)
    \/ \E block \in BOOLEAN : BulkBlock(block)

AccountSpec == AccountInit /\ [][AccountNext]_accountVars

-----------------------------------------------------------------------------
(* Properties                                                              *)

\* There is one session at a time ("This session has been replaced by a new
\* login"), as long as no save went over another one.
SoleSession ==
    ~overlapped => \A t, u \in DOMAIN tokens : Valid(t) /\ Valid(u) => t = u

\* A token that has become invalid, by a login elsewhere, a logout, a new password
\* or a block, stays so, also when the block is lifted ("increment sessionVersion
\* to immediately invalidate active JWTs"), as long as no save went over another.
ReplacedStays ==
    [][~overlapped' => \A t \in DOMAIN tokens : ~Valid(t) => ~Valid(t)']_accountVars

\* Only an admin lifts a block: no login, logout or password change that was in
\* progress when it was set writes it away, whatever overlaps.
BlockStays ==
    [][account.blocked /\ ~account'.blocked
       => \/ \E r \in Requests : at[r] = "loaded" /\ at'[r] = "idle" /\ op[r] \in {"toggle", "unblock"}
          \/ reqVars' = reqVars]_accountVars
=============================================================================
