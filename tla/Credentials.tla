-------------------------- MODULE Credentials --------------------------
(***************************************************************************)
(* The credential row of one user (table users) and the user's password    *)
(* reset links (table password_reset_tokens), as concurrent requests of    *)
(* the API read and write them: sign-in, own password change, forgotten    *)
(* password, reset completion, administrator reset, (de)activation.        *)
(*                                                                         *)
(* A request is one HTTP request served by one SQLAlchemy session, that is *)
(* one READ COMMITTED PostgreSQL transaction after the other.  What it     *)
(* writes is flushed at its commit (autoflush is off), so a commit is one  *)
(* step; before it, what a request has read of the row is its own copy     *)
(* (tx[r].snap) and what keeps that copy true, if anything does, is a row  *)
(* lock (SELECT ... FOR UPDATE).  Users do not share rows or locks here,   *)
(* so one user stands for all.                                             *)
(***************************************************************************)
EXTENDS Naturals, FiniteSets

CONSTANTS
  Requests,    \* the HTTP requests of a behaviour, each served once
  Tokens,      \* password_reset_tokens rows that may be inserted
  Passwords,   \* the passwords the user and the administrator choose from
  Ops,         \* the endpoints that are called
  NoOne        \* no request holds the lock

AllOps == {"signin", "change", "forgot", "complete", "admin", "active"}

ASSUME OpsAssumption  == Ops \subseteq AllOps
ASSUME NoOneAssumption == NoOne \notin Requests

VARIABLES
  row,         \* the users row: hash, version, active, legacy
  jwts,        \* the token_version of every access token handed out
  tokens,      \* status of each reset link
  rowLock,     \* the request holding the row lock of the users row
  tokLock,     \* ... and of each password_reset_tokens row
  tx           \* tx[r]: where request r is, what it read, what it will write

vars == <<row, jwts, tokens, rowLock, tokLock, tx>>

-----------------------------------------------------------------------------
(* Argon2id hashes are as good as the password they verify; legacy says    *)
(* that the hash was made with parameters older than the current ones.     *)
Row == [hash: Passwords, version: Nat, active: BOOLEAN, legacy: BOOLEAN]

Fresh       == {"absent"}
Outstanding == {"live", "expired"}
TokenStatus == Fresh \cup Outstanding \cup {"consumed", "invalidated"}

Waiting == {"s_rehash", "s_refresh", "s_issue",
            "h_lock", "h_tokens", "h_commit",
            "f_tokens", "f_commit",
            "c_user", "c_tokens", "c_commit",
            "a_tokens", "a_commit"}
Ended   == {"committed", "failed"}
Pc      == {"new"} \cup Waiting \cup Ended

Tx == [pc: Pc,
       snap: Row, new: Passwords, tok: SUBSET Tokens, inval: SUBSET Tokens]

TypeOK ==
  /\ row \in Row
  /\ jwts \in SUBSET Nat
  /\ tokens \in [Tokens -> TokenStatus]
  /\ rowLock \in Requests \cup {NoOne}
  /\ tokLock \in [Tokens -> Requests \cup {NoOne}]
  /\ tx \in [Requests -> Tx]

(* An active account, its bootstrap password hashed with either parameters, *)
(* and one open session: activation has already taken place.               *)
Init ==
  /\ \E hash \in Passwords, legacy \in BOOLEAN :
       row = [hash |-> hash, version |-> 0, active |-> TRUE, legacy |-> legacy]
  /\ jwts = {0}
  /\ tokens = [t \in Tokens |-> "absent"]
  /\ rowLock = NoOne
  /\ tokLock = [t \in Tokens |-> NoOne]
  /\ tx = [r \in Requests |->
             [pc |-> "new", snap |-> row, new |-> row.hash,
              tok |-> {}, inval |-> {}]]

-----------------------------------------------------------------------------
(* Transactions *)

OutstandingTokens == {t \in Tokens : tokens[t] \in Outstanding}

RowFree(r) == rowLock \in {NoOne, r}
TokensFree(r, S) == \A t \in S : tokLock[t] \in {NoOne, r}

(* COMMIT or ROLLBACK ends the transaction and releases its locks. *)
Release(r) ==
  /\ rowLock' = IF rowLock = r THEN NoOne ELSE rowLock
  /\ tokLock' = [t \in Tokens |-> IF tokLock[t] = r THEN NoOne ELSE tokLock[t]]

(* Fault: an error path that returns without a rollback keeps its locks. *)
Rollback_LocksKept(r) ==
  /\ tx' = [tx EXCEPT ![r].pc = "failed"]
  /\ UNCHANGED <<row, jwts, tokens, rowLock, tokLock>>

Rollback(r) ==
  /\ tx' = [tx EXCEPT ![r].pc = "failed"]
  /\ Release(r)
  /\ UNCHANGED <<row, jwts, tokens>>

(* invalidate_outstanding_password_reset_tokens: SELECT ... FOR UPDATE of   *)
(* the outstanding rows; the mutation reaches the database at the commit.  *)
LockOutstanding(r, S, next) ==
  /\ TokensFree(r, S)
  /\ tokLock' = [t \in Tokens |-> IF t \in S THEN r ELSE tokLock[t]]
  /\ tx' = [tx EXCEPT ![r].inval = S, ![r].pc = next]
  /\ UNCHANGED <<row, jwts, tokens, rowLock>>

(* Fault: the version is moved the wrong way. *)
Replace_Decrement(r) ==
  row' = [row EXCEPT !.hash = tx[r].new, !.version = tx[r].snap.version - 1,
                     !.legacy = FALSE]

(* The commit of a credential replacement: the ORM writes the new hash and  *)
(* the literal version computed from the copy it read.                     *)
Replace(r) ==
  row' = [row EXCEPT !.hash = tx[r].new, !.version = tx[r].snap.version + 1,
                     !.legacy = FALSE]

Retired(S, spent) ==
  [t \in Tokens |-> IF t \in spent THEN "consumed"
                    ELSE IF t \in S THEN "invalidated" ELSE tokens[t]]

Commit(r) ==
  /\ tx' = [tx EXCEPT ![r].pc = "committed"]
  /\ Release(r)

Starts(r, op) == op \in Ops /\ tx[r].pc = "new"

-----------------------------------------------------------------------------
(* POST /auth/signin: authenticate_user reads the row without a lock and    *)
(* verifies the password against what it read; a rejected sign-in changes   *)
(* nothing.  An old hash is replaced by a new hash of the same password,    *)
(* committed, and the row is read again before the token is made.           *)
SigninRead(r) ==
  /\ Starts(r, "signin")
  /\ row.active
  /\ tx' = [tx EXCEPT ![r].snap = row, ![r].new = row.hash,
                      ![r].pc = IF row.legacy THEN "s_rehash" ELSE "s_issue"]
  /\ UNCHANGED <<row, jwts, tokens, rowLock, tokLock>>

SigninRehash(r) ==
  /\ tx[r].pc = "s_rehash"
  /\ RowFree(r)
  /\ row' = [row EXCEPT !.hash = tx[r].new, !.legacy = FALSE]
  /\ tx' = [tx EXCEPT ![r].pc = "s_refresh"]
  /\ UNCHANGED <<jwts, tokens, rowLock, tokLock>>

SigninRefresh(r) ==
  /\ tx[r].pc = "s_refresh"
  /\ tx' = [tx EXCEPT ![r].snap = row, ![r].pc = "s_issue"]
  /\ UNCHANGED <<row, jwts, tokens, rowLock, tokLock>>

SigninIssue(r) ==
  /\ tx[r].pc = "s_issue"
  /\ jwts' = jwts \cup {tx[r].snap.version}
  /\ tx' = [tx EXCEPT ![r].pc = "committed"]
  /\ UNCHANGED <<row, tokens, rowLock, tokLock>>

-----------------------------------------------------------------------------
(* POST /auth/password/change: get_current_user loads the row into the      *)
(* request's session to check the token.  change_own_password then selects  *)
(* it again FOR UPDATE in the same session: that takes the lock, and hands   *)
(* back the object already loaded, with the attributes read before.         *)
ChangeAuthenticate(r) ==
  /\ Starts(r, "change")
  /\ row.active /\ row.version \in jwts
  /\ \E new \in Passwords :
       tx' = [tx EXCEPT ![r].snap = row, ![r].new = new, ![r].pc = "h_lock"]
  /\ UNCHANGED <<row, jwts, tokens, rowLock, tokLock>>

(* The current password sent with the request is the one of the copy:      *)
(* requests sending another one are rejected and change nothing.  The new   *)
(* password must differ from the copy's too.                                *)
ChangeRefused(r) ==
  /\ tx[r].pc = "h_lock"
  /\ RowFree(r)
  /\ tx[r].new = tx[r].snap.hash
  /\ Rollback(r)

(* Fault: the row is selected without FOR UPDATE. *)
ChangeLock_Unlocked(r) ==
  /\ tx[r].pc = "h_lock"
  /\ RowFree(r)
  /\ tx[r].new # tx[r].snap.hash
  /\ tx' = [tx EXCEPT ![r].pc = "h_tokens"]
  /\ UNCHANGED <<row, jwts, tokens, rowLock, tokLock>>

ChangeLock(r) ==
  /\ tx[r].pc = "h_lock"
  /\ RowFree(r)
  /\ tx[r].new # tx[r].snap.hash
  /\ rowLock' = r
  /\ tx' = [tx EXCEPT ![r].pc = "h_tokens"]
  /\ UNCHANGED <<row, jwts, tokens, tokLock>>

ChangeTokens(r) ==
  /\ tx[r].pc = "h_tokens"
  /\ LockOutstanding(r, OutstandingTokens, "h_commit")

ChangeCommit(r) ==
  /\ tx[r].pc = "h_commit"
  /\ Replace(r)
  /\ tokens' = Retired(tx[r].inval, {})
  /\ Commit(r)
  /\ UNCHANGED jwts

-----------------------------------------------------------------------------
(* Fault: the row is selected without FOR UPDATE. *)
ForgotLock_Unlocked(r) ==
  /\ Starts(r, "forgot")
  /\ \E t \in Tokens : tokens[t] = "absent"
  /\ RowFree(r) /\ row.active
  /\ tx' = [tx EXCEPT ![r].pc = "f_tokens"]
  /\ UNCHANGED <<row, jwts, tokens, rowLock, tokLock>>

(* POST /auth/password/forgot: the eligible row is selected FOR UPDATE.     *)
(* Within the cooldown of an outstanding link the request changes nothing;  *)
(* otherwise it retires the outstanding links and inserts a new one, which  *)
(* stays live if the provider took the message and is withdrawn if not.     *)
ForgotLock(r) ==
  /\ Starts(r, "forgot")
  /\ \E t \in Tokens : tokens[t] = "absent"    \* bound: Tokens are issued once each
  /\ RowFree(r) /\ row.active
  /\ rowLock' = r
  /\ tx' = [tx EXCEPT ![r].pc = "f_tokens"]
  /\ UNCHANGED <<row, jwts, tokens, tokLock>>

ForgotCooldown(r) ==
  /\ tx[r].pc = "f_tokens"
  /\ OutstandingTokens # {}
  /\ Commit(r)
  /\ UNCHANGED <<row, jwts, tokens>>

(* Fault: the links issued before are left usable. *)
ForgotTokens_Kept(r) ==
  /\ tx[r].pc = "f_tokens"
  /\ LockOutstanding(r, {}, "f_commit")

ForgotTokens(r) ==
  /\ tx[r].pc = "f_tokens"
  /\ LockOutstanding(r, OutstandingTokens, "f_commit")

ForgotCommit(r) ==
  /\ tx[r].pc = "f_commit"
  /\ \E t \in Tokens, delivered \in BOOLEAN :
       /\ tokens[t] = "absent"
       /\ tokens' = [Retired(tx[r].inval, {}) EXCEPT
                       ![t] = IF delivered THEN "live" ELSE "invalidated"]
  /\ Commit(r)
  /\ UNCHANGED <<row, jwts>>

-----------------------------------------------------------------------------
(* Fault: the link is validated with lock=False, as inspect does. *)
CompleteToken_Unlocked(r) ==
  /\ Starts(r, "complete")
  /\ \E t \in Tokens, new \in Passwords :
       /\ tokens[t] = "live"
       /\ tx' = [tx EXCEPT ![r].tok = {t}, ![r].new = new, ![r].pc = "c_user"]
  /\ UNCHANGED <<row, jwts, tokens, rowLock, tokLock>>

(* POST /auth/password/reset/complete: the link's row is locked and checked, *)
(* then the user's row is locked and read in a fresh session, checked, and   *)
(* both are written with the other outstanding links in one transaction.     *)
CompleteToken(r) ==
  /\ Starts(r, "complete")
  /\ \E t \in Tokens, new \in Passwords :
       /\ tokLock[t] = NoOne
       /\ tokens[t] = "live"
       /\ tokLock' = [tokLock EXCEPT ![t] = r]
       /\ tx' = [tx EXCEPT ![r].tok = {t}, ![r].new = new, ![r].pc = "c_user"]
  /\ UNCHANGED <<row, jwts, tokens, rowLock>>

ResetEligible(r) == row.active /\ tx[r].new # row.hash

CompleteRefused(r) ==
  /\ tx[r].pc = "c_user"
  /\ RowFree(r)
  /\ ~ResetEligible(r)
  /\ Rollback(r)

(* Fault: the user's row is selected without FOR UPDATE. *)
CompleteUser_Unlocked(r) ==
  /\ tx[r].pc = "c_user"
  /\ ResetEligible(r)
  /\ tx' = [tx EXCEPT ![r].snap = row, ![r].pc = "c_tokens"]
  /\ UNCHANGED <<row, jwts, tokens, rowLock, tokLock>>

CompleteUser(r) ==
  /\ tx[r].pc = "c_user"
  /\ RowFree(r)
  /\ ResetEligible(r)
  /\ rowLock' = r
  /\ tx' = [tx EXCEPT ![r].snap = row, ![r].pc = "c_tokens"]
  /\ UNCHANGED <<row, jwts, tokens, tokLock>>

CompleteTokens(r) ==
  /\ tx[r].pc = "c_tokens"
  /\ LockOutstanding(r, OutstandingTokens \ tx[r].tok, "c_commit")

CompleteCommit(r) ==
  /\ tx[r].pc = "c_commit"
  /\ Replace(r)
  /\ tokens' = Retired(tx[r].inval, tx[r].tok)
  /\ Commit(r)
  /\ UNCHANGED jwts

-----------------------------------------------------------------------------
(* POST /admin/users/{id}/reset-password: the row is read with no lock; the  *)
(* links are locked, and the commit writes the version computed from that    *)
(* read, after waiting for whoever holds the row.                            *)
AdminRead(r) ==
  /\ Starts(r, "admin")
  /\ \E new \in Passwords :
       tx' = [tx EXCEPT ![r].snap = row, ![r].new = new, ![r].pc = "a_tokens"]
  /\ UNCHANGED <<row, jwts, tokens, rowLock, tokLock>>

AdminTokens(r) ==
  /\ tx[r].pc = "a_tokens"
  /\ LockOutstanding(r, OutstandingTokens, "a_commit")

AdminCommit(r) ==
  /\ tx[r].pc = "a_commit"
  /\ RowFree(r)
  /\ Replace(r)
  /\ tokens' = Retired(tx[r].inval, {})
  /\ Commit(r)
  /\ UNCHANGED jwts

(* PATCH /admin/users/{id} with is_active: the one column is overwritten.    *)
SetActive(r) ==
  /\ Starts(r, "active")
  /\ RowFree(r)
  /\ row' = [row EXCEPT !.active = ~row.active]
  /\ tx' = [tx EXCEPT ![r].pc = "committed"]
  /\ UNCHANGED <<jwts, tokens, rowLock, tokLock>>

-----------------------------------------------------------------------------
(* Time, failures, and the database's own deadlock detection *)

Expire(t) ==
  /\ tokens[t] = "live"
  /\ tokens' = [tokens EXCEPT ![t] = "expired"]
  /\ UNCHANGED <<row, jwts, rowLock, tokLock, tx>>

(* A crash, a lost connection, an exception, or PostgreSQL aborting the      *)
(* transaction: whatever was not committed never happened.                   *)
Abort(r) ==
  /\ tx[r].pc \in Waiting
  /\ Rollback(r)

(* The locks a request waits for and who holds them. *)
HoldersAwaited(r) ==
  LET pc == tx[r].pc
      S == OutstandingTokens \ tx[r].tok
  IN (IF pc \in {"s_rehash", "h_lock", "c_user", "a_commit"} THEN {rowLock} ELSE {})
     \cup (IF pc \in {"h_tokens", "f_tokens", "c_tokens", "a_tokens"}
           THEN {tokLock[t] : t \in S} ELSE {})

Deadlocked(r) ==
  \E C \in SUBSET Requests :
    r \in C /\ \A s \in C : \E h \in HoldersAwaited(s) \ {s} : h \in C

DeadlockVictim == \E r \in Requests : Deadlocked(r) /\ Abort(r)

(* Nothing is in progress: the server waits for calls. *)
Quiescent ==
  /\ \A r \in Requests : tx[r].pc \notin Waiting
  /\ UNCHANGED vars

-----------------------------------------------------------------------------
Signin(r)   == SigninRead(r) \/ SigninRehash(r) \/ SigninRefresh(r) \/ SigninIssue(r)
Change(r)   == ChangeAuthenticate(r) \/ ChangeRefused(r) \/ ChangeLock(r)
               \/ ChangeTokens(r) \/ ChangeCommit(r)
Forgot(r)   == ForgotLock(r) \/ ForgotCooldown(r) \/ ForgotTokens(r) \/ ForgotCommit(r)
Complete(r) == CompleteToken(r) \/ CompleteRefused(r) \/ CompleteUser(r)
               \/ CompleteTokens(r) \/ CompleteCommit(r)
Admin(r)    == AdminRead(r) \/ AdminTokens(r) \/ AdminCommit(r) \/ SetActive(r)

Next ==
  \/ \E r \in Requests :
       Signin(r) \/ Change(r) \/ Forgot(r) \/ Complete(r) \/ Admin(r) \/ Abort(r)
  \/ \E t \in Tokens : Expire(t)
  \/ Quiescent

Spec == Init /\ [][Next]_vars

(* A request that has begun goes on when its lock comes free: PostgreSQL     *)
(* queues the waiters of a row, and aborts one transaction of a deadlock.    *)
Progress(r) ==
  /\ tx[r].pc \in Waiting
  /\ Signin(r) \/ Change(r) \/ Forgot(r) \/ Complete(r) \/ Admin(r)

Fairness ==
  /\ \A r \in Requests : SF_vars(Progress(r))
  /\ WF_vars(DeadlockVictim)

FairSpec == Spec /\ Fairness

-----------------------------------------------------------------------------
(* Properties *)

(* At most one reset link of a user is outstanding, whatever requests issue, *)
(* use and retire links at the same time (password_reset_service).           *)
SingleOutstanding ==
  \A t, u \in OutstandingTokens : t = u

(* Two completions with the same link cannot both succeed: the second waits  *)
(* for the first one's row lock and then finds the link consumed.            *)
LinkUsedOnce ==
  \A r, q \in Requests :
    /\ tx[r].pc = "committed" /\ tx[q].pc = "committed"
    /\ tx[r].tok \cap tx[q].tok # {}
    => r = q

Commits(r, pc) == tx[r].pc = pc /\ tx'[r].pc = "committed"

(* A completed reset acts on the row as it stands at its commit, not as some *)
(* earlier reader saw it: the account is active, the password is a new one,  *)
(* and the version moves by exactly one, whatever else writes the row.       *)
ResetActsOnCurrentRow ==
  [][\A r \in Requests : Commits(r, "c_commit") =>
       /\ row.active /\ row'.active
       /\ row'.hash # row.hash
       /\ row'.version = row.version + 1]_vars

(* When a user replaces the password, by a link or signed in, no link issued *)
(* before that commit can be used after it, also not one that another        *)
(* request was issuing meanwhile.                                            *)
OwnReplacementRetiresLinks ==
  [][\A r \in Requests : Commits(r, "c_commit") \/ Commits(r, "h_commit") =>
       OutstandingTokens' = {}]_vars

(* Every request ends: the two orders in which requests lock the user's row  *)
(* and the links' rows can deadlock, and no lock outlives its request.       *)
RequestsEnd ==
  \A r \in Requests : (tx[r].pc \in Waiting) ~> (tx[r].pc \in Ended)

(* The links keep the promise of module OneTimeTokens. *)
Links == INSTANCE OneTimeTokens WITH status <- tokens
LinksRefine == Links!Spec

(* What docs/account-invitations.md says of two simultaneous changes: a      *)
(* change that succeeds has verified the password the row holds then.        *)
ChangeVerifiesCurrentPassword ==
  [][\A r \in Requests : Commits(r, "h_commit") =>
       tx[r].snap.hash = row.hash]_vars

(* ... and of an administrator's reset: it is a credential replacement, so   *)
(* it ends the sessions opened before it.                                    *)
AdminResetEndsSessions ==
  [][\A r \in Requests : Commits(r, "a_commit") => row'.version \notin jwts]_vars
=============================================================================
