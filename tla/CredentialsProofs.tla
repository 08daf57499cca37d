----------------------- MODULE CredentialsProofs -----------------------
(***************************************************************************)
(* The safety of Credentials for every set of requests, links and          *)
(* passwords and every choice of endpoints.  The properties are not        *)
(* inductive: what keeps them is who holds which row lock at which step,   *)
(* so the invariant below follows the locks.                               *)
(***************************************************************************)
EXTENDS Credentials, TLAPS

HoldsRow == {"h_tokens", "h_commit", "f_tokens", "f_commit", "c_tokens", "c_commit"}
HasLink  == {"c_user", "c_tokens", "c_commit"}
Decided  == {"h_commit", "f_commit", "c_commit"}

(* A request between its SELECT ... FOR UPDATE of the users row and its end  *)
(* holds the row.                                                            *)
RowHeld(r) == tx[r].pc \in HoldsRow => rowLock = r

(* A completion holds the row of its one link, which nobody has spent.       *)
LinkHeld(r) ==
  /\ tx[r].pc \in HasLink =>
       \E t \in Tokens :
         tx[r].tok = {t} /\ tokLock[t] = r /\ tokens[t] \in Outstanding
  /\ tx[r].pc \notin HasLink \cup Ended => tx[r].tok = {}

(* The links a request is about to invalidate are outstanding and its own.   *)
RetiredHeld(r) ==
  tx[r].pc \in Decided \cup {"a_commit"} =>
    \A t \in tx[r].inval : tokLock[t] = r /\ tokens[t] \in Outstanding

(* Nothing was issued since a request that holds the users row selected the  *)
(* outstanding links.                                                        *)
Covered(r) ==
  tx[r].pc \in Decided => OutstandingTokens \subseteq tx[r].inval \cup tx[r].tok

(* A completion's copy of the users row is the row.                          *)
CopyCurrent(r) ==
  tx[r].pc \in {"c_tokens", "c_commit"} =>
    tx[r].snap = row /\ row.active /\ tx[r].new # row.hash

(* The link of a completion that succeeded stays consumed.                   *)
UsedConsumed(r) ==
  tx[r].pc = "committed" => \A t \in tx[r].tok : tokens[t] = "consumed"

Local(r) ==
  RowHeld(r) /\ LinkHeld(r) /\ RetiredHeld(r)
  /\ Covered(r) /\ CopyCurrent(r) /\ UsedConsumed(r)

IInv ==
  /\ TypeOK
  /\ \A r \in Requests : Local(r)
  /\ SingleOutstanding
  /\ LinkUsedOnce

(* What a step of request r leaves to the others: their transactions, their  *)
(* locks and the rows they have locked, and every consumed link.             *)
Step(r) ==
  Signin(r) \/ Change(r) \/ Forgot(r) \/ Complete(r) \/ Admin(r) \/ Abort(r)

Undisturbed(q) ==
  /\ tx'[q] = tx[q]
  /\ rowLock = q => rowLock' = q /\ row' = row
  /\ rowLock = q => OutstandingTokens' \subseteq OutstandingTokens
  /\ \A t \in Tokens : tokLock[t] = q =>
       /\ tokLock'[t] = q
       /\ tokens[t] \in Outstanding => tokens'[t] \in Outstanding
  /\ \A t \in Tokens : tokens[t] = "consumed" => tokens'[t] = "consumed"

-----------------------------------------------------------------------------
(* The provers take the sets of control states and link statuses as given,   *)
(* with these members.                                                       *)
LEMMA PcMembers ==
  /\ {"new", "committed", "failed"} \subseteq Pc
  /\ {"s_rehash", "s_refresh", "s_issue"} \subseteq Pc
  /\ {"h_lock", "h_tokens", "h_commit"} \subseteq Pc
  /\ {"f_tokens", "f_commit"} \subseteq Pc
  /\ {"c_user", "c_tokens", "c_commit"} \subseteq Pc
  /\ {"a_tokens", "a_commit"} \subseteq Pc
  BY DEF Pc, Waiting, Ended

LEMMA StatusMembers ==
  {"absent", "live", "expired", "consumed", "invalidated"} \subseteq TokenStatus
  BY DEF TokenStatus, Fresh, Outstanding

LEMMA RetiredType ==
  ASSUME TypeOK, NEW S, NEW U
  PROVE  Retired(S, U) \in [Tokens -> TokenStatus]
  BY StatusMembers DEF TypeOK, Retired

LEMMA ReleaseType ==
  ASSUME TypeOK, NEW r \in Requests, Release(r)
  PROVE  /\ rowLock' \in Requests \cup {NoOne}
         /\ tokLock' \in [Tokens -> Requests \cup {NoOne}]
  BY DEF TypeOK, Release

LEMMA CommitType ==
  ASSUME TypeOK, NEW r \in Requests, Commit(r)
  PROVE  /\ tx' \in [Requests -> Tx]
         /\ rowLock' \in Requests \cup {NoOne}
         /\ tokLock' \in [Tokens -> Requests \cup {NoOne}]
  BY ReleaseType, PcMembers DEF TypeOK, Tx, Commit

LEMMA RollbackType ==
  ASSUME TypeOK, NEW r \in Requests, Rollback(r)
  PROVE  TypeOK'
  BY ReleaseType, PcMembers DEF TypeOK, Tx, Rollback

LEMMA ReplaceType ==
  ASSUME TypeOK, NEW r \in Requests, Replace(r)
  PROVE  row' \in Row
<1>1. tx[r].new \in Passwords /\ tx[r].snap.version + 1 \in Nat
  BY DEF TypeOK, Tx, Row
<1>2. row \in [hash : Passwords, version : Nat, active : BOOLEAN, legacy : BOOLEAN]
  BY DEF TypeOK, Row
<1> QED BY <1>1, <1>2, Zenon DEF Row, Replace

LEMMA LockOutstandingType ==
  ASSUME TypeOK, NEW r \in Requests, NEW S \in SUBSET Tokens, NEW pc \in Pc,
         LockOutstanding(r, S, pc)
  PROVE  TypeOK'
  BY DEF TypeOK, Tx, LockOutstanding

LEMMA OutstandingType == OutstandingTokens \in SUBSET Tokens
  BY DEF OutstandingTokens

-----------------------------------------------------------------------------
(* Every reachable state is well typed: versions are numbers, every lock is  *)
(* a request's or nobody's, what a request carries is what it read or chose. *)
LEMMA InitTypeOK == Init => TypeOK
<1> SUFFICES ASSUME Init PROVE TypeOK
  OBVIOUS
<1>1. row \in Row /\ row.hash \in Passwords
  BY DEF Init, Row
<1>2. tx \in [Requests -> Tx]
  BY <1>1, PcMembers DEF Init, Tx
<1>3. tokens \in [Tokens -> TokenStatus]
  BY StatusMembers DEF Init
<1>4. jwts \in SUBSET Nat
  BY DEF Init
<1>5. rowLock \in Requests \cup {NoOne} /\ tokLock \in [Tokens -> Requests \cup {NoOne}]
  BY DEF Init
<1> QED BY <1>1, <1>2, <1>3, <1>4, <1>5 DEF TypeOK

LEMMA NextTypeOK == TypeOK /\ [Next]_vars => TypeOK'
<1> SUFFICES ASSUME TypeOK, [Next]_vars PROVE TypeOK'
  OBVIOUS
<1> USE PcMembers, StatusMembers DEF TypeOK
<1>1. CASE UNCHANGED vars
  BY <1>1 DEF vars
<1>2. ASSUME NEW r \in Requests, Signin(r) PROVE TypeOK'
  <2>1. CASE SigninRead(r)
    <3>1. PICK pc \in Pc :
            tx' = [tx EXCEPT ![r].snap = row, ![r].new = row.hash, ![r].pc = pc]
      BY <2>1 DEF SigninRead
    <3>2. row.hash \in Passwords
      BY DEF Row
    <3>3. tx' \in [Requests -> Tx]
      BY <3>1, <3>2 DEF Tx
    <3> QED BY <2>1, <3>3 DEF SigninRead
  <2>2. CASE SigninRehash(r)
    <3>1. row' \in Row
      BY <2>2 DEF SigninRehash, Row, Tx
    <3>2. tx' \in [Requests -> Tx]
      BY <2>2 DEF SigninRehash, Tx
    <3> QED BY <2>2, <3>1, <3>2 DEF SigninRehash
  <2>3. CASE SigninRefresh(r)
    BY <2>3 DEF SigninRefresh, Tx
  <2>4. CASE SigninIssue(r)
    BY <2>4 DEF SigninIssue, Row, Tx
  <2> QED BY <1>2, <2>1, <2>2, <2>3, <2>4 DEF Signin
<1>3. ASSUME NEW r \in Requests, Change(r) PROVE TypeOK'
  <2>1. CASE ChangeAuthenticate(r)
    <3>1. PICK new \in Passwords :
            tx' = [tx EXCEPT ![r].snap = row, ![r].new = new, ![r].pc = "h_lock"]
      BY <2>1 DEF ChangeAuthenticate
    <3>2. tx' \in [Requests -> Tx]
      BY <3>1 DEF Tx
    <3> QED BY <2>1, <3>2 DEF ChangeAuthenticate
  <2>2. CASE ChangeRefused(r)
    BY <2>2, RollbackType DEF ChangeRefused
  <2>3. CASE ChangeLock(r)
    BY <2>3 DEF ChangeLock, Tx
  <2>4. CASE ChangeTokens(r)
    BY <2>4, LockOutstandingType, OutstandingType DEF ChangeTokens
  <2>5. CASE ChangeCommit(r)
    BY <2>5, ReplaceType, RetiredType, CommitType DEF ChangeCommit
  <2> QED BY <1>3, <2>1, <2>2, <2>3, <2>4, <2>5 DEF Change
<1>4. ASSUME NEW r \in Requests, Forgot(r) PROVE TypeOK'
  <2>1. CASE ForgotLock(r)
    BY <2>1 DEF ForgotLock, Tx
  <2>2. CASE ForgotCooldown(r)
    BY <2>2, CommitType DEF ForgotCooldown
  <2>3. CASE ForgotTokens(r)
    BY <2>3, LockOutstandingType, OutstandingType DEF ForgotTokens
  <2>4. CASE ForgotCommit(r)
    BY <2>4, RetiredType, CommitType DEF ForgotCommit
  <2> QED BY <1>4, <2>1, <2>2, <2>3, <2>4 DEF Forgot
<1>5. ASSUME NEW r \in Requests, Complete(r) PROVE TypeOK'
  <2>1. CASE CompleteToken(r)
    <3>1. PICK t \in Tokens, new \in Passwords :
            /\ tokLock' = [tokLock EXCEPT ![t] = r]
            /\ tx' = [tx EXCEPT ![r].tok = {t}, ![r].new = new, ![r].pc = "c_user"]
      BY <2>1 DEF CompleteToken
    <3>2. {t} \in SUBSET Tokens
      OBVIOUS
    <3>3. tx' \in [Requests -> Tx]
      BY <3>1, <3>2 DEF Tx
    <3>4. tokLock' \in [Tokens -> Requests \cup {NoOne}]
      BY <3>1
    <3> QED BY <2>1, <3>3, <3>4 DEF CompleteToken
  <2>2. CASE CompleteRefused(r)
    BY <2>2, RollbackType DEF CompleteRefused
  <2>3. CASE CompleteUser(r)
    BY <2>3 DEF CompleteUser, Tx
  <2>4. CASE CompleteTokens(r)
    BY <2>4, LockOutstandingType, OutstandingType DEF CompleteTokens
  <2>5. CASE CompleteCommit(r)
    BY <2>5, ReplaceType, RetiredType, CommitType DEF CompleteCommit
  <2> QED BY <1>5, <2>1, <2>2, <2>3, <2>4, <2>5 DEF Complete
<1>6. ASSUME NEW r \in Requests, Admin(r) PROVE TypeOK'
  <2>1. CASE AdminRead(r)
    <3>1. PICK new \in Passwords :
            tx' = [tx EXCEPT ![r].snap = row, ![r].new = new, ![r].pc = "a_tokens"]
      BY <2>1 DEF AdminRead
    <3>2. tx' \in [Requests -> Tx]
      BY <3>1 DEF Tx
    <3> QED BY <2>1, <3>2 DEF AdminRead
  <2>2. CASE AdminTokens(r)
    BY <2>2, LockOutstandingType, OutstandingType DEF AdminTokens
  <2>3. CASE AdminCommit(r)
    BY <2>3, ReplaceType, RetiredType, CommitType DEF AdminCommit
  <2>4. CASE SetActive(r)
    <3>1. row' \in Row
      BY <2>4 DEF SetActive, Row
    <3>2. tx' \in [Requests -> Tx]
      BY <2>4 DEF SetActive, Tx
    <3> QED BY <2>4, <3>1, <3>2 DEF SetActive
  <2> QED BY <1>6, <2>1, <2>2, <2>3, <2>4 DEF Admin
<1>7. ASSUME NEW r \in Requests, Abort(r) PROVE TypeOK'
  BY <1>7, RollbackType DEF Abort
<1>8. ASSUME NEW t \in Tokens, Expire(t) PROVE TypeOK'
  BY <1>8 DEF Expire
<1>9. CASE Quiescent
  BY <1>9 DEF Quiescent, vars
<1> QED BY <1>1, <1>2, <1>3, <1>4, <1>5, <1>6, <1>7, <1>8, <1>9 DEF Next

THEOREM TypeCorrect == Spec => []TypeOK
  BY InitTypeOK, NextTypeOK, PTL DEF Spec

-----------------------------------------------------------------------------
(* Every lock is taken and given back by its own request only, so a step of  *)
(* one request leaves what the others have locked as it is.                  *)
LEMMA OthersUndisturbed ==
  ASSUME IInv, NEW r \in Requests, Step(r), NEW q \in Requests \ {r}
  PROVE  Undisturbed(q)
<1> USE NoOneAssumption
    DEF IInv, Local, TypeOK, RowHeld, RetiredHeld, Undisturbed, HoldsRow, Decided,
        RowFree, TokensFree, OutstandingTokens, Outstanding
<1>1. CASE Signin(r)
  <2>1. CASE SigninRead(r)
    BY <2>1 DEF SigninRead
  <2>2. CASE SigninRehash(r)
    BY <2>2 DEF SigninRehash
  <2>3. CASE SigninRefresh(r)
    BY <2>3 DEF SigninRefresh
  <2>4. CASE SigninIssue(r)
    BY <2>4 DEF SigninIssue
  <2> QED BY <1>1, <2>1, <2>2, <2>3, <2>4 DEF Signin
<1>2. CASE Change(r)
  <2>1. CASE ChangeAuthenticate(r)
    BY <2>1 DEF ChangeAuthenticate
  <2>2. CASE ChangeRefused(r)
    BY <2>2 DEF ChangeRefused, Rollback, Release
  <2>3. CASE ChangeLock(r)
    BY <2>3 DEF ChangeLock
  <2>4. CASE ChangeTokens(r)
    BY <2>4 DEF ChangeTokens, LockOutstanding
  <2>5. CASE ChangeCommit(r)
    BY <2>5 DEF ChangeCommit, Replace, Retired, Commit, Release
  <2> QED BY <1>2, <2>1, <2>2, <2>3, <2>4, <2>5 DEF Change
<1>3. CASE Forgot(r)
  <2>1. CASE ForgotLock(r)
    BY <2>1 DEF ForgotLock
  <2>2. CASE ForgotCooldown(r)
    BY <2>2 DEF ForgotCooldown, Commit, Release
  <2>3. CASE ForgotTokens(r)
    BY <2>3 DEF ForgotTokens, LockOutstanding
  <2>4. CASE ForgotCommit(r)
    BY <2>4 DEF ForgotCommit, Retired, Commit, Release
  <2> QED BY <1>3, <2>1, <2>2, <2>3, <2>4 DEF Forgot
<1>4. CASE Complete(r)
  <2>1. CASE CompleteToken(r)
    BY <2>1 DEF CompleteToken
  <2>2. CASE CompleteRefused(r)
    BY <2>2 DEF CompleteRefused, Rollback, Release
  <2>3. CASE CompleteUser(r)
    BY <2>3 DEF CompleteUser
  <2>4. CASE CompleteTokens(r)
    BY <2>4 DEF CompleteTokens, LockOutstanding
  <2>5. CASE CompleteCommit(r)
    BY <2>5 DEF CompleteCommit, Replace, Retired, Commit, Release, LinkHeld, HasLink
  <2> QED BY <1>4, <2>1, <2>2, <2>3, <2>4, <2>5 DEF Complete
<1>5. CASE Admin(r)
  <2>1. CASE AdminRead(r)
    BY <2>1 DEF AdminRead
  <2>2. CASE AdminTokens(r)
    BY <2>2 DEF AdminTokens, LockOutstanding
  <2>3. CASE AdminCommit(r)
    BY <2>3 DEF AdminCommit, Replace, Retired, Commit, Release
  <2>4. CASE SetActive(r)
    BY <2>4 DEF SetActive
  <2> QED BY <1>5, <2>1, <2>2, <2>3, <2>4 DEF Admin
<1>6. CASE Abort(r)
  BY <1>6 DEF Abort, Rollback, Release
<1> QED BY <1>1, <1>2, <1>3, <1>4, <1>5, <1>6 DEF Step

(* The invariant's part about the acting request itself.                     *)
LEMMA OwnPart ==
  ASSUME IInv, TypeOK', NEW r \in Requests, Step(r)
  PROVE  Local(r)'
<1> USE NoOneAssumption
    DEF IInv, TypeOK, Local, RowHeld, LinkHeld, RetiredHeld, Covered, CopyCurrent,
        UsedConsumed, HoldsRow, HasLink, Decided, Ended,
        RowFree, TokensFree, OutstandingTokens, Outstanding
<1>1. CASE Signin(r)
  <2>1. CASE SigninRead(r)
    BY <2>1 DEF SigninRead, Starts
  <2>2. CASE SigninRehash(r)
    BY <2>2 DEF SigninRehash
  <2>3. CASE SigninRefresh(r)
    BY <2>3 DEF SigninRefresh
  <2>4. CASE SigninIssue(r)
    BY <2>4 DEF SigninIssue
  <2> QED BY <1>1, <2>1, <2>2, <2>3, <2>4 DEF Signin
<1>2. CASE Change(r)
  <2>1. CASE ChangeAuthenticate(r)
    BY <2>1 DEF ChangeAuthenticate, Starts
  <2>2. CASE ChangeRefused(r)
    BY <2>2 DEF ChangeRefused, Rollback, Release
  <2>3. CASE ChangeLock(r)
    BY <2>3 DEF ChangeLock
  <2>4. CASE ChangeTokens(r)
    BY <2>4 DEF ChangeTokens, LockOutstanding
  <2>5. CASE ChangeCommit(r)
    BY <2>5 DEF ChangeCommit, Replace, Retired, Commit, Release
  <2> QED BY <1>2, <2>1, <2>2, <2>3, <2>4, <2>5 DEF Change
<1>3. CASE Forgot(r)
  <2>1. CASE ForgotLock(r)
    BY <2>1 DEF ForgotLock, Starts
  <2>2. CASE ForgotCooldown(r)
    BY <2>2 DEF ForgotCooldown, Commit, Release
  <2>3. CASE ForgotTokens(r)
    BY <2>3 DEF ForgotTokens, LockOutstanding
  <2>4. CASE ForgotCommit(r)
    BY <2>4 DEF ForgotCommit, Retired, Commit, Release
  <2> QED BY <1>3, <2>1, <2>2, <2>3, <2>4 DEF Forgot
<1>4. CASE Complete(r)
  <2>1. CASE CompleteToken(r)
    BY <2>1 DEF CompleteToken, Starts
  <2>2. CASE CompleteRefused(r)
    BY <2>2 DEF CompleteRefused, Rollback, Release
  <2>3. CASE CompleteUser(r)
    BY <2>3 DEF CompleteUser, ResetEligible
  <2>4. CASE CompleteTokens(r)
    BY <2>4 DEF CompleteTokens, LockOutstanding
  <2>5. CASE CompleteCommit(r)
    BY <2>5 DEF CompleteCommit, Replace, Retired, Commit, Release
  <2> QED BY <1>4, <2>1, <2>2, <2>3, <2>4, <2>5 DEF Complete
<1>5. CASE Admin(r)
  <2>1. CASE AdminRead(r)
    BY <2>1 DEF AdminRead, Starts
  <2>2. CASE AdminTokens(r)
    BY <2>2 DEF AdminTokens, LockOutstanding
  <2>3. CASE AdminCommit(r)
    BY <2>3 DEF AdminCommit, Replace, Retired, Commit, Release
  <2>4. CASE SetActive(r)
    BY <2>4 DEF SetActive, Starts
  <2> QED BY <1>5, <2>1, <2>2, <2>3, <2>4 DEF Admin
<1>6. CASE Abort(r)
  BY <1>6 DEF Abort, Rollback, Release
<1> QED BY <1>1, <1>2, <1>3, <1>4, <1>5, <1>6 DEF Step

(* ... and about the others, by what the step leaves to them.                *)
LEMMA OthersPart ==
  ASSUME IInv, TypeOK', NEW q \in Requests, Undisturbed(q)
  PROVE  Local(q)'
<1> USE DEF IInv, TypeOK, Local, Undisturbed
<1>1. RowHeld(q)'
  BY DEF RowHeld
<1>2. LinkHeld(q)'
  BY DEF LinkHeld
<1>3. RetiredHeld(q)'
  BY DEF RetiredHeld, Tx
<1>4. Covered(q)'
  BY DEF Covered, RowHeld, Decided, HoldsRow
<1>5. CopyCurrent(q)'
  BY DEF CopyCurrent, RowHeld, HoldsRow
<1>6. UsedConsumed(q)'
  BY DEF UsedConsumed, Tx
<1> QED BY <1>1, <1>2, <1>3, <1>4, <1>5, <1>6

(* Only a request for a new link makes a link outstanding, and it retires    *)
(* every other one in the same commit.                                       *)
LEMMA SingleKept ==
  ASSUME IInv, TypeOK', NEW r \in Requests, Step(r)
  PROVE  SingleOutstanding'
<1> USE DEF IInv, Local, TypeOK, SingleOutstanding, OutstandingTokens, Outstanding
<1>1. CASE OutstandingTokens' \subseteq OutstandingTokens
  BY <1>1
<1>2. CASE ForgotCommit(r)
  <2>1. OutstandingTokens \subseteq tx[r].inval
    BY <1>2 DEF ForgotCommit, Covered, Decided, LinkHeld, HasLink, Ended
  <2> QED BY <1>2, <2>1 DEF ForgotCommit, Retired
<1>3. ASSUME ~ForgotCommit(r) PROVE OutstandingTokens' \subseteq OutstandingTokens
  BY <1>3 DEF Step, Signin, Change, Forgot, Complete, Admin, Abort, Rollback, Retired,
     LockOutstanding, SigninRead, SigninRehash, SigninRefresh, SigninIssue,
     ChangeAuthenticate, ChangeRefused, ChangeLock, ChangeTokens, ChangeCommit,
     ForgotLock, ForgotCooldown, ForgotTokens, CompleteToken, CompleteRefused,
     CompleteUser, CompleteTokens, CompleteCommit, AdminRead, AdminTokens,
     AdminCommit, SetActive
<1> QED BY <1>1, <1>2, <1>3

(* A request that commits had a link of its own, which was outstanding.      *)
LEMMA UsedOnceKept ==
  ASSUME IInv, TypeOK', NEW r \in Requests, Step(r)
  PROVE  LinkUsedOnce'
<1>1. \A q \in Requests \ {r} : tx'[q] = tx[q]
  BY OthersUndisturbed DEF Undisturbed
<1>2. tx'[r].pc = "committed" =>
        \A q \in Requests \ {r} : tx[q].pc = "committed" =>
          tx'[r].tok \cap tx[q].tok = {}
  <2> USE DEF IInv, Local, TypeOK, Tx, LinkHeld, UsedConsumed, HasLink, Ended, Outstanding
  <2>1. CASE CompleteCommit(r)
    BY <2>1 DEF CompleteCommit, Commit
  <2>2. CASE ~CompleteCommit(r)
    <3> USE DEF Commit, Starts
    <3>1. CASE Signin(r)
      BY <3>1 DEF Signin, SigninRead, SigninRehash, SigninRefresh, SigninIssue
    <3>2. CASE Change(r)
      <4>1. CASE ChangeAuthenticate(r)
        BY <4>1 DEF ChangeAuthenticate
      <4>2. CASE ChangeRefused(r)
        BY <4>2 DEF ChangeRefused, Rollback
      <4>3. CASE ChangeLock(r)
        BY <4>3 DEF ChangeLock
      <4>4. CASE ChangeTokens(r)
        BY <4>4 DEF ChangeTokens, LockOutstanding
      <4>5. CASE ChangeCommit(r)
        BY <4>5 DEF ChangeCommit
      <4> QED BY <3>2, <4>1, <4>2, <4>3, <4>4, <4>5 DEF Change
    <3>3. CASE Forgot(r)
      BY <3>3 DEF Forgot, ForgotLock, ForgotCooldown, ForgotTokens, ForgotCommit,
         LockOutstanding
    <3>4. CASE Complete(r)
      <4>1. CASE CompleteToken(r)
        BY <4>1 DEF CompleteToken
      <4>2. CASE CompleteRefused(r)
        BY <4>2 DEF CompleteRefused, Rollback
      <4>3. CASE CompleteUser(r)
        BY <4>3 DEF CompleteUser
      <4>4. CASE CompleteTokens(r)
        BY <4>4 DEF CompleteTokens, LockOutstanding
      <4> QED BY <2>2, <3>4, <4>1, <4>2, <4>3, <4>4 DEF Complete
    <3>5. CASE Admin(r)
      <4>1. CASE AdminRead(r)
        BY <4>1 DEF AdminRead
      <4>2. CASE AdminTokens(r)
        BY <4>2 DEF AdminTokens, LockOutstanding
      <4>3. CASE AdminCommit(r)
        BY <4>3 DEF AdminCommit
      <4>4. CASE SetActive(r)
        BY <4>4 DEF SetActive
      <4> QED BY <3>5, <4>1, <4>2, <4>3, <4>4 DEF Admin
    <3>6. CASE Abort(r)
      BY <3>6 DEF Abort, Rollback
    <3> QED BY <3>1, <3>2, <3>3, <3>4, <3>5, <3>6 DEF Step
  <2> QED BY <2>1, <2>2
<1> QED BY <1>1, <1>2 DEF IInv, LinkUsedOnce

-----------------------------------------------------------------------------
LEMMA InitIInv == Init => IInv
<1> SUFFICES ASSUME Init PROVE IInv
  OBVIOUS
<1>1. TypeOK
  BY InitTypeOK
<1>2. OutstandingTokens = {}
  BY DEF Init, OutstandingTokens, Outstanding
<1>3. \A r \in Requests : tx[r].pc = "new" /\ tx[r].tok = {}
  BY DEF Init
<1>4. \A r \in Requests : Local(r)
  BY <1>3 DEF Local, RowHeld, LinkHeld, RetiredHeld, Covered, CopyCurrent, UsedConsumed,
     HoldsRow, HasLink, Decided, Ended
<1> QED BY <1>1, <1>2, <1>3, <1>4 DEF IInv, SingleOutstanding, LinkUsedOnce

LEMMA NextIInv == IInv /\ [Next]_vars => IInv'
<1> SUFFICES ASSUME IInv, [Next]_vars PROVE IInv'
  OBVIOUS
<1>1. TypeOK'
  BY NextTypeOK DEF IInv
<1>2. ASSUME NEW r \in Requests, Step(r) PROVE IInv'
  <2>1. Local(r)'
    BY <1>1, <1>2, OwnPart
  <2>2. \A q \in Requests \ {r} : Local(q)'
    BY <1>1, <1>2, OthersUndisturbed, OthersPart
  <2> QED BY <1>1, <1>2, <2>1, <2>2, SingleKept, UsedOnceKept DEF IInv
<1>3. ASSUME NEW t \in Tokens, Expire(t) PROVE IInv'
  <2>1. \A q \in Requests : Undisturbed(q)
    BY <1>3 DEF Expire, Undisturbed, IInv, TypeOK, OutstandingTokens, Outstanding
  <2>2. \A q \in Requests : Local(q)'
    BY <1>1, <2>1, OthersPart
  <2>3. OutstandingTokens' \subseteq OutstandingTokens
    BY <1>3 DEF Expire, IInv, TypeOK, OutstandingTokens, Outstanding
  <2> QED BY <1>1, <1>3, <2>2, <2>3 DEF IInv, SingleOutstanding, LinkUsedOnce, Expire
<1>4. CASE UNCHANGED vars
  <2>1. \A q \in Requests : Undisturbed(q)
    BY <1>4 DEF vars, Undisturbed, OutstandingTokens
  <2>2. \A q \in Requests : Local(q)'
    BY <1>1, <2>1, OthersPart
  <2> QED BY <1>1, <1>4, <2>2 DEF IInv, SingleOutstanding, LinkUsedOnce, OutstandingTokens, vars
<1> QED BY <1>2, <1>3, <1>4 DEF Next, Step, Quiescent

THEOREM Invariance == Spec => []IInv
  BY InitIInv, NextIInv, PTL DEF Spec

(* No two links of a user are outstanding at a time, however many requests   *)
(* ask for one at once.                                                      *)
THEOREM OneLinkAtATime == Spec => []SingleOutstanding
  BY Invariance, PTL DEF IInv

(* No two completions of one link succeed.                                   *)
THEOREM LinksAreOneTime == Spec => []LinkUsedOnce
  BY Invariance, PTL DEF IInv

-----------------------------------------------------------------------------
(* A transaction of a completion, or of a change, is committed by that step. *)
LEMMA CommitSteps ==
  ASSUME IInv, [Next]_vars, NEW r \in Requests
  PROVE  /\ Commits(r, "c_commit") => CompleteCommit(r)
         /\ Commits(r, "h_commit") => ChangeCommit(r)
<1> SUFFICES ASSUME tx[r].pc \in {"c_commit", "h_commit"}, tx'[r].pc = "committed"
             PROVE  /\ tx[r].pc = "c_commit" => CompleteCommit(r)
                    /\ tx[r].pc = "h_commit" => ChangeCommit(r)
  BY DEF Commits
<1> USE DEF IInv, TypeOK
<1>1. ASSUME NEW q \in Requests, Step(q) PROVE q = r
  BY <1>1, OthersUndisturbed DEF Undisturbed
<1>2. \E q \in Requests : Step(q)
  BY DEF Next, Step, Expire, Quiescent, vars
<1>3. Step(r)
  BY <1>1, <1>2
<1>4. ~Signin(r) /\ ~Forgot(r) /\ ~Admin(r)
  BY DEF Starts, Signin, SigninRead, SigninRehash, SigninRefresh, SigninIssue,
     Forgot, ForgotLock, ForgotCooldown, ForgotTokens, ForgotCommit,
     Admin, AdminRead, AdminTokens, AdminCommit, SetActive
<1>5. ~Abort(r)
  BY DEF Abort, Rollback, Tx
<1>6. Change(r) => ChangeCommit(r)
  BY DEF Starts, Change, ChangeAuthenticate, ChangeRefused, ChangeLock, ChangeTokens
<1>7. Complete(r) => CompleteCommit(r)
  BY DEF Starts, Complete, CompleteToken, CompleteRefused, CompleteUser, CompleteTokens
<1> QED BY <1>3, <1>4, <1>5, <1>6, <1>7 DEF Step, ChangeCommit, CompleteCommit

(* A completed reset wrote the row from a copy that was still the row.       *)
THEOREM ResetsActOnTheRow == Spec => ResetActsOnCurrentRow
<1>1. ASSUME IInv, [Next]_vars, NEW r \in Requests, Commits(r, "c_commit")
      PROVE  row.active /\ row'.active /\ row'.hash # row.hash
             /\ row'.version = row.version + 1
  <2>1. CompleteCommit(r)
    BY <1>1, CommitSteps
  <2>2. tx[r].snap = row /\ row.active /\ tx[r].new # row.hash
    BY <1>1, <2>1 DEF IInv, Local, CopyCurrent, CompleteCommit
  <2>3. row \in Row
    BY <1>1 DEF IInv, TypeOK
  <2> QED BY <2>1, <2>2, <2>3 DEF CompleteCommit, Replace, Row
<1>2. IInv /\ [Next]_vars =>
        [\A r \in Requests : Commits(r, "c_commit") =>
           /\ row.active /\ row'.active
           /\ row'.hash # row.hash
           /\ row'.version = row.version + 1]_vars
  BY <1>1
<1> QED BY <1>2, Invariance, PTL DEF Spec, ResetActsOnCurrentRow

(* A password the user replaced leaves no usable link behind.                *)
THEOREM ReplacementRetiresLinks == Spec => OwnReplacementRetiresLinks
<1>1. ASSUME IInv, [Next]_vars, NEW r \in Requests,
             Commits(r, "c_commit") \/ Commits(r, "h_commit")
      PROVE  OutstandingTokens' = {}
  <2> USE DEF IInv, Local, TypeOK, Covered, Decided, OutstandingTokens, Outstanding, Retired
  <2>1. CASE CompleteCommit(r)
    BY <1>1, <2>1 DEF CompleteCommit
  <2>2. CASE ChangeCommit(r)
    BY <1>1, <2>2 DEF ChangeCommit, LinkHeld, HasLink, Ended
  <2> QED BY <1>1, <2>1, <2>2, CommitSteps
<1>2. IInv /\ [Next]_vars =>
        [\A r \in Requests : Commits(r, "c_commit") \/ Commits(r, "h_commit") =>
           OutstandingTokens' = {}]_vars
  BY <1>1
<1> QED BY <1>2, Invariance, PTL DEF Spec, OwnReplacementRetiresLinks

-----------------------------------------------------------------------------
(* Each commit is one step of the abstract links, every other step is none.  *)
LEMMA LinksStep == IInv /\ [Next]_vars => [Links!Next]_tokens
<1> SUFFICES ASSUME IInv, [Next]_vars, tokens' # tokens PROVE Links!Next
  OBVIOUS
<1> USE DEF IInv, Local, TypeOK, Tx, Retired, OutstandingTokens, Outstanding,
            Links!Outstanding, Links!Next
<1>1. ASSUME NEW t \in Tokens, Expire(t) PROVE Links!Next
  <2>1. Links!Expire(t)
    BY <1>1 DEF Expire, Links!Expire
  <2> QED BY <2>1
<1>2. ASSUME NEW r \in Requests, ForgotCommit(r) PROVE Links!Next
  <2>1. OutstandingTokens \subseteq tx[r].inval
    BY <1>2 DEF ForgotCommit, Covered, Decided, LinkHeld, HasLink, Ended
  <2>2. \A t \in tx[r].inval : tokens[t] \in Outstanding
    BY <1>2 DEF ForgotCommit, RetiredHeld, Decided
  <2>3. PICK t \in Tokens, delivered \in BOOLEAN :
          /\ tokens[t] = "absent"
          /\ tokens' = [Retired(tx[r].inval, {}) EXCEPT
                          ![t] = IF delivered THEN "live" ELSE "invalidated"]
    BY <1>2 DEF ForgotCommit
  <2>4. CASE delivered
    <3>1. Links!Issue(t)
      BY <2>1, <2>2, <2>3, <2>4 DEF Links!Issue
    <3> QED BY <3>1
  <2>5. CASE ~delivered
    <3>1. Links!Withdraw(t)
      BY <2>1, <2>2, <2>3, <2>5 DEF Links!Withdraw
    <3> QED BY <3>1
  <2> QED BY <2>4, <2>5
<1>3. ASSUME NEW r \in Requests, CompleteCommit(r) PROVE Links!Next
  <2>1. PICK t \in Tokens : tx[r].tok = {t} /\ tokens[t] \in Outstanding
    BY <1>3 DEF CompleteCommit, LinkHeld, HasLink
  <2>2. OutstandingTokens \subseteq tx[r].inval \cup {t}
    BY <1>3, <2>1 DEF CompleteCommit, Covered, Decided
  <2>3. \A u \in tx[r].inval : tokens[u] \in Outstanding
    BY <1>3 DEF CompleteCommit, RetiredHeld, Decided
  <2>4. Links!Consume(t)
    BY <1>3, <2>1, <2>2, <2>3 DEF CompleteCommit, Links!Consume
  <2> QED BY <2>4
<1>4. ASSUME NEW r \in Requests, ChangeCommit(r) \/ AdminCommit(r) PROVE Links!Next
  <2>1. \A u \in tx[r].inval : tokens[u] \in Outstanding
    BY <1>4 DEF ChangeCommit, AdminCommit, RetiredHeld, Decided
  <2>2. Links!Retire(tx[r].inval)
    BY <1>4, <2>1 DEF ChangeCommit, AdminCommit, Links!Retire
  <2>3. tx[r].inval \in SUBSET Tokens
    OBVIOUS
  <2> QED BY <2>2, <2>3
<1>5. ASSUME NEW r \in Requests, Step(r),
             ~ForgotCommit(r), ~CompleteCommit(r), ~ChangeCommit(r), ~AdminCommit(r)
      PROVE  FALSE
  BY <1>5 DEF Step, Signin, Change, Forgot, Complete, Admin, Abort, Rollback,
     LockOutstanding, SigninRead, SigninRehash, SigninRefresh, SigninIssue,
     ChangeAuthenticate, ChangeRefused, ChangeLock, ChangeTokens,
     ForgotLock, ForgotCooldown, ForgotTokens, CompleteToken, CompleteRefused,
     CompleteUser, CompleteTokens, AdminRead, AdminTokens, SetActive
<1> QED BY <1>1, <1>2, <1>3, <1>4, <1>5 DEF Next, Step, Quiescent, vars

(* The service keeps the promise of its one-time links.                      *)
THEOREM LinksImplemented == Spec => LinksRefine
<1>1. Init => Links!Init
  BY DEF Init, Links!Init
<1> QED BY <1>1, LinksStep, Invariance, PTL DEF Spec, LinksRefine, Links!Spec
=============================================================================
