---------------------------- MODULE Accounts ----------------------------
(***************************************************************************)
(* The administration of accounts (table users) and the invitations that    *)
(* activate them (table invitation_tokens): invite, resend, activate, and    *)
(* change a user's role or enable and disable an account.                   *)
(*                                                                         *)
(* A request is served by one session, one READ COMMITTED transaction after *)
(* the other; it writes when it commits (autoflush is off), and then only    *)
(* the columns that differ from what it read.  An UPDATE waits for the row's *)
(* lock like SELECT ... FOR UPDATE does.  What becomes of an account's       *)
(* password is module Credentials.                                          *)
(*                                                                         *)
(* A request inserts at most one invitation_tokens row, so it names that row *)
(* too.                                                                     *)
(***************************************************************************)
EXTENDS Naturals, FiniteSets

CONSTANTS
  Users,       \* the accounts there are or may be created, one per e-mail
  Requests,    \* the requests of a behaviour, each made once
  Faulty,      \* the requests during which something may fail or crash
  NoOne        \* no user, no request

ASSUME UsersAssumption == IsFiniteSet(Users)
ASSUME NoOneAssumption == NoOne \notin Users \cup Requests

VARIABLES
  user,        \* user[u]: the users row of u, as committed
  link,        \* link[l]: the invitation_tokens row request l inserts
  userLock,    \* the request holding the lock of user u's row
  linkLock,    \* ... and of link l's row
  rq           \* rq[r]: where request r is, what it read, what it will write

vars == <<user, link, userLock, linkLock, rq>>

-----------------------------------------------------------------------------
Roles  == {"agent", "admin"}
Rights == [role: Roles, enabled: BOOLEAN]

(* Rows that are not there yet are absent, respectively owned by no one. *)
UserRow == [status: {"absent", "pending", "active"}, role: Roles, enabled: BOOLEAN]

LinkRow == [owner: Users \cup {NoOne}, sent: BOOLEAN,
            age: {"recent", "settled", "expired"},
            consumed: BOOLEAN, invalidated: BOOLEAN]

InFlight == {"authorized",
             "invite", "deliver", "record", "undo_read", "undo",
             "cooldown", "collect", "retire", "issue",
             "act_user", "act_commit",
             "scan", "lock", "update"}

Request == [pc: {"new", "done"} \cup InFlight,
            actor: Users \cup {NoOne}, target: Users \cup {NoOne},
            link: Requests \cup {NoOne}, retire: SUBSET Requests,
            snap: Rights, new: Rights, admins: SUBSET Users]

TypeOK ==
  /\ user \in [Users -> UserRow]
  /\ link \in [Requests -> LinkRow]
  /\ userLock \in [Users -> Requests \cup {NoOne}]
  /\ linkLock \in [Requests -> Requests \cup {NoOne}]
  /\ rq \in [Requests -> Request]

ActiveAdmins ==
  {u \in Users : user[u].status = "active" /\ user[u].enabled /\ user[u].role = "admin"}

NoRights == [role |-> "agent", enabled |-> FALSE]

Idle(pc) == [pc |-> pc, actor |-> NoOne, target |-> NoOne, link |-> NoOne,
             retire |-> {}, snap |-> NoRights, new |-> NoRights, admins |-> {}]

NewLink(u) == [owner |-> u, sent |-> FALSE, age |-> "recent",
               consumed |-> FALSE, invalidated |-> FALSE]

(* Accounts at any point of their life, and somebody to administer them.     *)
(* The invitations of those still pending were not delivered.                *)
Init ==
  /\ user \in [Users -> UserRow]
  /\ \A u \in Users : user[u].status = "absent" =>
       user[u] = [status |-> "absent", role |-> "agent", enabled |-> FALSE]
  /\ ActiveAdmins # {}
  /\ link = [l \in Requests |-> NewLink(NoOne)]
  /\ userLock = [u \in Users |-> NoOne]
  /\ linkLock = [l \in Requests |-> NoOne]
  /\ rq = [r \in Requests |-> Idle("new")]

-----------------------------------------------------------------------------
Free(lock, x, r) == lock[x] \in {NoOne, r}

(* COMMIT or ROLLBACK gives back every row lock. *)
Release(r) ==
  /\ userLock' = [u \in Users |-> IF userLock[u] = r THEN NoOne ELSE userLock[u]]
  /\ linkLock' = [l \in Requests |-> IF linkLock[l] = r THEN NoOne ELSE linkLock[l]]

End(r) == rq' = [rq EXCEPT ![r] = Idle("done")] /\ Release(r)

Outstanding(u) ==
  {l \in Requests : link[l].owner = u /\ ~link[l].consumed /\ ~link[l].invalidated}

(* require_role("admin"), before anything else an administrator's request    *)
(* does; what comes later does not ask again.                                *)
Authorize(r) ==
  /\ rq[r].pc = "new"
  /\ \E a \in ActiveAdmins :
       rq' = [rq EXCEPT ![r].pc = "authorized", ![r].actor = a]
  /\ UNCHANGED <<user, link, userLock, linkLock>>

-----------------------------------------------------------------------------
(* Invitations *)

(* create_invited_user: an address already taken is refused, by the query    *)
(* or by the constraint on the column. *)
InviteCheck(r) ==
  /\ rq[r].pc = "authorized"
  /\ \E u \in Users :
       /\ user[u].status = "absent"
       /\ rq' = [rq EXCEPT ![r].pc = "invite", ![r].target = u]
  /\ UNCHANGED <<user, link, userLock, linkLock>>

InviteCommit(r) ==
  /\ rq[r].pc = "invite"
  /\ user[rq[r].target].status = "absent"
  /\ \E role \in Roles :
       user' = [user EXCEPT ![rq[r].target] =
                  [status |-> "pending", role |-> role, enabled |-> TRUE]]
  /\ link' = [link EXCEPT ![r] = NewLink(rq[r].target)]
  /\ rq' = [rq EXCEPT ![r].pc = "deliver"]
  /\ UNCHANGED <<userLock, linkLock>>

InviteConflict(r) ==
  /\ rq[r].pc = "invite"
  /\ user[rq[r].target].status # "absent"
  /\ End(r)
  /\ UNCHANGED <<user, link>>

(* resend_invitation *)
ResendRead(r) ==
  /\ rq[r].pc = "authorized"
  /\ \E u \in Users :
       /\ user[u].status = "pending"
       /\ rq' = [rq EXCEPT ![r].pc = "cooldown", ![r].target = u]
  /\ UNCHANGED <<user, link, userLock, linkLock>>

(* The latest link is recent if any is. *)
ResendCooldown(r) ==
  /\ rq[r].pc = "cooldown"
  /\ IF \E l \in Requests : link[l].owner = rq[r].target /\ link[l].age = "recent"
       THEN End(r)
       ELSE rq' = [rq EXCEPT ![r].pc = "collect"] /\ UNCHANGED <<userLock, linkLock>>
  /\ UNCHANGED <<user, link>>

(* The links outstanding when the statement starts are locked, and those     *)
(* still outstanding when they are locked will be retired.                   *)
ResendCollect(r) ==
  /\ rq[r].pc = "collect"
  /\ rq' = [rq EXCEPT ![r].pc = "retire", ![r].retire = Outstanding(rq[r].target)]
  /\ UNCHANGED <<user, link, userLock, linkLock>>

ResendLock(r) ==
  /\ rq[r].pc = "retire"
  /\ \A l \in rq[r].retire : Free(linkLock, l, r)
  /\ LET still == rq[r].retire \cap Outstanding(rq[r].target) IN
       /\ linkLock' = [l \in Requests |-> IF l \in still THEN r ELSE linkLock[l]]
       /\ rq' = [rq EXCEPT ![r].pc = "issue", ![r].retire = still]
  /\ UNCHANGED <<user, link, userLock>>

ResendCommit(r) ==
  /\ rq[r].pc = "issue"
  /\ link' = [l \in Requests |->
       IF l = r THEN NewLink(rq[r].target)
       ELSE [link[l] EXCEPT !.invalidated = @ \/ l \in rq[r].retire]]
  /\ rq' = [rq EXCEPT ![r].pc = "deliver", ![r].retire = {}]
  /\ Release(r)
  /\ UNCHANGED user

(* _deliver: the link goes out and the outcome is committed.  When either    *)
(* fails, the link is read again and retired unless it has been used.        *)
Deliver(r) ==
  /\ rq[r].pc = "deliver"
  /\ rq' = [rq EXCEPT ![r].pc = "record"]
  /\ link' = [link EXCEPT ![r].sent = TRUE]
  /\ UNCHANGED <<user, userLock, linkLock>>

Record(r) ==
  /\ rq[r].pc = "record"
  /\ Free(linkLock, r, r)
  /\ End(r)
  /\ UNCHANGED <<user, link>>

DeliveryFails(r) ==
  /\ r \in Faulty
  /\ rq[r].pc \in {"deliver", "record"}
  /\ rq' = [rq EXCEPT ![r].pc = "undo_read"]
  /\ UNCHANGED <<user, link, userLock, linkLock>>

UndoRead(r) ==
  /\ rq[r].pc = "undo_read"
  /\ IF link[r].consumed
       THEN End(r)
       ELSE rq' = [rq EXCEPT ![r].pc = "undo"] /\ UNCHANGED <<userLock, linkLock>>
  /\ UNCHANGED <<user, link>>

Undo(r) ==
  /\ rq[r].pc = "undo"
  /\ Free(linkLock, r, r)
  /\ link' = [link EXCEPT ![r].invalidated = TRUE]
  /\ End(r)
  /\ UNCHANGED user

(* Time passes: the cooldown first, then the lifetime of a link that may     *)
(* still be used (of any other it makes no difference).                      *)
Age(l) ==
  /\ link[l].owner # NoOne
  /\ \/ /\ link[l].age = "recent"
        /\ link' = [link EXCEPT ![l].age = "settled"]
     \/ /\ link[l].age = "settled" /\ l \in Outstanding(link[l].owner)
        /\ link' = [link EXCEPT ![l].age = "expired"]
  /\ UNCHANGED <<user, userLock, linkLock, rq>>

-----------------------------------------------------------------------------
(* complete_activation: the link's row, then the account's, are locked       *)
(* before they are checked.                                                  *)
Usable(l) ==
  /\ link[l].owner # NoOne
  /\ ~link[l].consumed /\ ~link[l].invalidated /\ link[l].age # "expired"

ActivateToken(r) ==
  /\ rq[r].pc = "new"
  /\ \E l \in Requests :
       /\ link[l].sent /\ Usable(l)
       /\ linkLock[l] = NoOne
       /\ linkLock' = [linkLock EXCEPT ![l] = r]
       /\ rq' = [rq EXCEPT ![r].pc = "act_user", ![r].link = l, ![r].target = link[l].owner]
  /\ UNCHANGED <<user, link, userLock>>

(* Fault: the account is checked on a row read without a lock. *)
ActivateUser_Unlocked(r) ==
  /\ rq[r].pc = "act_user"
  /\ IF user[rq[r].target].status # "pending"
       THEN End(r)
       ELSE rq' = [rq EXCEPT ![r].pc = "act_commit"] /\ UNCHANGED <<userLock, linkLock>>
  /\ UNCHANGED <<user, link>>

ActivateUser(r) ==
  /\ rq[r].pc = "act_user"
  /\ userLock[rq[r].target] = NoOne
  /\ IF user[rq[r].target].status # "pending"
       THEN End(r)
       ELSE /\ rq' = [rq EXCEPT ![r].pc = "act_commit"]
            /\ userLock' = [userLock EXCEPT ![rq[r].target] = r]
            /\ UNCHANGED linkLock
  /\ UNCHANGED <<user, link>>

ActivateCommit(r) ==
  /\ rq[r].pc = "act_commit"
  /\ user' = [user EXCEPT ![rq[r].target].status = "active"]
  /\ link' = [link EXCEPT ![rq[r].link].consumed = TRUE]
  /\ End(r)

-----------------------------------------------------------------------------
(* update_user *)

(* The change takes an administrator away, for all the request has read. *)
Removal(snap, new) ==
  snap.enabled /\ snap.role = "admin" /\ (~new.enabled \/ new.role # "admin")

RightsOf(u) == [role |-> user[u].role, enabled |-> user[u].enabled]

(* The target is read without a lock; an administrator who is the target has *)
(* been read already, to be authorized, and is not read again.               *)
UpdateRead(r) ==
  /\ rq[r].pc = "authorized"
  /\ \E u \in Users, new \in Rights :
       LET snap == IF u = rq[r].actor THEN [role |-> "admin", enabled |-> TRUE]
                   ELSE RightsOf(u)
       IN /\ user[u].status # "absent" /\ new # snap
          /\ u = rq[r].actor => ~Removal(snap, new)
          /\ rq' = [rq EXCEPT ![r].pc = IF Removal(snap, new) THEN "scan" ELSE "update",
                              ![r].target = u, ![r].snap = snap, ![r].new = new]
  /\ UNCHANGED <<user, link, userLock, linkLock>>

(* _lock_active_admin_ids: the rows that match when the statement starts are *)
(* locked, and those that still match when they are locked are counted.      *)
UpdateScan(r) ==
  /\ rq[r].pc = "scan"
  /\ rq' = [rq EXCEPT ![r].pc = "lock", ![r].admins = ActiveAdmins]
  /\ UNCHANGED <<user, link, userLock, linkLock>>

(* Fault: the administrators are counted without a lock. *)
UpdateLock_Unlocked(r) ==
  /\ rq[r].pc = "lock"
  /\ IF Cardinality(rq[r].admins) <= 1
       THEN End(r)
       ELSE rq' = [rq EXCEPT ![r].pc = "update"] /\ UNCHANGED <<userLock, linkLock>>
  /\ UNCHANGED <<user, link>>

UpdateLock(r) ==
  /\ rq[r].pc = "lock"
  /\ \A u \in rq[r].admins : Free(userLock, u, r)
  /\ LET still == rq[r].admins \cap ActiveAdmins IN
       IF Cardinality(still) <= 1
         THEN End(r)
         ELSE /\ rq' = [rq EXCEPT ![r].pc = "update", ![r].admins = still]
              /\ userLock' = [u \in Users |-> IF u \in still THEN r ELSE userLock[u]]
              /\ UNCHANGED linkLock
  /\ UNCHANGED <<user, link>>

(* Fault: a disabled account gets an activation status of its own. *)
UpdateCommit_Status(r) ==
  /\ rq[r].pc = "update"
  /\ Free(userLock, rq[r].target, r)
  /\ user' = [user EXCEPT
       ![rq[r].target].status = IF rq[r].new.enabled THEN @ ELSE "disabled",
       ![rq[r].target].role = rq[r].new.role, ![rq[r].target].enabled = rq[r].new.enabled]
  /\ End(r)
  /\ UNCHANGED link

UpdateCommit(r) ==
  /\ rq[r].pc = "update"
  /\ Free(userLock, rq[r].target, r)
  /\ LET snap == rq[r].snap
         new  == rq[r].new
     IN user' = [user EXCEPT
          ![rq[r].target].role    = IF new.role # snap.role THEN new.role ELSE @,
          ![rq[r].target].enabled = IF new.enabled # snap.enabled THEN new.enabled ELSE @]
  /\ End(r)
  /\ UNCHANGED link

-----------------------------------------------------------------------------
(* The database fails, or the process stops: what was not committed is not.  *)
Abort(r) ==
  /\ r \in Faulty
  /\ rq[r].pc \in InFlight
  /\ End(r)
  /\ UNCHANGED <<user, link>>

Quiescent ==
  /\ \A r \in Requests : rq[r].pc \notin InFlight
  /\ UNCHANGED vars

Invitation(r) ==
  \/ InviteCheck(r) \/ InviteCommit(r) \/ InviteConflict(r)
  \/ ResendRead(r) \/ ResendCooldown(r) \/ ResendCollect(r) \/ ResendLock(r)
  \/ ResendCommit(r)
  \/ Deliver(r) \/ Record(r) \/ DeliveryFails(r) \/ UndoRead(r) \/ Undo(r)

Activation(r) == ActivateToken(r) \/ ActivateUser(r) \/ ActivateCommit(r)

Update(r) == UpdateRead(r) \/ UpdateScan(r) \/ UpdateLock(r) \/ UpdateCommit(r)

Step(r) == Authorize(r) \/ Invitation(r) \/ Activation(r) \/ Update(r) \/ Abort(r)

Next == (\E r \in Requests : Step(r)) \/ (\E l \in Requests : Age(l)) \/ Quiescent

Spec == Init /\ [][Next]_vars

-----------------------------------------------------------------------------
(* Properties *)

(* An account is activated once, from pending, and by a link that no resend   *)
(* has retired: what complete_activation checked of the link and of the       *)
(* account still holds when it commits, however many links are outstanding.   *)
ActivatedOnce ==
  [][\A l \in Requests : link'[l].consumed /\ ~link[l].consumed =>
       /\ ~link[l].invalidated
       /\ user[link[l].owner].status = "pending"
       /\ user'[link[l].owner].status = "active"]_vars

(* A change decided to take an administrator away leaves another active one,  *)
(* whatever other changes are decided or committed meanwhile.                 *)
RemovalLeavesAdmin ==
  [][\A r \in Requests :
       UpdateCommit(r) /\ Removal(rq[r].snap, rq[r].new) =>
         ActiveAdmins' \ {rq[r].target} # {}]_vars

(* There is always an active administrator: update_user refuses to disable or *)
(* demote the last one (FINAL_ADMIN_CONFLICT).                                *)
AdminRemains == ActiveAdmins # {}
=============================================================================
