------------------------- MODULE AccountsProofs -------------------------
(***************************************************************************)
(* Safety of Accounts, for any accounts, requests and failures.             *)
(***************************************************************************)
EXTENDS Accounts, FiniteSetTheorems, TLAPS

(* An activation holds the row of the link it will consume, still usable.    *)
HoldsLink(r) ==
  rq[r].pc \in {"act_user", "act_commit"} =>
    /\ rq[r].link \in Requests /\ rq[r].target \in Users
    /\ linkLock[rq[r].link] = r
    /\ link[rq[r].link].owner = rq[r].target
    /\ ~link[rq[r].link].consumed /\ ~link[rq[r].link].invalidated

(* ... and, about to commit, the row of the account, still pending.          *)
HoldsUser(r) ==
  rq[r].pc = "act_commit" =>
    userLock[rq[r].target] = r /\ user[rq[r].target].status = "pending"

(* A resend holds the links it will retire.                                  *)
HoldsRetired(r) ==
  rq[r].pc = "issue" => \A l \in rq[r].retire : linkLock[l] = r

(* A removal that passed the guard holds the administrators it counted, of   *)
(* whom one is not its target.                                               *)
HoldsAdmins(r) ==
  rq[r].pc = "update" /\ Removal(rq[r].snap, rq[r].new) =>
    /\ \A u \in rq[r].admins : userLock[u] = r /\ u \in ActiveAdmins
    /\ \E u \in rq[r].admins : u # rq[r].target

(* A request that has not issued its link has none.                          *)
Unissued(r) ==
  rq[r].pc \in {"new", "authorized", "invite", "cooldown", "collect", "retire", "issue"} =>
    link[r].owner = NoOne

Holds(r) ==
  HoldsLink(r) /\ HoldsUser(r) /\ HoldsRetired(r) /\ HoldsAdmins(r) /\ Unissued(r)

IInv == TypeOK /\ \A r \in Requests : Holds(r)

(* What a step of r leaves to the others: their locks, and what they rely on *)
(* in the rows they hold.                                                    *)
Respects(r) ==
  /\ \A s \in Requests \ {r} : rq'[s] = rq[s]
  /\ \A l \in Requests : linkLock[l] \notin {NoOne, r} => linkLock'[l] = linkLock[l]
  /\ \A u \in Users : userLock[u] \notin {NoOne, r} => userLock'[u] = userLock[u]
  /\ \A l \in Requests : linkLock[l] \notin {NoOne, r} /\ link[l].owner # NoOne =>
       /\ link'[l].owner = link[l].owner
       /\ link'[l].consumed = link[l].consumed
       /\ link'[l].invalidated = link[l].invalidated
  /\ \A u \in Users : userLock[u] \notin {NoOne, r} =>
       /\ user[u].status = "pending" => user'[u].status = "pending"
       /\ u \in ActiveAdmins => u \in ActiveAdmins'
  /\ \A l \in Requests \ {r} : link[l].owner = NoOne => link'[l].owner = NoOne

-----------------------------------------------------------------------------
(* Some member of a finite set of more than one is not a given value.        *)
LEMMA AnotherOne ==
  ASSUME NEW S, IsFiniteSet(S), ~(Cardinality(S) <= 1), NEW t
  PROVE  \E x \in S : x # t
<1> SUFFICES ASSUME \A x \in S : x = t PROVE FALSE
  OBVIOUS
<1>1. S \subseteq {t}
  OBVIOUS
<1>2. IsFiniteSet({t}) /\ Cardinality({t}) = 1
  BY FS_Singleton
<1>3. Cardinality(S) <= Cardinality({t})
  BY <1>1, <1>2, FS_Subset
<1> QED BY <1>2, <1>3

(* A step that respects the locks of the others keeps what they rely on.     *)
LEMMA OthersKeep ==
  ASSUME IInv, NEW r \in Requests, Respects(r)
  PROVE  \A s \in Requests \ {r} : Holds(s)'
<1> USE DEF IInv
<1> SUFFICES ASSUME NEW s \in Requests \ {r} PROVE Holds(s)'
  OBVIOUS
<1>1. rq'[s] = rq[s] /\ s # NoOne /\ s \in Requests
  BY NoOneAssumption DEF Respects
<1>2. HoldsLink(s) /\ HoldsUser(s) /\ HoldsRetired(s) /\ HoldsAdmins(s) /\ Unissued(s)
  BY DEF Holds
<1>3. HoldsLink(s)'
  BY <1>1, <1>2, NoOneAssumption DEF HoldsLink, Respects
<1>4. HoldsUser(s)'
  BY <1>1, <1>2 DEF HoldsUser, HoldsLink, Respects
<1>5. HoldsRetired(s)'
  <2> SUFFICES ASSUME rq[s].pc = "issue", NEW l \in rq[s].retire PROVE linkLock'[l] = s
    BY <1>1 DEF HoldsRetired
  <2>1. l \in Requests
    BY <1>1 DEF TypeOK, Request
  <2> QED BY <1>1, <1>2, <2>1 DEF HoldsRetired, Respects
<1>6. HoldsAdmins(s)'
  <2> SUFFICES ASSUME rq[s].pc = "update", Removal(rq[s].snap, rq[s].new)
               PROVE  /\ \A u \in rq[s].admins : userLock'[u] = s /\ u \in ActiveAdmins'
                      /\ \E u \in rq[s].admins : u # rq[s].target
    BY <1>1 DEF HoldsAdmins, Removal
  <2>1. rq[s].admins \subseteq Users
    BY <1>1 DEF TypeOK, Request
  <2> QED BY <1>1, <1>2, <2>1 DEF HoldsAdmins, Respects
<1>7. Unissued(s)'
  BY <1>1, <1>2 DEF Unissued, Respects
<1> QED BY <1>3, <1>4, <1>5, <1>6, <1>7 DEF Holds

-----------------------------------------------------------------------------
(* What ending a transaction and a request does to the locks and to rq.      *)
LEMMA Releases ==
  ASSUME TypeOK, NEW r \in Requests, Release(r)
  PROVE  /\ userLock' \in [Users -> Requests \cup {NoOne}]
         /\ linkLock' \in [Requests -> Requests \cup {NoOne}]
         /\ \A l \in Requests : linkLock[l] \notin {NoOne, r} => linkLock'[l] = linkLock[l]
         /\ \A u \in Users : userLock[u] \notin {NoOne, r} => userLock'[u] = userLock[u]
BY DEF TypeOK, Release

LEMMA Ends ==
  ASSUME TypeOK, NEW r \in Requests, End(r)
  PROVE  /\ rq' \in [Requests -> Request] /\ rq'[r].pc = "done"
         /\ \A s \in Requests \ {r} : rq'[s] = rq[s]
         /\ Holds(r)'
<1>1. Idle("done") \in Request
  BY DEF Idle, Request, NoRights, Rights, Roles
<1>2. rq' = [rq EXCEPT ![r] = Idle("done")]
  BY DEF End
<1>3. /\ rq' \in [Requests -> Request] /\ rq'[r] = Idle("done")
      /\ \A s \in Requests \ {r} : rq'[s] = rq[s]
  BY <1>1, <1>2 DEF TypeOK
<1>4. rq'[r].pc = "done"
  BY <1>3 DEF Idle
<1>5. Holds(r)'
  BY <1>4 DEF Holds, HoldsLink, HoldsUser, HoldsRetired, HoldsAdmins, Unissued
<1> QED BY <1>3, <1>4, <1>5

(* What a step that writes a new record for r does to rq.                    *)
LEMMA Moved ==
  ASSUME TypeOK, NEW r \in Requests, NEW rec \in Request, rq' = [rq EXCEPT ![r] = rec]
  PROVE  /\ rq' \in [Requests -> Request] /\ rq'[r] = rec
         /\ \A s \in Requests \ {r} : rq'[s] = rq[s]
BY DEF TypeOK

LEMMA PcMoved ==
  ASSUME TypeOK, NEW r \in Requests, NEW pc \in InFlight, rq' = [rq EXCEPT ![r].pc = pc]
  PROVE  /\ rq' \in [Requests -> Request]
         /\ \A s \in Requests \ {r} : rq'[s] = rq[s]
         /\ rq'[r].pc = pc /\ rq'[r].target = rq[r].target /\ rq'[r].link = rq[r].link
         /\ rq'[r].retire = rq[r].retire
<1> DEFINE rec == [rq[r] EXCEPT !.pc = pc]
<1>1. rq[r] \in Request
  BY DEF TypeOK
<1>2. rec \in Request /\ rec.pc = pc /\ rec.target = rq[r].target /\ rec.link = rq[r].link
      /\ rec.retire = rq[r].retire
  BY <1>1 DEF Request
<1>3. rq' = [rq EXCEPT ![r] = rec]
  OBVIOUS
<1> HIDE DEF rec
<1> QED BY <1>2, <1>3, Moved

(* A step that moves only r, or ends it, writing no row, keeps everything.   *)
LEMMA EndKeeps ==
  ASSUME IInv, NEW r \in Requests, End(r), UNCHANGED <<user, link>>
  PROVE  IInv'
<1>1. TypeOK /\ Release(r)
  BY DEF IInv, End
<1>2. TypeOK'
  BY <1>1, Ends, Releases DEF TypeOK
<1>3. Respects(r)
  BY <1>1, Ends, Releases DEF Respects, ActiveAdmins
<1> QED BY <1>1, <1>2, <1>3, Ends, OthersKeep DEF IInv

LEMMA MoveKeeps ==
  ASSUME IInv, NEW r \in Requests, UNCHANGED <<user, link, userLock, linkLock>>,
         rq' \in [Requests -> Request], \A s \in Requests \ {r} : rq'[s] = rq[s],
         Holds(r)'
  PROVE  IInv'
<1>1. TypeOK
  BY DEF IInv
<1>2. TypeOK'
  BY <1>1 DEF TypeOK
<1>3. Respects(r)
  BY DEF Respects, ActiveAdmins
<1> QED BY <1>2, <1>3, OthersKeep DEF IInv

-----------------------------------------------------------------------------
(* Between its transactions, and before its writes, a request relies on      *)
(* nothing but its link.                                                     *)
LEMMA Relies ==
  ASSUME NEW r \in Requests, Unissued(r)',
         rq'[r].pc \notin {"act_user", "act_commit", "issue", "update"}
  PROVE  Holds(r)'
BY DEF Holds, HoldsLink, HoldsUser, HoldsRetired, HoldsAdmins

LEMMA ReadKeeps ==
  ASSUME IInv, NEW r \in Requests, Authorize(r) \/ InviteCheck(r) \/ ResendRead(r)
  PROVE  IInv'
<1>1. PICK u \in Users :
        \/ rq' = [rq EXCEPT ![r].pc = "authorized", ![r].actor = u]
        \/ rq' = [rq EXCEPT ![r].pc = "invite", ![r].target = u]
        \/ rq' = [rq EXCEPT ![r].pc = "cooldown", ![r].target = u]
  BY DEF Authorize, InviteCheck, ResendRead, ActiveAdmins
<1>2. TypeOK /\ rq[r] \in Request
  BY DEF IInv, TypeOK
<1>3. PICK rec \in Request : rq' = [rq EXCEPT ![r] = rec]
                             /\ rec.pc \in {"authorized", "invite", "cooldown"}
  <2>1. CASE rq' = [rq EXCEPT ![r].pc = "authorized", ![r].actor = u]
    <3> DEFINE rec == [rq[r] EXCEPT !.pc = "authorized", !.actor = u]
    <3>1. rec \in Request /\ rec.pc = "authorized"
      BY <1>2 DEF Request, InFlight
    <3>2. rq' = [rq EXCEPT ![r] = rec]
      BY <2>1
    <3> HIDE DEF rec
    <3> QED BY <3>1, <3>2
  <2>2. ASSUME NEW pc \in {"invite", "cooldown"},
               rq' = [rq EXCEPT ![r].pc = pc, ![r].target = u]
        PROVE  \E rec \in Request : rq' = [rq EXCEPT ![r] = rec] /\ rec.pc = pc
    <3> DEFINE rec == [rq[r] EXCEPT !.pc = pc, !.target = u]
    <3>1. rec \in Request /\ rec.pc = pc
      BY <1>2 DEF Request, InFlight
    <3>2. rq' = [rq EXCEPT ![r] = rec]
      BY <2>2
    <3> HIDE DEF rec
    <3> QED BY <3>1, <3>2
  <2> QED BY <1>1, <2>1, <2>2
<1>4. rq[r].pc \in {"new", "authorized"} /\ UNCHANGED <<user, link, userLock, linkLock>>
  BY DEF Authorize, InviteCheck, ResendRead
<1>5. Unissued(r)'
  BY <1>4 DEF IInv, Holds, Unissued
<1>6. Holds(r)'
  BY <1>2, <1>3, <1>5, Moved, Relies
<1> QED BY <1>2, <1>3, <1>4, <1>6, Moved, MoveKeeps

LEMMA CollectKeeps ==
  ASSUME IInv, NEW r \in Requests, ResendCollect(r) \/ UpdateScan(r)
  PROVE  IInv'
<1>1. TypeOK /\ rq[r] \in Request
  BY DEF IInv, TypeOK
<1>2. PICK rec \in Request : rq' = [rq EXCEPT ![r] = rec] /\ rec.pc \in {"retire", "lock"}
                             /\ (rec.pc = "retire" => rq[r].pc = "collect")
  <2>1. CASE ResendCollect(r)
    <3> DEFINE S == Outstanding(rq[r].target)
               rec == [rq[r] EXCEPT !.pc = "retire", !.retire = S]
    <3>1. S \in SUBSET Requests
      BY DEF Outstanding
    <3>2. rq' = [rq EXCEPT ![r] = rec] /\ rq[r].pc = "collect"
      BY <2>1 DEF ResendCollect
    <3> HIDE DEF S
    <3>3. rec \in Request /\ rec.pc = "retire"
      BY <1>1, <3>1 DEF Request, InFlight
    <3> HIDE DEF rec
    <3> QED BY <3>2, <3>3
  <2>2. CASE UpdateScan(r)
    <3> DEFINE S == ActiveAdmins
               rec == [rq[r] EXCEPT !.pc = "lock", !.admins = S]
    <3>1. S \in SUBSET Users
      BY DEF ActiveAdmins
    <3>2. rq' = [rq EXCEPT ![r] = rec]
      BY <2>2 DEF UpdateScan
    <3> HIDE DEF S
    <3>3. rec \in Request /\ rec.pc = "lock"
      BY <1>1, <3>1 DEF Request, InFlight
    <3> HIDE DEF rec
    <3> QED BY <3>2, <3>3
  <2> QED BY <2>1, <2>2
<1>3. UNCHANGED <<user, link, userLock, linkLock>>
  BY DEF ResendCollect, UpdateScan
<1>4. rq'[r] = rec
  BY <1>1, <1>2, Moved
<1>5. Unissued(r)'
  BY <1>2, <1>3, <1>4 DEF IInv, Holds, Unissued
<1>6. Holds(r)'
  BY <1>2, <1>4, <1>5, Relies
<1> QED BY <1>1, <1>2, <1>3, <1>6, Moved, MoveKeeps

(* The steps that only go on, or end.                                        *)
LEMMA GoOnKeeps ==
  ASSUME IInv, NEW r \in Requests, ResendCooldown(r) \/ DeliveryFails(r) \/ UndoRead(r)
  PROVE  IInv'
<1>1. TypeOK /\ UNCHANGED <<user, link>>
  BY DEF IInv, ResendCooldown, DeliveryFails, UndoRead
<1>2. CASE End(r)
  BY <1>1, <1>2, EndKeeps
<1>3. CASE ~End(r)
  <2>1. PICK pc \in {"collect", "undo_read", "undo"} : rq' = [rq EXCEPT ![r].pc = pc]
                                                       /\ (pc = "collect" => rq[r].pc = "cooldown")
    BY <1>3 DEF ResendCooldown, DeliveryFails, UndoRead
  <2>2. UNCHANGED <<userLock, linkLock>> /\ pc \in InFlight
    BY <1>3 DEF ResendCooldown, DeliveryFails, UndoRead, InFlight
  <2>3. rq'[r].pc = pc
    BY <1>1, <2>1, <2>2, PcMoved
  <2>4. Unissued(r)'
    BY <1>1, <2>1, <2>3 DEF IInv, Holds, Unissued
  <2>5. Holds(r)'
    BY <2>1, <2>3, <2>4, Relies
  <2> QED BY <1>1, <2>1, <2>2, <2>5, PcMoved, MoveKeeps
<1> QED BY <1>2, <1>3

LEMMA UpdateReadKeeps ==
  ASSUME IInv, NEW r \in Requests, UpdateRead(r)
  PROVE  IInv'
<1>1. TypeOK /\ rq[r] \in Request
  BY DEF IInv, TypeOK
<1>2. PICK u \in Users, new \in Rights, snap \in Rights :
        rq' = [rq EXCEPT ![r].pc = IF Removal(snap, new) THEN "scan" ELSE "update",
                         ![r].target = u, ![r].snap = snap, ![r].new = new]
  <2> DEFINE Read(u) == IF u = rq[r].actor THEN [role |-> "admin", enabled |-> TRUE]
                        ELSE RightsOf(u)
  <2>1. PICK u \in Users, new \in Rights :
          rq' = [rq EXCEPT ![r].pc = IF Removal(Read(u), new) THEN "scan" ELSE "update",
                           ![r].target = u, ![r].snap = Read(u), ![r].new = new]
    BY DEF UpdateRead
  <2>2. Read(u) \in Rights
    BY <1>1 DEF TypeOK, UserRow, RightsOf, Rights, Roles
  <2> HIDE DEF Read
  <2> QED BY <2>1, <2>2
<1> DEFINE pc == IF Removal(snap, new) THEN "scan" ELSE "update"
           rec == [rq[r] EXCEPT !.pc = pc, !.target = u, !.snap = snap, !.new = new]
<1>3. rq' = [rq EXCEPT ![r] = rec]
  BY <1>2
<1>4. pc \in {"scan", "update"} /\ (pc = "update" => ~Removal(snap, new))
  OBVIOUS
<1> HIDE DEF pc
<1>5. rec \in Request /\ rec.pc = pc /\ rec.snap = snap /\ rec.new = new
  BY <1>1, <1>4 DEF Request, InFlight
<1> HIDE DEF rec
<1>6. rq'[r] = rec /\ UNCHANGED <<user, link, userLock, linkLock>>
  BY <1>1, <1>3, <1>5, Moved DEF UpdateRead
<1>7. ~Removal(rec.snap, rec.new) \/ pc = "scan"
  BY <1>4, <1>5
<1>8. HoldsAdmins(r)'
  BY <1>5, <1>6, <1>7 DEF HoldsAdmins, Removal
<1>9. Holds(r)'
  BY <1>4, <1>5, <1>6, <1>8 DEF Holds, HoldsLink, HoldsUser, HoldsRetired, Unissued
<1> QED BY <1>1, <1>3, <1>5, <1>6, <1>9, Moved, MoveKeeps

-----------------------------------------------------------------------------
(* A step that takes locks nobody else holds, and writes nothing.            *)
LEMMA LockKeeps ==
  ASSUME IInv, NEW r \in Requests, UNCHANGED <<user, link>>,
         rq' \in [Requests -> Request], \A s \in Requests \ {r} : rq'[s] = rq[s],
         linkLock' \in [Requests -> Requests \cup {NoOne}],
         userLock' \in [Users -> Requests \cup {NoOne}],
         \A l \in Requests : linkLock'[l] = linkLock[l] \/ Free(linkLock, l, r),
         \A u \in Users : userLock'[u] = userLock[u] \/ Free(userLock, u, r),
         Holds(r)'
  PROVE  IInv'
<1>1. TypeOK
  BY DEF IInv
<1>2. TypeOK'
  BY <1>1 DEF TypeOK
<1>3. Respects(r)
  BY DEF Respects, ActiveAdmins, Free
<1> QED BY <1>2, <1>3, OthersKeep DEF IInv

LEMMA ResendLockKeeps ==
  ASSUME IInv, NEW r \in Requests, ResendLock(r)
  PROVE  IInv'
<1>1. TypeOK /\ rq[r] \in Request
  BY DEF IInv, TypeOK
<1> DEFINE still == rq[r].retire \cap Outstanding(rq[r].target)
           rec == [rq[r] EXCEPT !.pc = "issue", !.retire = still]
<1>2. /\ rq[r].pc = "retire" /\ \A l \in rq[r].retire : Free(linkLock, l, r)
      /\ linkLock' = [l \in Requests |-> IF l \in still THEN r ELSE linkLock[l]]
      /\ rq' = [rq EXCEPT ![r] = rec] /\ UNCHANGED <<user, link, userLock>>
  BY DEF ResendLock
<1>3. still \in SUBSET Requests /\ still \subseteq rq[r].retire
  BY DEF Outstanding
<1> HIDE DEF still
<1>4. rec \in Request /\ rec.pc = "issue" /\ rec.retire = still
  BY <1>1, <1>3 DEF Request, InFlight
<1> HIDE DEF rec
<1>5. rq'[r] = rec
  BY <1>1, <1>2, <1>4, Moved
<1>6. Holds(r)'
  BY <1>2, <1>3, <1>4, <1>5 DEF IInv, Holds, HoldsLink, HoldsUser, HoldsRetired, HoldsAdmins, Unissued
<1>7. /\ linkLock' \in [Requests -> Requests \cup {NoOne}]
      /\ userLock' \in [Users -> Requests \cup {NoOne}]
      /\ \A l \in Requests : linkLock'[l] = linkLock[l] \/ Free(linkLock, l, r)
  BY <1>1, <1>2, <1>3 DEF TypeOK
<1>8. /\ rq' \in [Requests -> Request]
      /\ \A s \in Requests \ {r} : rq'[s] = rq[s]
  BY <1>1, <1>2, <1>4, Moved
<1> QED BY <1>2, <1>6, <1>7, <1>8, LockKeeps

LEMMA UpdateLockKeeps ==
  ASSUME IInv, NEW r \in Requests, UpdateLock(r)
  PROVE  IInv'
<1>1. TypeOK /\ rq[r] \in Request /\ UNCHANGED <<user, link>>
  BY DEF IInv, TypeOK, UpdateLock
<1>2. CASE End(r)
  BY <1>1, <1>2, EndKeeps
<1>3. CASE ~End(r)
  <2> DEFINE still == rq[r].admins \cap ActiveAdmins
             rec == [rq[r] EXCEPT !.pc = "update", !.admins = still]
  <2>1. /\ \A u \in rq[r].admins : Free(userLock, u, r)
        /\ ~(Cardinality(still) <= 1)
        /\ rq' = [rq EXCEPT ![r] = rec]
        /\ userLock' = [u \in Users |-> IF u \in still THEN r ELSE userLock[u]]
        /\ linkLock' = linkLock
    BY <1>3 DEF UpdateLock
  <2>2. still \in SUBSET Users /\ still \subseteq rq[r].admins /\ still \subseteq ActiveAdmins
    BY DEF ActiveAdmins
  <2> HIDE DEF still
  <2>3. rec \in Request /\ rec.pc = "update" /\ rec.admins = still /\ rec.target = rq[r].target
    BY <1>1, <2>2 DEF Request, InFlight
  <2> HIDE DEF rec
  <2>4. rq'[r] = rec
    BY <1>1, <2>1, <2>3, Moved
  <2>5. \E u \in still : u # rec.target
    <3>1. IsFiniteSet(still)
      BY <2>2, UsersAssumption, FS_Subset
    <3> QED BY <2>1, <3>1, AnotherOne
  <2>6. \A u \in still : userLock'[u] = r /\ u \in ActiveAdmins'
    BY <1>1, <2>1, <2>2 DEF ActiveAdmins
  <2>7. Holds(r)'
    BY <2>3, <2>4, <2>5, <2>6 DEF Holds, HoldsLink, HoldsUser, HoldsRetired, HoldsAdmins, Unissued
  <2>8. /\ linkLock' \in [Requests -> Requests \cup {NoOne}]
        /\ userLock' \in [Users -> Requests \cup {NoOne}]
        /\ \A u \in Users : userLock'[u] = userLock[u] \/ Free(userLock, u, r)
    BY <1>1, <2>1, <2>2 DEF TypeOK
  <2>9. /\ rq' \in [Requests -> Request]
        /\ \A s \in Requests \ {r} : rq'[s] = rq[s]
    BY <1>1, <2>1, <2>3, Moved
  <2> QED BY <1>1, <2>1, <2>7, <2>8, <2>9, LockKeeps
<1> QED BY <1>2, <1>3

LEMMA ActivateTokenKeeps ==
  ASSUME IInv, NEW r \in Requests, ActivateToken(r)
  PROVE  IInv'
<1>1. TypeOK /\ rq[r] \in Request /\ UNCHANGED <<user, link, userLock>>
  BY DEF IInv, TypeOK, ActivateToken
<1>2. PICK l \in Requests :
        /\ Usable(l) /\ linkLock[l] = NoOne
        /\ linkLock' = [linkLock EXCEPT ![l] = r]
        /\ rq' = [rq EXCEPT ![r].pc = "act_user", ![r].link = l, ![r].target = link[l].owner]
  BY DEF ActivateToken
<1>3. link[l].owner \in Users
  BY <1>1, <1>2 DEF TypeOK, LinkRow, Usable
<1> DEFINE o == link[l].owner
           rec == [rq[r] EXCEPT !.pc = "act_user", !.link = l, !.target = o]
<1>4. rq' = [rq EXCEPT ![r] = rec] /\ o \in Users /\ o = link[l].owner
  BY <1>2, <1>3
<1> HIDE DEF o
<1>5. rec \in Request /\ rec.pc = "act_user" /\ rec.link = l /\ rec.target = o
  BY <1>1, <1>4 DEF Request, InFlight
<1> HIDE DEF rec
<1>6. /\ rq' \in [Requests -> Request] /\ rq'[r] = rec
      /\ \A s \in Requests \ {r} : rq'[s] = rq[s]
  BY <1>1, <1>4, <1>5, Moved
<1>7. linkLock'[l] = r /\ linkLock' \in [Requests -> Requests \cup {NoOne}]
  BY <1>1, <1>2 DEF TypeOK
<1>8. Holds(r)'
  BY <1>1, <1>2, <1>4, <1>5, <1>6, <1>7
     DEF Holds, HoldsLink, HoldsUser, HoldsRetired, HoldsAdmins, Unissued, Usable
<1>9. /\ \A x \in Requests : linkLock'[x] = linkLock[x] \/ Free(linkLock, x, r)
      /\ userLock' \in [Users -> Requests \cup {NoOne}]
  BY <1>1, <1>2 DEF TypeOK, Free
<1> QED BY <1>1, <1>6, <1>7, <1>8, <1>9, LockKeeps

LEMMA ActivateUserKeeps ==
  ASSUME IInv, NEW r \in Requests, ActivateUser(r)
  PROVE  IInv'
<1>1. TypeOK /\ UNCHANGED <<user, link>> /\ rq[r].pc = "act_user" /\ HoldsLink(r)
  BY DEF IInv, ActivateUser, Holds
<1>2. CASE End(r)
  BY <1>1, <1>2, EndKeeps
<1>3. CASE ~End(r)
  <2>1. /\ userLock[rq[r].target] = NoOne /\ user[rq[r].target].status = "pending"
        /\ rq' = [rq EXCEPT ![r].pc = "act_commit"] /\ linkLock' = linkLock
        /\ userLock' = [userLock EXCEPT ![rq[r].target] = r]
    BY <1>3 DEF ActivateUser
  <2>2. rq[r].target \in Users
    BY <1>1 DEF HoldsLink
  <2>3. /\ userLock'[rq[r].target] = r /\ userLock' \in [Users -> Requests \cup {NoOne}]
        /\ \A u \in Users : userLock'[u] = userLock[u] \/ Free(userLock, u, r)
        /\ linkLock' \in [Requests -> Requests \cup {NoOne}]
    BY <1>1, <2>1, <2>2 DEF TypeOK, Free
  <2>4. "act_commit" \in InFlight
    BY DEF InFlight
  <2>5. /\ rq' \in [Requests -> Request]
        /\ \A s \in Requests \ {r} : rq'[s] = rq[s]
        /\ rq'[r].pc = "act_commit" /\ rq'[r].target = rq[r].target /\ rq'[r].link = rq[r].link
    BY <1>1, <2>1, <2>4, PcMoved
  <2>6. Holds(r)'
    BY <1>1, <2>1, <2>3, <2>5
       DEF Holds, HoldsLink, HoldsUser, HoldsRetired, HoldsAdmins, Unissued
  <2> QED BY <1>1, <2>1, <2>3, <2>5, <2>6, LockKeeps
<1> QED BY <1>2, <1>3

-----------------------------------------------------------------------------
(* The steps that write rows.                                                *)
LEMMA InviteCommitKeeps ==
  ASSUME IInv, NEW r \in Requests, InviteCommit(r)
  PROVE  IInv'
<1>1. /\ TypeOK /\ rq[r] \in Request /\ rq[r].pc = "invite" /\ link[r].owner = NoOne
      /\ rq' = [rq EXCEPT ![r].pc = "deliver"] /\ UNCHANGED <<userLock, linkLock>>
      /\ link' = [link EXCEPT ![r] = NewLink(rq[r].target)]
  BY DEF IInv, TypeOK, InviteCommit, Holds, Unissued
<1>2. PICK role \in Roles :
        user' = [user EXCEPT ![rq[r].target] =
                   [status |-> "pending", role |-> role, enabled |-> TRUE]]
  BY DEF InviteCommit
<1>3. user[rq[r].target].status = "absent"
  BY DEF InviteCommit
<1>4. NewLink(rq[r].target) \in LinkRow
  BY <1>1 DEF NewLink, LinkRow, Request
<1>5. [status |-> "pending", role |-> role, enabled |-> TRUE] \in UserRow
  BY DEF UserRow
<1>6. "deliver" \in InFlight
  BY DEF InFlight
<1>7. /\ rq' \in [Requests -> Request] /\ rq'[r].pc = "deliver"
      /\ \A s \in Requests \ {r} : rq'[s] = rq[s]
  BY <1>1, <1>6, PcMoved
<1>8. /\ user' \in [Users -> UserRow] /\ link' \in [Requests -> LinkRow]
      /\ \A l \in Requests \ {r} : link'[l] = link[l]
      /\ \A u \in Users : u # rq[r].target => user'[u] = user[u]
  BY <1>1, <1>2, <1>4, <1>5 DEF TypeOK
<1>9. TypeOK'
  BY <1>1, <1>7, <1>8 DEF TypeOK
<1>10. Respects(r)
  BY <1>1, <1>3, <1>7, <1>8 DEF Respects, ActiveAdmins
<1>11. Holds(r)'
  BY <1>7, Relies DEF Unissued
<1> QED BY <1>9, <1>10, <1>11, OthersKeep DEF IInv

LEMMA ResendCommitKeeps ==
  ASSUME IInv, NEW r \in Requests, ResendCommit(r)
  PROVE  IInv'
<1>1. /\ TypeOK /\ rq[r] \in Request /\ rq[r].pc = "issue"
      /\ link[r].owner = NoOne /\ \A l \in rq[r].retire : linkLock[l] = r
      /\ user' = user /\ Release(r)
  BY DEF IInv, TypeOK, ResendCommit, Holds, Unissued, HoldsRetired
<1> DEFINE rec == [rq[r] EXCEPT !.pc = "deliver", !.retire = {}]
<1>2. /\ rq' = [rq EXCEPT ![r] = rec]
      /\ link' = [l \in Requests |->
           IF l = r THEN NewLink(rq[r].target)
           ELSE [link[l] EXCEPT !.invalidated = link[l].invalidated \/ l \in rq[r].retire]]
  BY DEF ResendCommit
<1>3. rec \in Request /\ rec.pc = "deliver"
  BY <1>1 DEF Request, InFlight
<1> HIDE DEF rec
<1>4. /\ rq' \in [Requests -> Request] /\ rq'[r].pc = "deliver"
      /\ \A s \in Requests \ {r} : rq'[s] = rq[s]
  BY <1>1, <1>2, <1>3, Moved
<1>5. NewLink(rq[r].target) \in LinkRow
  BY <1>1 DEF NewLink, LinkRow, Request
<1>6. ASSUME NEW l \in Requests \ {r}
      PROVE  /\ link'[l] \in LinkRow
             /\ link'[l].owner = link[l].owner /\ link'[l].consumed = link[l].consumed
             /\ l \notin rq[r].retire => link'[l].invalidated = link[l].invalidated
  <2> DEFINE inv == link[l].invalidated \/ l \in rq[r].retire
  <2>1. link[l] \in LinkRow /\ link'[l] = [link[l] EXCEPT !.invalidated = inv]
    BY <1>1, <1>2 DEF TypeOK
  <2>2. inv \in BOOLEAN
    BY <2>1 DEF LinkRow
  <2>3. l \notin rq[r].retire => inv = link[l].invalidated
    BY <2>1 DEF LinkRow
  <2> HIDE DEF inv
  <2> QED BY <2>1, <2>2, <2>3 DEF LinkRow
<1>7. link' \in [Requests -> LinkRow]
  BY <1>2, <1>5, <1>6
<1>8. TypeOK'
  BY <1>1, <1>4, <1>7, Releases DEF TypeOK
<1>9. \A l \in Requests : linkLock[l] \notin {NoOne, r} /\ link[l].owner # NoOne =>
        l \in Requests \ {r} /\ l \notin rq[r].retire
  BY <1>1
<1>10. Respects(r)
  BY <1>1, <1>4, <1>6, <1>9, Releases DEF Respects, ActiveAdmins
<1>11. Holds(r)'
  BY <1>4, Relies DEF Unissued
<1> QED BY <1>8, <1>10, <1>11, OthersKeep DEF IInv

LEMMA DeliverKeeps ==
  ASSUME IInv, NEW r \in Requests, Deliver(r)
  PROVE  IInv'
<1>1. /\ TypeOK /\ rq' = [rq EXCEPT ![r].pc = "record"]
      /\ link' = [link EXCEPT ![r].sent = TRUE] /\ UNCHANGED <<user, userLock, linkLock>>
  BY DEF IInv, Deliver
<1>2. "record" \in InFlight
  BY DEF InFlight
<1>3. /\ rq' \in [Requests -> Request] /\ rq'[r].pc = "record"
      /\ \A s \in Requests \ {r} : rq'[s] = rq[s]
  BY <1>1, <1>2, PcMoved
<1>4. ASSUME NEW l \in Requests
      PROVE  /\ link'[l] \in LinkRow /\ link'[l].owner = link[l].owner
             /\ link'[l].consumed = link[l].consumed /\ link'[l].invalidated = link[l].invalidated
  BY <1>1 DEF TypeOK, LinkRow
<1>5. link' \in [Requests -> LinkRow]
  BY <1>1, <1>4 DEF TypeOK
<1>6. TypeOK'
  BY <1>1, <1>3, <1>5 DEF TypeOK
<1>7. Respects(r)
  BY <1>1, <1>3, <1>4 DEF Respects, ActiveAdmins
<1>8. Holds(r)'
  BY <1>3, Relies DEF Unissued
<1> QED BY <1>6, <1>7, <1>8, OthersKeep DEF IInv

LEMMA UndoKeeps ==
  ASSUME IInv, NEW r \in Requests, Undo(r)
  PROVE  IInv'
<1>1. /\ TypeOK /\ End(r) /\ Release(r) /\ user' = user /\ Free(linkLock, r, r)
      /\ link' = [link EXCEPT ![r].invalidated = TRUE]
  BY DEF IInv, Undo, End
<1>2. ASSUME NEW l \in Requests
      PROVE  /\ link'[l] \in LinkRow /\ link'[l].owner = link[l].owner
             /\ link'[l].consumed = link[l].consumed
             /\ l # r => link'[l].invalidated = link[l].invalidated
  BY <1>1 DEF TypeOK, LinkRow
<1>3. link' \in [Requests -> LinkRow]
  BY <1>1, <1>2 DEF TypeOK
<1>4. TypeOK'
  BY <1>1, <1>3, Ends, Releases DEF TypeOK
<1>5. Respects(r)
  BY <1>1, <1>2, Ends, Releases DEF Respects, ActiveAdmins, Free
<1> QED BY <1>1, <1>4, <1>5, Ends, OthersKeep DEF IInv

LEMMA AgeKeeps ==
  ASSUME IInv, NEW x \in Requests, Age(x)
  PROVE  IInv'
<1>1. TypeOK /\ UNCHANGED <<user, userLock, linkLock, rq>>
  BY DEF IInv, Age
<1>2. PICK age \in {"settled", "expired"} : link' = [link EXCEPT ![x].age = age]
  BY DEF Age
<1>3. ASSUME NEW l \in Requests
      PROVE  /\ link'[l] \in LinkRow /\ link'[l].owner = link[l].owner
             /\ link'[l].consumed = link[l].consumed /\ link'[l].invalidated = link[l].invalidated
  BY <1>1, <1>2 DEF TypeOK, LinkRow
<1>4. link' \in [Requests -> LinkRow]
  BY <1>1, <1>2, <1>3 DEF TypeOK
<1>5. TypeOK'
  BY <1>1, <1>4 DEF TypeOK
<1>6. ASSUME NEW s \in Requests PROVE Holds(s)'
  <2>1. Holds(s)
    BY DEF IInv
  <2>2. HoldsLink(s)'
    BY <1>1, <1>3, <2>1 DEF Holds, HoldsLink
  <2>3. HoldsUser(s)' /\ HoldsRetired(s)'
    BY <1>1, <2>1 DEF Holds, HoldsUser, HoldsRetired
  <2>4. HoldsAdmins(s)'
    BY <1>1, <2>1 DEF Holds, HoldsAdmins, Removal, ActiveAdmins
  <2>5. Unissued(s)'
    BY <1>1, <1>3, <2>1 DEF Holds, Unissued
  <2> QED BY <2>2, <2>3, <2>4, <2>5 DEF Holds
<1> QED BY <1>5, <1>6 DEF IInv

(* What an activation commits.                                               *)
LEMMA Activates ==
  ASSUME IInv, NEW r \in Requests, ActivateCommit(r)
  PROVE  /\ End(r) /\ HoldsLink(r) /\ HoldsUser(r) /\ rq[r].pc = "act_commit"
         /\ rq[r].link \in Requests /\ rq[r].target \in Users
         /\ \A l \in Requests :
              /\ link'[l] \in LinkRow /\ link'[l].owner = link[l].owner
              /\ link'[l].invalidated = link[l].invalidated
              /\ l # rq[r].link => link'[l].consumed = link[l].consumed
         /\ \A u \in Users : u # rq[r].target => user'[u] = user[u]
         /\ user'[rq[r].target].status = "active"
         /\ link' \in [Requests -> LinkRow] /\ user' \in [Users -> UserRow]
<1>1. /\ TypeOK /\ End(r) /\ rq[r].pc = "act_commit" /\ HoldsLink(r) /\ HoldsUser(r)
      /\ user' = [user EXCEPT ![rq[r].target].status = "active"]
      /\ link' = [link EXCEPT ![rq[r].link].consumed = TRUE]
  BY DEF IInv, ActivateCommit, Holds
<1>2. rq[r].link \in Requests /\ rq[r].target \in Users
  BY <1>1 DEF HoldsLink
<1>3. ASSUME NEW l \in Requests
      PROVE  /\ link'[l] \in LinkRow /\ link'[l].owner = link[l].owner
             /\ link'[l].invalidated = link[l].invalidated
             /\ l # rq[r].link => link'[l].consumed = link[l].consumed
  BY <1>1, <1>2 DEF TypeOK, LinkRow
<1>4. ASSUME NEW u \in Users
      PROVE  user'[u] \in UserRow /\ (u # rq[r].target => user'[u] = user[u])
  BY <1>1, <1>2 DEF TypeOK, UserRow
<1>5. user'[rq[r].target].status = "active"
  BY <1>1, <1>2 DEF TypeOK, UserRow
<1>6. link' \in [Requests -> LinkRow] /\ user' \in [Users -> UserRow]
  BY <1>1, <1>3, <1>4 DEF TypeOK
<1> QED BY <1>1, <1>2, <1>3, <1>4, <1>5, <1>6

LEMMA ActivateCommitKeeps ==
  ASSUME IInv, NEW r \in Requests, ActivateCommit(r)
  PROVE  IInv'
<1>1. TypeOK /\ End(r) /\ Release(r)
  BY Activates DEF IInv, End
<1>2. TypeOK'
  BY <1>1, Activates, Ends, Releases DEF TypeOK
<1>3. linkLock[rq[r].link] = r /\ userLock[rq[r].target] = r
  BY Activates DEF HoldsLink, HoldsUser
<1>4. /\ \A l \in Requests : linkLock[l] \notin {NoOne, r} /\ link[l].owner # NoOne =>
           /\ link'[l].owner = link[l].owner
           /\ link'[l].consumed = link[l].consumed
           /\ link'[l].invalidated = link[l].invalidated
      /\ \A l \in Requests \ {r} : link[l].owner = NoOne => link'[l].owner = NoOne
  BY <1>3, Activates
<1>5. \A u \in Users : userLock[u] \notin {NoOne, r} => user'[u] = user[u]
  BY <1>3, Activates
<1>6. Respects(r)
  BY <1>1, <1>4, <1>5, Ends, Releases DEF Respects, ActiveAdmins
<1> QED BY <1>1, <1>2, <1>6, Ends, OthersKeep DEF IInv

(* What an update commits.                                                   *)
LEMMA Updates ==
  ASSUME TypeOK, NEW r \in Requests, UpdateCommit(r)
  PROVE  /\ user' \in [Users -> UserRow]
         /\ \A u \in Users : /\ user'[u].status = user[u].status
                             /\ u # rq[r].target => user'[u] = user[u]
<1> DEFINE snap == rq[r].snap
           new  == rq[r].new
           t    == rq[r].target
<1>1. user' = [user EXCEPT
        ![t].role    = IF new.role # snap.role THEN new.role ELSE @,
        ![t].enabled = IF new.enabled # snap.enabled THEN new.enabled ELSE @]
  BY DEF UpdateCommit
<1>2. new \in Rights
  BY DEF TypeOK, Request
<1> HIDE DEF snap, new, t
<1>3. ASSUME NEW u \in Users
      PROVE  /\ user'[u] \in UserRow /\ user'[u].status = user[u].status
             /\ u # t => user'[u] = user[u]
  <2>1. user[u] \in UserRow
    BY DEF TypeOK
  <2>2. CASE u # t
    BY <1>1, <2>1, <2>2 DEF TypeOK
  <2>3. CASE u = t
    <3> DEFINE role    == IF new.role # snap.role THEN new.role ELSE user[u].role
               enabled == IF new.enabled # snap.enabled THEN new.enabled ELSE user[u].enabled
    <3>1. role \in Roles /\ enabled \in BOOLEAN
      BY <1>2, <2>1 DEF Rights, UserRow
    <3>2. user'[u] = [user[u] EXCEPT !.role = role, !.enabled = enabled]
      BY <1>1, <2>1, <2>3 DEF TypeOK, UserRow
    <3> HIDE DEF role, enabled
    <3> QED BY <2>1, <2>3, <3>1, <3>2 DEF UserRow
  <2> QED BY <2>2, <2>3
<1>4. user' \in [Users -> UserRow]
  BY <1>1, <1>3 DEF TypeOK
<1> QED BY <1>3, <1>4 DEF t

LEMMA UpdateCommitKeeps ==
  ASSUME IInv, NEW r \in Requests, UpdateCommit(r)
  PROVE  IInv'
<1>1. TypeOK /\ End(r) /\ Release(r) /\ link' = link /\ Free(userLock, rq[r].target, r)
  BY DEF IInv, UpdateCommit, End
<1>2. TypeOK'
  BY <1>1, Updates, Ends, Releases DEF TypeOK
<1>3. \A u \in Users : userLock[u] \notin {NoOne, r} => user'[u] = user[u]
  BY <1>1, Updates DEF Free
<1>4. Respects(r)
  BY <1>1, <1>3, Ends, Releases DEF Respects, ActiveAdmins
<1> QED BY <1>1, <1>2, <1>4, Ends, OthersKeep DEF IInv

-----------------------------------------------------------------------------
LEMMA Initially == Init => IInv
<1> SUFFICES ASSUME Init PROVE IInv
  OBVIOUS
<1>1. Idle("new") \in Request /\ Idle("new").pc = "new"
  BY DEF Idle, Request, NoRights, Rights, Roles
<1>2. NewLink(NoOne) \in LinkRow /\ NewLink(NoOne).owner = NoOne
  BY DEF NewLink, LinkRow
<1>3. TypeOK
  BY <1>1, <1>2 DEF Init, TypeOK
<1>4. ASSUME NEW r \in Requests PROVE Holds(r)
  <2>1. rq[r].pc = "new" /\ link[r].owner = NoOne
    BY <1>1, <1>2 DEF Init
  <2> QED BY <2>1 DEF Holds, HoldsLink, HoldsUser, HoldsRetired, HoldsAdmins, Unissued
<1> QED BY <1>3, <1>4 DEF IInv

LEMMA Inductive == IInv /\ [Next]_vars => IInv'
<1> SUFFICES ASSUME IInv, [Next]_vars PROVE IInv'
  OBVIOUS
<1>1. ASSUME NEW r \in Requests, Invitation(r) PROVE IInv'
  <2>1. CASE InviteCheck(r) \/ ResendRead(r)
    BY <2>1, ReadKeeps
  <2>2. CASE InviteCommit(r)
    BY <2>2, InviteCommitKeeps
  <2>3. CASE InviteConflict(r) \/ Record(r)
    BY <2>3, EndKeeps DEF InviteConflict, Record
  <2>4. CASE ResendCooldown(r) \/ DeliveryFails(r) \/ UndoRead(r)
    BY <2>4, GoOnKeeps
  <2>5. CASE ResendCollect(r)
    BY <2>5, CollectKeeps
  <2>6. CASE ResendLock(r)
    BY <2>6, ResendLockKeeps
  <2>7. CASE ResendCommit(r)
    BY <2>7, ResendCommitKeeps
  <2>8. CASE Deliver(r)
    BY <2>8, DeliverKeeps
  <2>9. CASE Undo(r)
    BY <2>9, UndoKeeps
  <2> QED BY <1>1, <2>1, <2>2, <2>3, <2>4, <2>5, <2>6, <2>7, <2>8, <2>9 DEF Invitation
<1>2. ASSUME NEW r \in Requests, Activation(r) PROVE IInv'
  BY <1>2, ActivateTokenKeeps, ActivateUserKeeps, ActivateCommitKeeps DEF Activation
<1>3. ASSUME NEW r \in Requests, Update(r) PROVE IInv'
  BY <1>3, UpdateReadKeeps, CollectKeeps, UpdateLockKeeps, UpdateCommitKeeps DEF Update
<1>4. ASSUME NEW r \in Requests, Authorize(r) \/ Abort(r) PROVE IInv'
  BY <1>4, ReadKeeps, EndKeeps DEF Abort
<1>5. CASE UNCHANGED vars
  <2>1. UNCHANGED <<user, link, userLock, linkLock, rq>>
    BY <1>5 DEF vars
  <2> QED BY <2>1 DEF IInv, TypeOK, Holds, HoldsLink, HoldsUser, HoldsRetired, HoldsAdmins,
                      Unissued, Removal, ActiveAdmins
<1> QED BY <1>1, <1>2, <1>3, <1>4, <1>5, AgeKeeps DEF Next, Step, Quiescent

(* In every reachable state the requests hold the locks of the rows they     *)
(* have checked, and what they have checked is still so.                     *)
THEOREM Invariance == Spec => []IInv
BY Initially, Inductive, PTL DEF Spec

(* Every variable keeps its type: accounts are absent, pending or active,    *)
(* and a lock has one holder.                                                *)
THEOREM TypeCorrect == Spec => []TypeOK
<1>1. IInv => TypeOK
  BY DEF IInv
<1> QED BY <1>1, Invariance, PTL

-----------------------------------------------------------------------------
(* Only the commit of an activation consumes a link: its own.                *)
LEMMA ConsumedByActivation ==
  ASSUME IInv, [Next]_vars, NEW l \in Requests, link'[l].consumed, ~link[l].consumed
  PROVE  \E r \in Requests : ActivateCommit(r) /\ l = rq[r].link
<1>1. TypeOK /\ link[l] \in LinkRow
  BY DEF IInv, TypeOK
<1>2. link' # link
  OBVIOUS
<1>3. ~\E r \in Requests : InviteCommit(r)
  <2> SUFFICES ASSUME NEW r \in Requests, InviteCommit(r) PROVE FALSE
    OBVIOUS
  <2>1. link' = [link EXCEPT ![r] = NewLink(rq[r].target)]
    BY DEF InviteCommit
  <2>2. ~NewLink(rq[r].target).consumed
    BY DEF NewLink
  <2> QED BY <1>1, <2>1, <2>2 DEF TypeOK
<1>4. ~\E r \in Requests : ResendCommit(r)
  <2> SUFFICES ASSUME NEW r \in Requests, ResendCommit(r) PROVE FALSE
    OBVIOUS
  <2>1. link'[l] = IF l = r THEN NewLink(rq[r].target)
                   ELSE [link[l] EXCEPT !.invalidated = @ \/ l \in rq[r].retire]
    BY DEF ResendCommit
  <2>2. ~NewLink(rq[r].target).consumed
    BY DEF NewLink
  <2>3. l # r => link'[l].consumed = link[l].consumed
    BY <1>1, <2>1 DEF LinkRow
  <2> QED BY <2>1, <2>2, <2>3
<1>5. ~\E r \in Requests : Deliver(r) \/ Undo(r) \/ Age(r)
  <2> SUFFICES ASSUME NEW r \in Requests, Deliver(r) \/ Undo(r) \/ Age(r) PROVE FALSE
    OBVIOUS
  <2>1. link'[l].consumed = link[l].consumed
    BY <1>1 DEF Deliver, Undo, Age, TypeOK, LinkRow
  <2> QED BY <2>1
<1>6. PICK r \in Requests : ActivateCommit(r)
  BY <1>2, <1>3, <1>4, <1>5
     DEF Next, vars, Step, Invitation, Activation, Update, Authorize, Abort, Quiescent,
         InviteCheck, InviteConflict, ResendRead, ResendCooldown, ResendCollect, ResendLock,
         Record, DeliveryFails, UndoRead, ActivateToken, ActivateUser, UpdateRead,
         UpdateScan, UpdateLock, UpdateCommit
<1> QED BY <1>6, Activates

(* However many resends and activations overlap, an account is activated     *)
(* once, while pending, by a link no resend has retired.                     *)
THEOREM ActivationsAreSound == Spec => ActivatedOnce
<1>1. ASSUME IInv, [Next]_vars, NEW l \in Requests, link'[l].consumed, ~link[l].consumed
      PROVE  /\ ~link[l].invalidated
             /\ user[link[l].owner].status = "pending"
             /\ user'[link[l].owner].status = "active"
  <2>1. PICK r \in Requests : ActivateCommit(r) /\ l = rq[r].link
    BY <1>1, ConsumedByActivation
  <2> QED BY <1>1, <2>1, Activates DEF HoldsLink, HoldsUser
<1>2. IInv /\ [Next]_vars =>
        [\A l \in Requests : link'[l].consumed /\ ~link[l].consumed =>
           /\ ~link[l].invalidated
           /\ user[link[l].owner].status = "pending"
           /\ user'[link[l].owner].status = "active"]_vars
  BY <1>1
<1> QED BY <1>2, Invariance, PTL DEF Spec, ActivatedOnce

(* A change decided to take an administrator away leaves another one active, *)
(* for any number of accounts and of changes decided meanwhile.              *)
THEOREM RemovalsLeaveAnAdmin == Spec => RemovalLeavesAdmin
<1>1. ASSUME IInv, NEW r \in Requests, UpdateCommit(r), Removal(rq[r].snap, rq[r].new)
      PROVE  ActiveAdmins' \ {rq[r].target} # {}
  <2>1. TypeOK /\ rq[r].pc = "update" /\ HoldsAdmins(r)
    BY <1>1 DEF IInv, Holds, UpdateCommit
  <2>2. PICK u \in rq[r].admins : u # rq[r].target /\ u \in ActiveAdmins
    BY <1>1, <2>1 DEF HoldsAdmins
  <2>3. user'[u] = user[u] /\ u \in Users
    BY <1>1, <2>1, <2>2, Updates DEF ActiveAdmins
  <2> QED BY <2>2, <2>3 DEF ActiveAdmins
<1>2. IInv /\ [Next]_vars =>
        [\A r \in Requests :
           UpdateCommit(r) /\ Removal(rq[r].snap, rq[r].new) =>
             ActiveAdmins' \ {rq[r].target} # {}]_vars
  BY <1>1
<1> QED BY <1>2, Invariance, PTL DEF Spec, RemovalLeavesAdmin
=============================================================================
