------------------------- MODULE OneTimeTokens -------------------------
(***************************************************************************)
(* What the account service promises about the one-time links of a user:   *)
(* whatever requests run concurrently, a link is issued once, is used at   *)
(* most once, is never revived, and issuing or using one retires every     *)
(* other outstanding link.  Nothing is said here of rows, locks or         *)
(* transactions: module Credentials implements this with them.             *)
(***************************************************************************)
CONSTANT Tokens

VARIABLE status          \* status[t]: what has become of link t

Fresh       == {"absent"}
Outstanding == {"live", "expired"}      \* neither consumed nor invalidated
Spent       == {"consumed", "invalidated"}

Status == Fresh \cup Outstanding \cup Spent

Init == status = [t \in Tokens |-> "absent"]

(* Link t is issued and becomes the only outstanding one. *)
Issue(t) ==
  /\ status[t] = "absent"
  /\ status' = [u \in Tokens |->
                  IF u = t THEN "live"
                  ELSE IF status[u] \in Outstanding THEN "invalidated"
                  ELSE status[u]]

(* Link t is issued, cannot be delivered and is withdrawn at once. *)
Withdraw(t) ==
  /\ status[t] = "absent"
  /\ status' = [u \in Tokens |->
                  IF u = t \/ status[u] \in Outstanding THEN "invalidated"
                  ELSE status[u]]

(* Link t is used: it is consumed and no other link stays outstanding. *)
Consume(t) ==
  /\ status[t] \in Outstanding
  /\ status' = [u \in Tokens |->
                  IF u = t THEN "consumed"
                  ELSE IF status[u] \in Outstanding THEN "invalidated"
                  ELSE status[u]]

(* Some outstanding links are retired because the password was replaced. *)
Retire(S) ==
  /\ \A t \in S : status[t] \in Outstanding
  /\ status' = [u \in Tokens |-> IF u \in S THEN "invalidated" ELSE status[u]]

(* Time passes the lifetime of link t. *)
Expire(t) ==
  /\ status[t] = "live"
  /\ status' = [status EXCEPT ![t] = "expired"]

Next ==
  \/ \E t \in Tokens : Issue(t) \/ Withdraw(t) \/ Consume(t) \/ Expire(t)
  \/ \E S \in SUBSET Tokens : Retire(S)

Spec == Init /\ [][Next]_status
=============================================================================
