----------------------------- MODULE MCChatLog -----------------------------
(***************************************************************************)
(* Instances of ChatLog for TLC.  One behaviour has few actors: those of   *)
(* one of the Casts.  The others never take a step.                        *)
(***************************************************************************)
EXTENDS ChatLog

CONSTANTS agent, admin, r1, r2, c1, c2
Casts == {[asks |-> {r1, r2}, rates |-> {c1}], [asks |-> {r1}, rates |-> {c1, c2}]}

\* The requests are one user's; in the second cast a call may be the administrator's.
MCInit ==
  /\ messages = <<>> /\ ratings = <<>> /\ gaps = <<>> /\ faults = 0
  /\ owner = [s \in Session |-> None]
  /\ \E cast \in Casts :
       /\ req = [r \in Request |->
                   [IdleRequest EXCEPT !.user = agent,
                      !.pc = IF r \in cast.asks THEN "idle" ELSE "refused"]]
       /\ \E by \in IF c2 \in cast.rates THEN {agent, admin} ELSE {agent} :
            call = [c \in Call |->
                   [IdleCall EXCEPT !.user = IF c = c2 THEN by ELSE agent,
                      !.pc = IF c \in cast.rates THEN "idle" ELSE "refused"]]

MCSpec == MCInit /\ [][Next]_chatVars /\ Fairness
=============================================================================
