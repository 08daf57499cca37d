------------------------- MODULE MCAccounts -------------------------
(* Accounts with two accounts and four requests: two links for one account  *)
(* and an activation by each; or a promotion and two removals.              *)
EXTENDS Accounts, TLC

CONSTANTS a, b, r1, r2, r3, r4

MCUsers    == {a, b}
MCRequests == {r1, r2, r3, r4}
MCFaulty   == {r4}

MCSymmetry == Permutations(MCUsers) \cup Permutations(MCRequests \ MCFaulty)
=============================================================================
