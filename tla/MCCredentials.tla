------------------------- MODULE MCCredentials -------------------------
(* Credentials on small instances: three requests suffice for two to act on *)
(* a link a third one issues.                                               *)
EXTENDS Credentials

CONSTANTS r1, r2, r3, t1, t2, p1, p2

MCRequests  == {r1, r2, r3}
MCTokens    == {t1, t2}
MCPasswords == {p1, p2}

EveryOp      == AllOps
ChangeOnly   == {"signin", "change"}
AdminOnly    == {"signin", "admin"}
=============================================================================
