----------------------------- MODULE RateLimit -----------------------------
(***************************************************************************)
(* The limiter in front of sign-in, forgotten passwords, links, and the    *)
(* resending of invitations: fixed windows counted in Redis.               *)
(*                                                                         *)
(* src/backend/app/services/auth_rate_limit_service.py, and its callers in *)
(* auth_routes.py and admin_routes.py.                                     *)
(*                                                                         *)
(* One script checks every limit of an attempt and only then counts it     *)
(* under each: a script is atomic in Redis.  The rest is not: the password *)
(* is checked after the reservation, a success clears two of the three     *)
(* counters in a later command, time goes on, and Redis may be out of      *)
(* reach, lose an answer or restart empty.  The limiter then fails open.   *)
(*                                                                         *)
(* A client makes one attempt.  Time is counted in ticks: `left' is what   *)
(* remains of a counter's window, `age' the ticks since an attempt was     *)
(* counted, forgotten when it passes MaxAge.                               *)
(***************************************************************************)
EXTENDS Integers, FiniteSets

CONSTANTS Attempt,    \* attempts, made at most once
          Action,     \* "signin" and the endpoints with two limits
          Subject,    \* accounts, tokens, administrators
          Origin,     \* client hosts, invited users
          Limit,      \* Limit[act, part]: attempts admitted in one window
          Window,     \* Window[act, part]: its ticks
          MaxAge      \* bound: ticks for which an attempt is remembered

Parts == {"subject", "origin", "both"}

\* The counters of an attempt.  Every endpoint counts two identifiers (account
\* or token or actor, host or target); sign-in also counts them together.
Limits(act, x, y) ==
  {<<act, "subject", x>>, <<act, "origin", y>>}
    \union (IF act = "signin" THEN {<<act, "both", <<x, y>>>>} ELSE {})
Key == UNION {Limits(act, x, y) : act \in Action, x \in Subject, y \in Origin}
LimitOf(k) == Limit[k[1], k[2]]
WindowOf(k) == Window[k[1], k[2]]

ASSUME RateAssumption ==
  /\ Limit \in [Action \X Parts -> Nat \ {0}]
  /\ Window \in [Action \X Parts -> Nat \ {0}]
  /\ MaxAge \in Nat
  /\ \A i \in Action \X Parts : Window[i] < MaxAge
  /\ IsFiniteSet(Attempt)

VARIABLES count,      \* Redis: the counters, 0 for a key that is not there
          left,       \* Redis: what is left of each key's expiry, 0 for none
          attempt,    \* each attempt
          age,        \* ticks since it was counted
          counted     \* the attempts counted under a key since it was last cleared,
                      \* and no more than MaxAge ticks ago
limiterVars == <<count, left, attempt, age, counted>>

Decision == {"new", "refused", "allowed", "cleared", "done"}

LimiterInit ==
  /\ count = [k \in Key |-> 0]
  /\ left = [k \in Key |-> 0]
  /\ attempt \in [Attempt -> [pc : {"new"}, act : Action, x : Subject, y : Origin]]
  /\ age = [a \in Attempt |-> 0]
  /\ counted = [k \in Key |-> {}]

KeysOf(a) == Limits(attempt[a].act, attempt[a].x, attempt[a].y)

(* Fault: only the first limit is checked. *)
Full_First(a) == \E k \in KeysOf(a) : k[2] = "subject" /\ count[k] >= LimitOf(k)

Full(a) == \E k \in KeysOf(a) : count[k] >= LimitOf(k)
To(a, from, to) == /\ attempt[a].pc = from
                   /\ attempt' = [attempt EXCEPT ![a].pc = to]

-----------------------------------------------------------------------------
(* The script.                                                             *)

(* Fault: a new counter gets no expiry. *)
Count_ForEver(a) ==
  /\ count' = [k \in Key |-> IF k \in KeysOf(a) THEN count[k] + 1 ELSE count[k]]
  /\ counted' = [k \in Key |-> IF k \in KeysOf(a) THEN counted[k] \union {a}
                               ELSE counted[k]]
  /\ age' = [age EXCEPT ![a] = 0]
  /\ UNCHANGED left

\* Every counter of the attempt grows by one; a new one, or one found without
\* an expiry, gets its window.
Count(a) ==
  /\ count' = [k \in Key |-> IF k \in KeysOf(a) THEN count[k] + 1 ELSE count[k]]
  /\ left' = [k \in Key |-> IF k \in KeysOf(a) /\ (count[k] = 0 \/ left[k] = 0)
                            THEN WindowOf(k) ELSE left[k]]
  /\ counted' = [k \in Key |-> IF k \in KeysOf(a) THEN counted[k] \union {a}
                               ELSE counted[k]]
  /\ age' = [age EXCEPT ![a] = 0]

Admit(a) == ~Full(a) /\ To(a, "new", "allowed") /\ Count(a)

(* Fault: the counters with room are counted before a full one is met. *)
Refuse_Counted(a) ==
  /\ Full(a)
  /\ To(a, "new", "refused")
  /\ count' = [k \in Key |-> IF k \in KeysOf(a) /\ count[k] < LimitOf(k)
                             THEN count[k] + 1 ELSE count[k]]
  /\ left' = [k \in Key |-> IF k \in KeysOf(a) /\ count[k] = 0
                            THEN WindowOf(k) ELSE left[k]]
  /\ UNCHANGED <<age, counted>>

Refuse(a) ==
  /\ Full(a)
  /\ To(a, "new", "refused")
  /\ UNCHANGED <<count, left, age, counted>>

\* Redis is out of reach: the attempt goes on uncounted.
FailOpen(a) ==
  /\ To(a, "new", "allowed")
  /\ UNCHANGED <<count, left, age, counted>>

\* The answer is lost, not the script: the attempt is counted, or should have
\* been refused, and goes on.
AnswerMissed(a) ==
  /\ To(a, "new", "allowed")
  /\ IF Full(a) THEN UNCHANGED <<count, left, age, counted>> ELSE Count(a)

-----------------------------------------------------------------------------
(* The endpoint.                                                           *)

\* A sign-in's password may be right; the counters of the account, alone and
\* with the host, are cleared next.  Every other attempt just ends.
Check(a) ==
  /\ \E right \in BOOLEAN :
       /\ right => attempt[a].act = "signin"
       /\ To(a, "allowed", IF right THEN "cleared" ELSE "done")
  /\ UNCHANGED <<count, left, age, counted>>

Dropped(keys) ==
  /\ count' = [k \in Key |-> IF k \in keys THEN 0 ELSE count[k]]
  /\ left' = [k \in Key |-> IF k \in keys THEN 0 ELSE left[k]]
  /\ counted' = [k \in Key |-> IF k \in keys THEN {} ELSE counted[k]]

\* clear_signin_account: the host's counter stays.
Clear(a) ==
  /\ To(a, "cleared", "done")
  /\ Dropped({k \in KeysOf(a) : k[2] # "origin"})
  /\ UNCHANGED age

ClearLost(a) ==
  /\ To(a, "cleared", "done")
  /\ UNCHANGED <<count, left, age, counted>>

\* Redis has no volume.
RedisRestart ==
  /\ \E k \in Key : count[k] > 0
  /\ Dropped(Key)
  /\ UNCHANGED <<attempt, age>>

\* A key whose window is over is gone.
Tick ==
  /\ \E k \in Key : left[k] > 0 \/ counted[k] # {}
  /\ left' = [k \in Key |-> IF left[k] > 0 THEN left[k] - 1 ELSE 0]
  /\ count' = [k \in Key |-> IF left[k] = 1 THEN 0 ELSE count[k]]
  /\ counted' = [k \in Key |-> {a \in counted[k] : age[a] < MaxAge}]
  /\ age' = [a \in Attempt |-> IF \E k \in Key : a \in counted'[k]
                              THEN age[a] + 1 ELSE 0]
  /\ UNCHANGED attempt

LimiterNext ==
  \/ \E a \in Attempt :
       \/ Admit(a) \/ Refuse(a) \/ FailOpen(a) \/ AnswerMissed(a)
       \/ Check(a) \/ Clear(a) \/ ClearLost(a)
  \/ RedisRestart
  \/ Tick

LimiterSpec == LimiterInit /\ [][LimiterNext]_limiterVars /\ WF_limiterVars(Tick)

-----------------------------------------------------------------------------
(* Properties.                                                             *)

LimiterTypeOK ==
  /\ count \in [Key -> Nat]
  /\ left \in [Key -> Nat]
  /\ attempt \in [Attempt -> [pc : Decision, act : Action, x : Subject, y : Origin]]
  /\ age \in [Attempt -> 0 .. MaxAge]
  /\ counted \in [Key -> SUBSET Attempt]

\* A counter stands for exactly the attempts that were let through in the window
\* that runs, and never for more than its limit: a refusal uses up no other
\* counter of the attempt, and no counter outlives its window.
CountsTheWindow ==
  \A k \in Key :
    /\ count[k] <= LimitOf(k)
    /\ left[k] <= WindowOf(k)
    /\ (count[k] = 0) <=> (left[k] = 0)
    /\ count[k] > 0 =>
         count[k] = Cardinality({a \in counted[k] : age[a] <= WindowOf(k) - left[k]})

\* What fixed windows promise of any stretch of time as long as a window,
\* wherever it starts: at most twice the limit, as long as nothing cleared the
\* counter.
StretchBounded ==
  \A k \in Key, from \in 0 .. MaxAge :
    from + WindowOf(k) <= MaxAge =>
      Cardinality({a \in counted[k] : from <= age[a] /\ age[a] < from + WindowOf(k)})
        <= 2 * LimitOf(k)

\* A full counter empties: refused attempts do not keep it full.
LockoutEnds == \A k \in Key : (count[k] >= LimitOf(k)) ~> (count[k] < LimitOf(k))

=============================================================================
