---------------------------- MODULE MCKnowledge ----------------------------
(***************************************************************************)
(* Four parts of the system that share no state, checked side by side: a   *)
(* behaviour is one of the limiter, of a lookup, of the chunking of an     *)
(* article or of the offline load with the searches, and leaves the other  *)
(* three as they are.                                                      *)
(***************************************************************************)
EXTENDS RateLimit, DecisionLookup, Chunking, OfflineLoad

VARIABLE part

MCParts == {"limiter", "lookup", "chunking", "offline"}

TypeOK ==
  /\ part \in MCParts
  /\ LimiterTypeOK /\ LookupTypeOK /\ ChunkTypeOK /\ OfflineTypeOK

ASSUME SomeoneAssumption == "signin" \in Action /\ Subject # {} /\ Origin # {}

Someone == [pc |-> "done", act |-> "signin", x |-> CHOOSE x \in Subject : TRUE,
            y |-> CHOOSE y \in Origin : TRUE]

Idle(p) ==
  CASE p = "limiter" ->
         /\ count = [k \in Key |-> 0] /\ left = [k \in Key |-> 0]
         /\ attempt = [a \in Attempt |-> Someone]
         /\ age = [a \in Attempt |-> 0] /\ counted = [k \in Key |-> {}]
    [] p = "lookup" ->
         /\ question = {} /\ tables = [t \in Table |-> {}] /\ activites = {}
         /\ stage = "retrieval" /\ answer = NoAnswer
    [] p = "chunking" ->
         article = <<>> /\ sections = <<>> /\ section = 1 /\ start = 0 /\ chunks = <<>>
    [] p = "offline" -> OfflineInit

KnowledgeInit ==
  /\ part \in MCParts
  /\ IF part = "limiter" THEN LimiterInit ELSE Idle("limiter")
  /\ IF part = "lookup" THEN LookupInit ELSE Idle("lookup")
  /\ IF part = "chunking" THEN ChunkInit ELSE Idle("chunking")
  /\ OfflineInit

KnowledgeNext ==
  /\ UNCHANGED part
  /\ \/ part = "limiter" /\ LimiterNext /\ UNCHANGED <<lookupVars, chunkVars, offlineVars>>
     \/ part = "lookup" /\ LookupNext /\ UNCHANGED <<limiterVars, chunkVars, offlineVars>>
     \/ part = "chunking" /\ ChunkNext /\ UNCHANGED <<limiterVars, lookupVars, offlineVars>>
     \/ part = "offline" /\ OfflineNext /\ UNCHANGED <<limiterVars, lookupVars, chunkVars>>

KnowledgeSpec ==
  /\ KnowledgeInit
  /\ [][KnowledgeNext]_<<part, limiterVars, lookupVars, chunkVars, offlineVars>>
  /\ WF_limiterVars(Tick)

-----------------------------------------------------------------------------
(* The limiter: the counter of an account admits two sign-ins in two ticks,  *)
(* the others one.                                                           *)

MCLimit == [i \in Action \X Parts |-> IF i[2] = "subject" THEN 2 ELSE 1]
MCWindow == [i \in Action \X Parts |-> 2]

(* The lookup: tables in which one or two columns are empty, keys repeat, or *)
(* two tables of a tier have a row for one question.                         *)

R(a, e, c, k, says) ==
  [key |-> [f \in Field |-> CASE f = "activite" -> a [] f = "echec" -> e
                              [] f = "canal" -> c [] OTHER -> k],
   says |-> says]
MCSchema == [t \in Table |->
  CASE t = "gem cuivre" -> {"activite", "echec", "canal"}
    [] t \in {"gem ftth", "duree", "op1"} -> {"activite", "echec"}
    [] t = "matrix" -> {"activite", "code"}
    [] OTHER -> {"activite"}]
MCLength == [v \in Value |-> IF v = "E" THEN 2 ELSE 1]
Empty == [t \in Table |-> {}]
Act(c, p) == [code |-> c, perimeter |-> p]
GemBases ==
  {[tables |-> [Empty EXCEPT !["gem cuivre"] = cu, !["gem ftth"] = ft, !["duree"] = du,
                             !["sav"] = {R("A", None, None, None, "oui")}],
    activites |-> ac] :
     cu \in {{R("A", "E", "wholesale", None, "F"), R("A", "E", "retail", None, "F"),
              R("A", "F", "retail", None, "F"), R("B", "E", None, None, "F")}},
     ft \in {{}, {R("A", "E", None, None, "F")},
             {R("A", "E", None, None, "F"), R("A", "E", None, None, "E")}},
     du \in {{}, {R("A", "E", None, None, "non")},
             {R("A", "E", None, None, "non"), R("A", "F", None, None, "E")}},
     ac \in {{Act("A", "cuivre"), Act("A", "ftth"), Act("B", "cuivre")}, {Act("A", "ftth")}}}
OpBases ==
  {[tables |-> [Empty EXCEPT !["op1"] = o1, !["op2"] = o2], activites |-> {}] :
     o1 \in SUBSET {R("A", "E", None, None, "F"), R("A", "F", None, None, "F"),
                    R("B", "E", None, None, "F"), R("A", None, None, None, "F")},
     o2 \in {{}, {R("A", None, None, None, "F")}}}
BillBases ==
  {[tables |-> [Empty EXCEPT !["article"] = ar, !["matrix"] = ma, !["ftth matrix"] = fm,
                             !["gl1"] = g1, !["gl2"] = {R("A", None, None, None, "F")}],
    activites |-> {}] :
     ar \in SUBSET {R("A", None, None, None, "F"), R("A", None, None, None, "E"),
                    R("B", None, None, None, "F")},
     ma \in SUBSET {R("A", None, None, "E", "F"), R("A", None, None, "F", "F")},
     fm \in {{}, {R("A", None, None, None, "F")}},
     g1 \in {{}, {R("A", None, None, None, "E")}}}
MCBases == GemBases \union OpBases \union BillBases

(* The chunking: every body of six lines of a procedure and of four lines of *)
(* another section, and sections around the sizes at which a cut falls.      *)

L(m, w) == [opens |-> "none", mark |-> m, words |-> w]
H(t) == [opens |-> t, mark |-> "plain", words |-> 2]
Bodies(alphabet, n) == UNION {[1 .. k -> alphabet] : k \in 1 .. n}
CaseLines == {L("category", 2), L("detail", 3), L("starter", 4), L("plain", 3), L("step", 9)}
TextLines == {L("plain", 2), L("plain", 90), L("question", 5), L("conditional", 6)}
MCArticles ==
  {<<H("procedure")>> \o b : b \in Bodies(CaseLines, 6)}
    \union {<<H(t)>> \o b : t \in {"faq", "rules", "questions", "key_points"},
                            b \in Bodies(TextLines, 4)}
    \union {<<L(m, w), H("faq"), L("question", 5), [H("generic") EXCEPT !.mark = x], L("plain", v)>> :
              m \in {"plain", "reference"}, x \in {"plain", "reference"},
              w \in {3, 4, 220, 221, 405, 406}, v \in {1, 36, 590, 591}}

(* The load: a file that is edited, one that is not, four words.             *)

T(ws, ty) == [terms |-> ws, type |-> ty, priority |-> "medium"]
MCContent ==
  [d1 |-> <<<<T(<<"F04", "line">>, "rule"), T(<<"box", "line">>, "generic")>>,
            <<T(<<"F04", "box">>, "rule"), T(<<"line">>, "generic")>>>>,
   d2 |-> <<<<T(<<"PM", "line">>, "business_case")>>>>]
MCQuestions == {<<"F04", "line">>, <<"box">>, <<"PM">>}
MCSimilarity(q, t) ==
  (8 * Cardinality(ToSet(q) \intersect ToSet(t.terms))) \div (Len(q) + Len(t.terms))
=============================================================================
