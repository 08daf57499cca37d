--------------------------- MODULE DecisionLookup ---------------------------
(***************************************************************************)
(* Answers read straight from the decision tables, tier after tier: the    *)
(* GEM tables, the operational tables, the billing of copper, the billing  *)
(* tables, the glossaries.  What no tier answers goes on to retrieval.     *)
(*                                                                         *)
(* src/backend/app/services/decision_lookup_service.py.                    *)
(*                                                                         *)
(* A question is the set of values it names: codes and phrases that occur  *)
(* as keys of some table, and the words that signal a network or a sales   *)
(* channel.  How a value is recognised in a text (tokens, accents, case)   *)
(* is left out, and so are the wording of an answer and the hints and      *)
(* reminders added to it.                                                  *)
(***************************************************************************)
EXTENDS Integers, FiniteSets

CONSTANTS Value,        \* keys of the tables and the words of the signals
          Field,        \* key columns
          Operational,  \* tables of tier 1
          Glossary,     \* tables of tier 3
          KeySchema,    \* key_schema of every table
          Length,       \* Length[v]: length of an echec
          Bases,        \* contents the tables may have
          None

Gem == {"gem cuivre", "gem ftth", "sav", "duree"}
Billing == {"article", "matrix", "ftth matrix"}
Table == Gem \union Operational \union Billing \union Glossary
Signals == {"cuivre", "ftth", "wholesale", "retail"}

ASSUME LookupAssumption ==
  /\ {"activite", "echec", "canal", "code"} \subseteq Field
  /\ KeySchema \in [Table -> SUBSET Field] /\ KeySchema["article"] = {"activite"}
  /\ Signals \subseteq Value
  /\ Length \in [Value -> Nat]
  /\ None \notin Value \union Table

\* A table is of one tier.
ASSUME TiersAssumption ==
  /\ Operational \intersect (Gem \union Billing \union Glossary) = {}
  /\ Glossary \intersect (Gem \union Billing) = {}
  /\ IsFiniteSet(Table)

VARIABLES question,     \* the values it names
          tables,       \* decision_table_rows
          activites,    \* activite_codes: pairs of a code and a perimeter
          stage,        \* the tier to try next
          answer
lookupVars == <<question, tables, activites, stage, answer>>

Row == [key : [Field -> Value \union {None}], says : Value \union {"oui", "non"}]

ASSUME BasesAssumption ==
  \A b \in Bases :
    /\ b.tables \in [Table -> SUBSET Row]
    /\ IsFiniteSet(b.activites) /\ \A t \in Table : IsFiniteSet(b.tables[t])

NoAnswer == [table |-> None, rows |-> {}, note |-> "none"]
Found(t, rows, note) == [table |-> t, rows |-> rows, note |-> note]
Stages == {"gem", "operational", "facturation", "billing", "glossary", "answered", "retrieval"}

LookupInit ==
  /\ question \in SUBSET Value
  /\ \E b \in Bases : tables = b.tables /\ activites = b.activites
  /\ stage = "gem"
  /\ answer = NoAnswer

-----------------------------------------------------------------------------
(* Rows of a table.                                                        *)

Candidates(t, f) == {r.key[f] : r \in tables[t]} \ {None}

\* The one candidate of a field that the question names, if there is just one.
MatchField(t, f) ==
  LET named == Candidates(t, f) \intersect question
  IN  IF Cardinality(named) = 1 THEN CHOOSE v \in named : TRUE ELSE None

\* A field that no row has a value in is no part of the key.
KeyFields(t) == {f \in KeySchema[t] : Candidates(t, f) # {}}

RowsOf(t, key) == {r \in tables[t] : \A f \in DOMAIN key : r.key[f] = key[f]}

(* Fault: of several values that are left, any is taken. *)
GenericRows_Any(t, infer) ==
  LET fields == KeyFields(t)
      matched == {f \in fields : MatchField(t, f) # None}
      narrowed == RowsOf(t, [f \in matched |-> MatchField(t, f)])
      remaining(f) == {r.key[f] : r \in narrowed} \ {None}
      key == [f \in fields |-> IF f \in matched THEN MatchField(t, f)
                               ELSE CHOOSE v \in remaining(f) : TRUE]
      resolved == \A f \in fields \ matched : infer /\ remaining(f) # {}
  IN  IF matched # {} /\ resolved THEN RowsOf(t, key) ELSE {}

\* A field the question says nothing about is filled in, where that is allowed,
\* when the fields that did match leave it one value.
GenericRows(t, infer) ==
  LET fields == KeyFields(t)
      matched == {f \in fields : MatchField(t, f) # None}
      narrowed == RowsOf(t, [f \in matched |-> MatchField(t, f)])
      remaining(f) == {r.key[f] : r \in narrowed} \ {None}
      key == [f \in fields |-> IF f \in matched THEN MatchField(t, f)
                               ELSE CHOOSE v \in remaining(f) : TRUE]
      resolved == \A f \in fields \ matched : infer /\ Cardinality(remaining(f)) = 1
  IN  IF matched # {} /\ resolved THEN RowsOf(t, key) ELSE {}

(* Fault: of several tables that resolve, one is taken. *)
OneTable_First(names, infer) ==
  LET resolving == {t \in names : GenericRows(t, infer) # {}}
      first == CHOOSE t \in resolving : TRUE
  IN  {Found(t, GenericRows(t, infer), "none") : t \in {t \in resolving : t = first}}

\* Two tables of a tier that both resolve cancel each other.
OneTable(names, infer) ==
  LET resolving == {t \in names : GenericRows(t, infer) # {}}
  IN  {Found(t, GenericRows(t, infer), "none") : t \in
         {t \in resolving : Cardinality(resolving) = 1}}

-----------------------------------------------------------------------------
(* The GEM tables.                                                         *)

NamedActivites == {m \in activites : m.code \in question}

(* Fault: the network the question names does not matter. *)
Perimeter_First ==
  LET known == {m.perimeter : m \in NamedActivites}
  IN  IF "cuivre" \in known THEN "cuivre" ELSE IF "ftth" \in known THEN "ftth" ELSE None

\* One activity, in one network: the only one it exists in, or the one the
\* question names (copper is looked for first).
Perimeter ==
  LET known == {m.perimeter : m \in NamedActivites}
  IN  IF Cardinality(known) = 1 THEN CHOOSE p \in known : TRUE
      ELSE IF "cuivre" \in question \intersect known THEN "cuivre"
      ELSE IF "ftth" \in question \intersect known THEN "ftth"
      ELSE None

\* The longest echec of the table that the question names; between two as long,
\* either.
Echecs(t) ==
  LET named == Candidates(t, "echec") \intersect question
  IN  IF named = {} THEN {None}
      ELSE {e \in named : \A other \in named : Length[other] <= Length[e]}

Channel(rows) ==
  IF "wholesale" \in question THEN {r \in rows : r.key["canal"] = "wholesale"}
  ELSE IF "retail" \in question THEN {r \in rows : r.key["canal"] = "retail"}
  ELSE rows

GemRows(t, activite, e) ==
  {r \in tables[t] : e # None /\ r.key["activite"] = activite /\ r.key["echec"] = e}

CuivreAnswers(activite, e) ==
  {Found("gem cuivre", rows, "none") :
     rows \in {Channel(GemRows("gem cuivre", activite, e))} \ {{}}}

\* "duree" says NON whatever the echec, and this table says OUI.
SavNote(activite, row) ==
  LET said == {r.says : r \in {x \in tables["duree"] : x.key["activite"] = activite}}
  IN  IF said = {"non"} /\ row.says = "oui" THEN "conflict" ELSE "none"

SavAnswers(activite) ==
  LET rows == {r \in tables["sav"] : r.key["activite"] = activite}
  IN  {Found("sav", rows, SavNote(activite, r)) : r \in {x \in rows : Cardinality(rows) = 1}}

\* The table with the echec first; when it has not exactly one row, the one
\* without.
FtthAnswers(activite, e) ==
  LET rows == GemRows("gem ftth", activite, e)
  IN  IF Cardinality(rows) = 1 THEN {Found("gem ftth", rows, "none")}
      ELSE SavAnswers(activite)

GemAnswers(copper, fibre) ==
  LET codes == {m.code : m \in NamedActivites}
  IN  UNION {CASE Perimeter = "cuivre" -> CuivreAnswers(activite, copper)
               [] Perimeter = "ftth" -> FtthAnswers(activite, fibre)
               [] OTHER -> {} :
             activite \in {c \in codes : Cardinality(codes) = 1}}

-----------------------------------------------------------------------------
(* Billing of copper: the article, confirmed or contradicted by the matrix *)
(* where that has exactly one row.                                         *)

ArticleAnswers ==
  LET activite == MatchField("article", "activite")
      rows == {r \in tables["article"] : r.key["activite"] = activite}
      matrix == {r \in tables["matrix"] : r.key["activite"] = activite}
      note(r) == IF Cardinality(matrix) > 1 THEN "several"
                 ELSE IF matrix = {} THEN "none"
                 ELSE IF \E m \in matrix : m.key["code"] = r.says THEN "confirmed"
                 ELSE "conflict"
  IN  IF activite = None \/ Cardinality(rows) # 1 THEN {}
      ELSE {Found("article", rows, note(r)) : r \in rows}

-----------------------------------------------------------------------------
(* The tiers: each is tried when the one before gave no answer.            *)

Try(tier, answers, next) ==
  /\ stage = tier
  /\ \/ \E a \in answers : answer' = a /\ stage' = "answered"
     \/ answers = {} /\ stage' = next /\ UNCHANGED answer
  /\ UNCHANGED <<question, tables, activites>>

GemTier ==
  \E copper \in Echecs("gem cuivre"), fibre \in Echecs("gem ftth") :
    Try("gem", GemAnswers(copper, fibre), "operational")
(* Fault: no field is filled in. *)
OperationalTier_Strict == Try("operational", OneTable(Operational, FALSE), "facturation")
OperationalTier == Try("operational", OneTable(Operational, TRUE), "facturation")
FacturationTier == Try("facturation", ArticleAnswers, "billing")
BillingTier == Try("billing", OneTable(Billing, FALSE), "glossary")
GlossaryTier == Try("glossary", OneTable(Glossary, FALSE), "retrieval")

LookupNext == GemTier \/ OperationalTier \/ FacturationTier \/ BillingTier \/ GlossaryTier

LookupSpec == LookupInit /\ [][LookupNext]_lookupVars

-----------------------------------------------------------------------------
(* Properties.                                                             *)

LookupTypeOK ==
  /\ question \subseteq Value
  /\ tables \in [Table -> SUBSET Row]
  /\ stage \in Stages
  /\ answer.table \in Table \union {None}
  /\ (stage = "answered") <=> (answer.table # None)

Named(t, f) == Candidates(t, f) \intersect question

\* The rows that agree with the question: with every key field of which it names
\* just one value.  Those that agree in full leave no key field empty.
Fitting(t) ==
  {r \in tables[t] :
     \A f \in KeyFields(t) : Cardinality(Named(t, f)) = 1 => r.key[f] \in Named(t, f)}
Agreeing(t) == {r \in Fitting(t) : \A f \in KeyFields(t) : r.key[f] # None}

\* The question names a key of the table, and rows agree with it that do not differ
\* in a key field it leaves open; only an operational table may leave one open.
Meant(t) ==
  /\ Agreeing(t) # {}
  /\ \E f \in KeyFields(t) : Cardinality(Named(t, f)) = 1
  /\ \A f \in KeyFields(t) :
       \/ Cardinality(Named(t, f)) = 1
       \/ /\ t \in Operational
          /\ \A r, q \in Fitting(t) : r.key[f] = q.key[f] \/ None \in {r.key[f], q.key[f]}

\* The table of a tier that is meant when no other is.
Determined(tier) == {t \in tier : Meant(t) /\ \A other \in tier \ {t} : ~Meant(other)}

\* The network a GEM answer is about has the activity.  If another one has it too,
\* the question names the network; of two that it names, copper is taken.
Asks(network) ==
  LET networks == {m.perimeter : m \in NamedActivites}
  IN  /\ network \in networks
      /\ networks # {network} =>
           /\ network \in question
           /\ network = "ftth" => "cuivre" \notin question \intersect networks

NamedCodes == {m.code : m \in NamedActivites}
Longest(t) ==
  {e \in Named(t, "echec") : \A other \in Named(t, "echec") : Length[other] <= Length[e]}

\* The rows for an activity and an echec, of copper in the channel that is named;
\* of two channels that are, in wholesale.
GemFitting(t, a, e) ==
  {r \in tables[t] :
     /\ r.key["activite"] = a /\ r.key["echec"] = e
     /\ t = "gem cuivre" =>
          /\ "wholesale" \in question => r.key["canal"] = "wholesale"
          /\ question \intersect {"wholesale", "retail"} = {"retail"} => r.key["canal"] = "retail"}

Settles(t, a, e) ==
  GemFitting(t, a, e) # {} /\ (t = "gem ftth" => Cardinality(GemFitting(t, a, e)) = 1)
Unsettled(t, a) == Longest(t) = {} \/ \E e \in Longest(t) : ~Settles(t, a, e)
SavRows(a) == {r \in tables["sav"] : r.key["activite"] = a}

\* A GEM table answers for the one activity named, in the network asked about: with
\* all its rows for the longest echec named, or, where that does not settle it, with
\* the one row that "sav" has.  Then it says so when "duree" has only NON for an OUI
\* of "sav" (decision_lookup_service.py:98-103, 214-293).
GemAnswer(t) ==
  \E a \in NamedCodes :
    /\ NamedCodes = {a}
    /\ Asks(IF t = "gem cuivre" THEN "cuivre" ELSE "ftth")
    /\ \/ t # "sav" /\ \E e \in Longest(t) : Settles(t, a, e) /\ answer.rows = GemFitting(t, a, e)
       \/ /\ t = "sav" /\ Unsettled("gem ftth", a)
          /\ answer.rows = SavRows(a) /\ Cardinality(SavRows(a)) = 1
          /\ LET said == {d.says : d \in {x \in tables["duree"] : x.key["activite"] = a}}
             IN  said = {"non"} /\ (\E r \in SavRows(a) : r.says = "oui") => answer.note = "conflict"

GemOpen ==
  \A a \in NamedCodes : NamedCodes = {a} =>
    /\ Asks("cuivre") => Unsettled("gem cuivre", a)
    /\ Asks("ftth") => Unsettled("gem ftth", a) /\ Cardinality(SavRows(a)) # 1

\* The one article of the one activity named: where the answer does not say so, no
\* row of the matrix gives another code for it.
ArticleRows(a) == {r \in tables["article"] : r.key["activite"] = a}
ArticleAnswer ==
  \E a \in Named("article", "activite") :
    /\ Named("article", "activite") = {a}
    /\ answer.rows = ArticleRows(a) /\ Cardinality(ArticleRows(a)) = 1
    /\ answer.note \in {"none", "confirmed"} =>
         \A m \in tables["matrix"], r \in answer.rows :
           m.key["activite"] = a => m.key["code"] = r.says

ArticleOpen ==
  \A a \in Named("article", "activite") :
    Named("article", "activite") = {a} => Cardinality(ArticleRows(a)) # 1

\* What a lookup answers is what the question determines in one table.
AnswerDetermined ==
  stage = "answered" =>
    LET t == answer.table
    IN  \/ t \in {"gem cuivre", "gem ftth", "sav"} /\ GemAnswer(t)
        \/ t = "article" /\ ArticleAnswer
        \/ \E tier \in {Operational, Billing, Glossary} :
             t \in Determined(tier) /\ answer.rows = Agreeing(t)

\* A tier answers, and retrieval is left to, only where no tier before determines a
\* table.  One in which two tables are meant determines none.
TiersInOrder ==
  LET after(tiers) == stage = "retrieval" \/ answer.table \in tiers
  IN  /\ after(Operational \union Billing \union Glossary) => GemOpen
      /\ after(Billing \union Glossary) => Determined(Operational) = {}
      /\ after(Billing \union Glossary) => ArticleOpen \/ (answer.table = "article" /\ ArticleAnswer)
      /\ after(Glossary) => Determined(Billing) = {}
      /\ stage = "retrieval" => Determined(Glossary) = {}

\* This module never guesses, and tries each tier only if those before found nothing
\* (decision_lookup_service.py:19-22, 308-325, 663-672).
NeverGuesses == AnswerDetermined /\ TiersInOrder

=============================================================================
