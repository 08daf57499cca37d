--------------------------- MODULE KnowledgeProofs ---------------------------
(***************************************************************************)
(* The safety of the parts of MCKnowledge, for any tables, articles, files, *)
(* questions, similarity and bounds; the limiter's is in RateLimitProofs.   *)
(*                                                                         *)
(* Lookup.  LookupIInv adds that the tables are finite (TablesOK) and that  *)
(* when a tier is reached those before determine nothing (Left).  The work  *)
(* is in the tables: narrowing by the fields that match, filling in and     *)
(* selecting finds rows just where a table is meant, and then all that      *)
(* agree (GenericRowsCorrect, OneTableCorrect); the GEM tables and the      *)
(* article have a lemma each (GemCorrect, ArticleCorrect).                 *)
(*                                                                         *)
(* Offline.  A search is a function of rows, vectors and versions, so what  *)
(* it finds is proved of that function, wherever they are Searchable.       *)
(* OfflineIInv makes every reachable state so: versions count up, an upload *)
(* adds rows to a version that has none, and the rows of one version have   *)
(* ids of their own (RowsUnique).                                          *)
(*                                                                         *)
(* Chunking.  What a section is split into is proved of the pure splitters *)
(* (PiecesRight), by the recursion each of them obeys (UpTo, Scan); the     *)
(* state then keeps, in ChunkIInv, that the chunks of every section that is *)
(* done are those pieces, and of a section being cut by size that its cuts  *)
(* reach as far as they should (MadeRight, Underway).                      *)
(***************************************************************************)
EXTENDS MCKnowledge, RateLimitProofs, FiniteSetTheorems, SequenceTheorems, TLAPS

-----------------------------------------------------------------------------
(* Sets.                                                                   *)

LEMMA OneElement ==
  ASSUME NEW S, IsFiniteSet(S), Cardinality(S) = 1
  PROVE  \E x \in S : S = {x} /\ (CHOOSE v \in S : TRUE) = x
<1>1. PICK x : S = {x}
  BY FS_Singleton
<1>2. (CHOOSE v \in S : TRUE) = x
  BY <1>1
<1> QED
  BY <1>1, <1>2

LEMMA Image ==
  ASSUME NEW S, IsFiniteSet(S), NEW f, DOMAIN f = S
  PROVE  IsFiniteSet({f[x] : x \in S})
<1> DEFINE V == {f[x] : x \in S}
<1>1. [x \in S |-> f[x]] \in Surjection(S, V)
  BY DEF Surjection
<1> QED
  BY <1>1, FS_Surjection

LEMMA LeastOf ==
  ASSUME NEW S \in SUBSET Nat, S # {}
  PROVE  Min(S) \in S /\ \A y \in S : Min(S) <= y
<1> DEFINE less == OpToRel(<, Nat)
<1>1. PICK x \in S : \A y \in S : ~(<<y, x>> \in less)
  BY NatLessThanWellFounded, WFMin
<1>2. \A y \in S : y < x => <<y, x>> \in less
  <2>1. ASSUME NEW y \in S, y < x
        PROVE  <<y, x>> \in less
    <3>1. <<y, x>> \in Nat \X Nat
      OBVIOUS
    <3>2. <<y, x>>[1] < <<y, x>>[2]
      BY <2>1
    <3> QED BY <3>1, <3>2, Zenon DEF less, OpToRel
  <2> QED BY <2>1
<1>3. \A y \in S : x <= y
  <2>1. \A y \in S : ~(y < x)
    <3> HIDE DEF less
    <3> QED BY <1>1, <1>2
  <2> QED BY <2>1
<1> QED BY <1>3 DEF Min

LEMMA SomeElement ==
  ASSUME NEW S, Cardinality(S) = 1
  PROVE  S # {}
BY FS_EmptySet

\* In every state the tables are typed and finite: they are the ones of some base.
TablesOK ==
  /\ tables \in [Table -> SUBSET Row]
  /\ \A t \in Table : IsFiniteSet(tables[t])
  /\ IsFiniteSet(activites)

-----------------------------------------------------------------------------
(* Which sets have one element.                                            *)

\* The keys of the rows of a finite set, field by field.
LEMMA KeysFinite ==
  ASSUME NEW S, IsFiniteSet(S), NEW f
  PROVE  IsFiniteSet({r.key[f] : r \in S} \ {None})
<1> DEFINE g == [r \in S |-> r.key[f]]
           V == {g[r] : r \in S}
<1>1. IsFiniteSet(V)
  <2> HIDE DEF g
  <2>1. DOMAIN g = S
    BY DEF g
  <2> QED
    BY <2>1, Image
<1>2. {r.key[f] : r \in S} = V
  OBVIOUS
<1> QED
  BY <1>1, <1>2, FS_Difference

LEMMA CandidatesFinite ==
  ASSUME TablesOK, NEW t \in Table, NEW f
  PROVE  IsFiniteSet(Candidates(t, f) \intersect question)
<1>1. IsFiniteSet(tables[t])
  BY DEF TablesOK
<1>2. IsFiniteSet(Candidates(t, f))
  BY <1>1, KeysFinite DEF Candidates
<1> QED
  BY <1>2, FS_Intersection

\* MatchField finds the one value that is named, and nothing otherwise.
LEMMA MatchFieldCorrect ==
  ASSUME TablesOK, NEW t \in Table, NEW f
  PROVE  /\ MatchField(t, f) # None =>
              /\ Candidates(t, f) \intersect question = {MatchField(t, f)}
              /\ Cardinality(Candidates(t, f) \intersect question) = 1
         /\ \A v : Candidates(t, f) \intersect question = {v} => MatchField(t, f) = v /\ v # None
         /\ Cardinality(Candidates(t, f) \intersect question) = 1 => MatchField(t, f) # None
<1> DEFINE named == Candidates(t, f) \intersect question
<1>0. None \notin named
  BY DEF Candidates
<1>1. MatchField(t, f) = IF Cardinality(named) = 1 THEN CHOOSE v \in named : TRUE ELSE None
  BY DEF MatchField
<1>2. IsFiniteSet(named)
  BY CandidatesFinite
<1> HIDE DEF named
<1>3. ASSUME Cardinality(named) = 1
      PROVE  named = {MatchField(t, f)} /\ MatchField(t, f) # None
  BY <1>0, <1>1, <1>2, <1>3, OneElement
<1>4. \A v : named = {v} => Cardinality(named) = 1
  BY FS_Singleton
<1>5. MatchField(t, f) # None => named = {MatchField(t, f)} /\ Cardinality(named) = 1
  BY <1>1, <1>3
<1>6. \A v : named = {v} => MatchField(t, f) = v /\ v # None
  BY <1>3, <1>4
<1>7. Cardinality(named) = 1 => MatchField(t, f) # None
  BY <1>3
<1> QED
  BY <1>5, <1>6, <1>7 DEF named

-----------------------------------------------------------------------------
(* The tables read by their keys.                                          *)

MatchedFields(t) == {f \in KeyFields(t) : MatchField(t, f) # None}
NarrowedRows(t) == RowsOf(t, [f \in MatchedFields(t) |-> MatchField(t, f)])
LeftValues(t, f) == {r.key[f] : r \in NarrowedRows(t)} \ {None}
FullKey(t) ==
  [f \in KeyFields(t) |-> IF f \in MatchedFields(t) THEN MatchField(t, f)
                          ELSE CHOOSE v \in LeftValues(t, f) : TRUE]
Resolves(t, infer) ==
  \A f \in KeyFields(t) \ MatchedFields(t) : infer /\ Cardinality(LeftValues(t, f)) = 1

LEMMA GenericRowsNamed ==
  ASSUME NEW t, NEW infer
  PROVE  GenericRows(t, infer) =
           IF MatchedFields(t) # {} /\ Resolves(t, infer) THEN RowsOf(t, FullKey(t)) ELSE {}
BY DEF GenericRows, MatchedFields, NarrowedRows, LeftValues, FullKey, Resolves

\* The fields that match are those of which the question names just one value.
LEMMA MatchedNamed ==
  ASSUME TablesOK, NEW t \in Table, NEW f \in KeyFields(t)
  PROVE  /\ f \in MatchedFields(t) <=> Cardinality(Named(t, f)) = 1
         /\ f \in MatchedFields(t) => Named(t, f) = {MatchField(t, f)} /\ MatchField(t, f) # None
BY MatchFieldCorrect DEF MatchedFields, Named

\* The rows under the values that match are those that agree with the question.
LEMMA NarrowedFit ==
  ASSUME TablesOK, NEW t \in Table
  PROVE  NarrowedRows(t) = Fitting(t)
<1>1. ASSUME NEW r \in tables[t]
      PROVE  r \in NarrowedRows(t) <=> \A f \in MatchedFields(t) : r.key[f] = MatchField(t, f)
  BY DEF NarrowedRows, RowsOf
<1>2. ASSUME NEW r \in tables[t]
      PROVE  r \in Fitting(t) <=>
               \A f \in KeyFields(t) : Cardinality(Named(t, f)) = 1 => r.key[f] \in Named(t, f)
  BY DEF Fitting
<1>3. ASSUME NEW r \in tables[t]
      PROVE  r \in NarrowedRows(t) <=> r \in Fitting(t)
  <2>1. ASSUME NEW f \in KeyFields(t)
        PROVE  (f \in MatchedFields(t) => r.key[f] = MatchField(t, f))
                 <=> (Cardinality(Named(t, f)) = 1 => r.key[f] \in Named(t, f))
    BY MatchedNamed
  <2>2. MatchedFields(t) \subseteq KeyFields(t)
    BY DEF MatchedFields
  <2> QED
    BY <1>1, <1>2, <2>1, <2>2
<1>4. NarrowedRows(t) \subseteq tables[t] /\ Fitting(t) \subseteq tables[t]
  BY DEF NarrowedRows, RowsOf, Fitting
<1> QED
  BY <1>3, <1>4

LEMMA LeftFinite ==
  ASSUME TablesOK, NEW t \in Table, NEW f
  PROVE  IsFiniteSet(LeftValues(t, f))
<1>1. NarrowedRows(t) \in SUBSET tables[t]
  BY DEF NarrowedRows, RowsOf
<1>2. IsFiniteSet(NarrowedRows(t))
  BY <1>1, FS_Subset DEF TablesOK
<1> QED
  BY <1>2, KeysFinite DEF LeftValues

\* A field of the key that is filled in has the one value that is left.
LEMMA KeyValue ==
  ASSUME TablesOK, NEW t \in Table, NEW infer, Resolves(t, infer), NEW f \in KeyFields(t)
  PROVE  /\ FullKey(t)[f] # None
         /\ f \notin MatchedFields(t) => LeftValues(t, f) = {FullKey(t)[f]}
         /\ f \in MatchedFields(t) => FullKey(t)[f] = MatchField(t, f)
<1>1. CASE f \in MatchedFields(t)
  BY <1>1 DEF FullKey, MatchedFields
<1>2. CASE f \notin MatchedFields(t)
  <2>1. Cardinality(LeftValues(t, f)) = 1
    BY <1>2 DEF Resolves
  <2>2. FullKey(t)[f] = CHOOSE v \in LeftValues(t, f) : TRUE
    BY <1>2 DEF FullKey
  <2>3. FullKey(t)[f] \in LeftValues(t, f) /\ LeftValues(t, f) = {FullKey(t)[f]}
    BY <2>1, <2>2, LeftFinite, OneElement
  <2> QED
    BY <1>2, <2>3 DEF LeftValues
<1> QED
  BY <1>1, <1>2

\* The rows under the whole key are those that agree in full.
LEMMA AgreeingUnderKey ==
  ASSUME TablesOK, NEW t \in Table, NEW infer, Resolves(t, infer)
  PROVE  RowsOf(t, FullKey(t)) = Agreeing(t)
<1>0. DOMAIN FullKey(t) = KeyFields(t)
  BY DEF FullKey
<1>1. ASSUME NEW r \in Agreeing(t)
      PROVE  r \in RowsOf(t, FullKey(t))
  <2>1. r \in NarrowedRows(t) /\ \A f \in KeyFields(t) : r.key[f] # None
    BY NarrowedFit DEF Agreeing
  <2>2. r \in tables[t] /\ \A f \in MatchedFields(t) : r.key[f] = MatchField(t, f)
    BY <2>1 DEF NarrowedRows, RowsOf
  <2>3. ASSUME NEW f \in KeyFields(t)
        PROVE  r.key[f] = FullKey(t)[f]
    <3>1. CASE f \in MatchedFields(t)
      BY <2>2, <3>1, KeyValue
    <3>2. CASE f \notin MatchedFields(t)
      <4>1. r.key[f] \in LeftValues(t, f)
        BY <2>1 DEF LeftValues
      <4> QED
        BY <3>2, <4>1, KeyValue
    <3> QED
      BY <3>1, <3>2
  <2> QED
    BY <1>0, <2>2, <2>3 DEF RowsOf
<1>2. ASSUME NEW r \in RowsOf(t, FullKey(t))
      PROVE  r \in Agreeing(t)
  <2>1. r \in tables[t] /\ \A f \in KeyFields(t) : r.key[f] = FullKey(t)[f] /\ r.key[f] # None
    BY <1>0, KeyValue DEF RowsOf
  <2>2. \A f \in MatchedFields(t) : f \in KeyFields(t) /\ r.key[f] = MatchField(t, f)
    BY <2>1, KeyValue DEF MatchedFields
  <2>3. r \in NarrowedRows(t)
    BY <2>1, <2>2 DEF NarrowedRows, RowsOf
  <2> QED
    BY <2>1, <2>3, NarrowedFit DEF Agreeing
<1> QED
  BY <1>1, <1>2

\* A key resolves where the rows that agree leave no field open in two ways.
LEMMA ResolvesMeant ==
  ASSUME TablesOK, NEW t \in Table, NEW infer \in BOOLEAN, infer <=> t \in Operational,
         Agreeing(t) # {}
  PROVE  Resolves(t, infer) <=>
           \A f \in KeyFields(t) :
             \/ Cardinality(Named(t, f)) = 1
             \/ /\ t \in Operational
                /\ \A r, q \in Fitting(t) : r.key[f] = q.key[f] \/ None \in {r.key[f], q.key[f]}
<1> DEFINE Alike(f) ==
             \A r, q \in Fitting(t) : r.key[f] = q.key[f] \/ None \in {r.key[f], q.key[f]}
<1>1. ASSUME NEW f \in KeyFields(t)
      PROVE  Cardinality(LeftValues(t, f)) = 1 <=> Alike(f)
  <2>1. PICK s \in Fitting(t) : s.key[f] # None
    BY DEF Agreeing
  <2>2. s.key[f] \in LeftValues(t, f)
    BY <2>1, NarrowedFit DEF LeftValues
  <2>3. ASSUME Cardinality(LeftValues(t, f)) = 1
        PROVE  Alike(f)
    <3>1. LeftValues(t, f) = {s.key[f]}
      BY <2>2, <2>3, LeftFinite, OneElement
    <3>2. \A r \in Fitting(t) : r.key[f] \in {None, s.key[f]}
      BY <3>1, NarrowedFit DEF LeftValues
    <3> QED
      BY <3>2
  <2>4. ASSUME Alike(f)
        PROVE  Cardinality(LeftValues(t, f)) = 1
    <3>1. \A r \in Fitting(t) : r.key[f] # None => r.key[f] = s.key[f]
      BY <2>1, <2>4
    <3>2. LeftValues(t, f) = {s.key[f]}
      BY <2>2, <3>1, NarrowedFit DEF LeftValues
    <3> QED
      BY <3>2, FS_Singleton
  <2> QED
    BY <2>3, <2>4
<1> HIDE DEF Alike
<1>2. Resolves(t, infer) <=>
        \A f \in KeyFields(t) : Cardinality(Named(t, f)) = 1 \/ (t \in Operational /\ Alike(f))
  BY <1>1, MatchedNamed DEF Resolves
<1> QED
  BY <1>2 DEF Alike

\* A table resolves if it is meant, and gives the rows that agree with the question.
LEMMA GenericRowsCorrect ==
  ASSUME TablesOK, NEW t \in Table, NEW infer \in BOOLEAN, infer <=> t \in Operational
  PROVE  /\ GenericRows(t, infer) # {} <=> Meant(t)
         /\ GenericRows(t, infer) # {} => GenericRows(t, infer) = Agreeing(t)
<1>1. MatchedFields(t) # {} <=> \E f \in KeyFields(t) : Cardinality(Named(t, f)) = 1
  BY MatchedNamed DEF MatchedFields
<1>2. ASSUME GenericRows(t, infer) # {}
      PROVE  GenericRows(t, infer) = Agreeing(t) /\ Meant(t)
  <2>1. /\ MatchedFields(t) # {} /\ Resolves(t, infer)
        /\ GenericRows(t, infer) = RowsOf(t, FullKey(t))
    BY <1>2, GenericRowsNamed
  <2>2. GenericRows(t, infer) = Agreeing(t)
    BY <2>1, AgreeingUnderKey
  <2> QED
    BY <1>1, <1>2, <2>1, <2>2, ResolvesMeant DEF Meant
<1>3. ASSUME Meant(t)
      PROVE  GenericRows(t, infer) # {}
  <2>1. Resolves(t, infer) /\ MatchedFields(t) # {} /\ Agreeing(t) # {}
    BY <1>1, <1>3, ResolvesMeant DEF Meant
  <2>2. RowsOf(t, FullKey(t)) # {}
    BY <2>1, AgreeingUnderKey
  <2> QED
    BY <2>1, <2>2, GenericRowsNamed
<1> QED
  BY <1>2, <1>3

\* A tier answers if it determines a table, with the rows of that table.
LEMMA OneTableCorrect ==
  ASSUME TablesOK, NEW names \in SUBSET Table, IsFiniteSet(names), NEW infer \in BOOLEAN,
         \A t \in names : infer <=> t \in Operational
  PROVE  /\ \A a \in OneTable(names, infer) :
              a.table \in Determined(names) /\ a.rows = Agreeing(a.table)
         /\ OneTable(names, infer) = {} => Determined(names) = {}
<1> DEFINE resolving == {t \in names : GenericRows(t, infer) # {}}
<1>0. IsFiniteSet(resolving)
  BY FS_Subset
<1>1. \A t \in names : t \in resolving <=> Meant(t)
  BY GenericRowsCorrect
<1>2. ASSUME NEW a \in OneTable(names, infer)
      PROVE  a.table \in Determined(names) /\ a.rows = Agreeing(a.table)
  <2>1. PICK t \in resolving : a = Found(t, GenericRows(t, infer), "none") /\ Cardinality(resolving) = 1
    BY DEF OneTable
  <2>2. t \in names /\ t \in Table /\ GenericRows(t, infer) # {}
    OBVIOUS
  <2>3. a.table = t /\ a.rows = Agreeing(t)
    BY <2>1, <2>2, GenericRowsCorrect DEF Found
  <2>4. resolving = {t}
    <3> HIDE DEF resolving
    <3> QED
      BY <1>0, <2>1, OneElement
  <2> HIDE DEF resolving
  <2>5. t \in Determined(names)
    BY <1>1, <2>2, <2>4 DEF Determined
  <2> QED
    BY <2>3, <2>5
<1>3. ASSUME NEW t \in Determined(names)
      PROVE  OneTable(names, infer) # {}
  <2>1. t \in names /\ resolving = {t}
    <3>1. t \in names /\ Meant(t) /\ \A other \in names \ {t} : ~Meant(other)
      BY DEF Determined
    <3>2. \A other \in resolving : other \in names
      OBVIOUS
    <3> HIDE DEF resolving
    <3> QED
      BY <1>1, <3>1, <3>2
  <2>2. Cardinality(resolving) = 1
    <3> HIDE DEF resolving
    <3> QED
      BY <2>1, FS_Singleton
  <2>3. t \in {x \in resolving : Cardinality(resolving) = 1}
    <3> HIDE DEF resolving
    <3> QED
      BY <2>1, <2>2
  <2>4. Found(t, GenericRows(t, infer), "none") \in OneTable(names, infer)
    BY <2>3 DEF OneTable
  <2> QED
    BY <2>4
<1> QED
  BY <1>2, <1>3

-----------------------------------------------------------------------------
(* The GEM tables.                                                         *)

GemSound(a) ==
  /\ a.table \in {"gem cuivre", "gem ftth", "sav"}
  /\ \E act \in NamedCodes :
       /\ NamedCodes = {act}
       /\ Asks(IF a.table = "gem cuivre" THEN "cuivre" ELSE "ftth")
       /\ \/ /\ a.table # "sav"
             /\ \E e \in Longest(a.table) :
                  Settles(a.table, act, e) /\ a.rows = GemFitting(a.table, act, e)
          \/ /\ a.table = "sav" /\ Unsettled("gem ftth", act)
             /\ a.rows = SavRows(act) /\ Cardinality(SavRows(act)) = 1
             /\ LET said == {d.says : d \in {x \in tables["duree"] : x.key["activite"] = act}}
                IN  said = {"non"} /\ (\E r \in SavRows(act) : r.says = "oui") => a.note = "conflict"

LEMMA NamedFinite ==
  ASSUME TablesOK
  PROVE  IsFiniteSet({m.perimeter : m \in NamedActivites}) /\ IsFiniteSet(NamedCodes)
<1>1. IsFiniteSet(NamedActivites)
  BY FS_Subset DEF TablesOK, NamedActivites
<1> DEFINE g == [m \in NamedActivites |-> m.perimeter]
           h == [m \in NamedActivites |-> m.code]
<1>2. DOMAIN g = NamedActivites /\ DOMAIN h = NamedActivites
  OBVIOUS
<1>3. IsFiniteSet({g[m] : m \in NamedActivites}) /\ IsFiniteSet({h[m] : m \in NamedActivites})
  <2> HIDE DEF g, h
  <2> QED
    BY <1>1, <1>2, Image
<1>4. {m.perimeter : m \in NamedActivites} = {g[m] : m \in NamedActivites}
  OBVIOUS
<1>5. NamedCodes = {h[m] : m \in NamedActivites}
  BY DEF NamedCodes
<1> QED
  BY <1>3, <1>4, <1>5

\* The network that is looked up is the one the question asks about.
LEMMA PerimeterAsked ==
  ASSUME TablesOK, NEW network \in {"cuivre", "ftth"}
  PROVE  Perimeter = network <=> Asks(network)
<1> DEFINE known == {m.perimeter : m \in NamedActivites}
<1>1. /\ Perimeter = IF Cardinality(known) = 1 THEN CHOOSE p \in known : TRUE
                     ELSE IF "cuivre" \in question \intersect known THEN "cuivre"
                     ELSE IF "ftth" \in question \intersect known THEN "ftth"
                     ELSE None
      /\ Asks(network) <=> /\ network \in known
                           /\ known # {network} =>
                                /\ network \in question
                                /\ network = "ftth" => "cuivre" \notin question \intersect known
      /\ IsFiniteSet(known)
  BY NamedFinite DEF Perimeter, Asks
<1> HIDE DEF known
<1>2. network # None /\ "cuivre" # None /\ "ftth" # None
  BY LookupAssumption DEF Signals
<1>3. CASE Cardinality(known) = 1
  <2>1. PICK p : known = {p}
    BY <1>1, <1>3, OneElement
  <2> QED
    BY <1>1, <1>3, <2>1
<1>4. CASE Cardinality(known) # 1
  <2>1. known # {network}
    BY <1>4, FS_Singleton
  <2> QED
    BY <1>1, <1>2, <1>4, <2>1
<1> QED
  BY <1>3, <1>4

\* The echec that is looked up is one of the longest, or none is named.
LEMMA EchecLongest ==
  ASSUME NEW t, NEW e \in Echecs(t)
  PROVE  /\ e # None => e \in Longest(t)
         /\ e = None => Longest(t) = {}
<1>1. Named(t, "echec") = Candidates(t, "echec") \intersect question /\ None \notin Named(t, "echec")
  BY DEF Named, Candidates
<1>2. CASE Named(t, "echec") = {}
  BY <1>1, <1>2 DEF Echecs, Longest
<1>3. CASE Named(t, "echec") # {}
  BY <1>1, <1>3 DEF Echecs, Longest
<1> QED
  BY <1>2, <1>3

LEMMA ChannelFits ==
  ASSUME NEW act, NEW e, e # None
  PROVE  /\ Channel(GemRows("gem cuivre", act, e)) = GemFitting("gem cuivre", act, e)
         /\ GemRows("gem ftth", act, e) = GemFitting("gem ftth", act, e)
<1>1. GemRows("gem ftth", act, e) = GemFitting("gem ftth", act, e)
  BY DEF GemRows, GemFitting
<1>2. CASE "wholesale" \in question
  <2>1. question \intersect {"wholesale", "retail"} # {"retail"}
    BY <1>2
  <2> QED
    BY <1>1, <1>2, <2>1 DEF GemRows, GemFitting, Channel
<1>3. CASE "wholesale" \notin question /\ "retail" \in question
  <2>1. question \intersect {"wholesale", "retail"} = {"retail"}
    BY <1>3
  <2> QED
    BY <1>1, <1>3, <2>1 DEF GemRows, GemFitting, Channel
<1>4. CASE "wholesale" \notin question /\ "retail" \notin question
  <2>1. question \intersect {"wholesale", "retail"} # {"retail"}
    BY <1>4
  <2> QED
    BY <1>1, <1>4, <2>1 DEF GemRows, GemFitting, Channel
<1> QED
  BY <1>2, <1>3, <1>4

LEMMA CuivreCorrect ==
  ASSUME NEW act \in NamedCodes, NamedCodes = {act}, Asks("cuivre"), NEW e \in Echecs("gem cuivre")
  PROVE  /\ \A a \in CuivreAnswers(act, e) : GemSound(a)
         /\ CuivreAnswers(act, e) = {} => Unsettled("gem cuivre", act)
<1> DEFINE fitting == Channel(GemRows("gem cuivre", act, e))
<1>1. /\ \A a \in CuivreAnswers(act, e) : a = Found("gem cuivre", fitting, "none") /\ fitting # {}
      /\ fitting # {} => CuivreAnswers(act, e) # {}
  BY DEF CuivreAnswers
<1>2. CASE e = None
  <2>1. fitting = {}
    BY <1>2 DEF GemRows, Channel
  <2>2. Longest("gem cuivre") = {}
    BY <1>2, EchecLongest
  <2> QED
    BY <1>1, <2>1, <2>2 DEF Unsettled
<1>3. CASE e # None
  <2>1. e \in Longest("gem cuivre") /\ fitting = GemFitting("gem cuivre", act, e)
    BY <1>3, EchecLongest, ChannelFits
  <2>2. Settles("gem cuivre", act, e) <=> fitting # {}
    BY <2>1 DEF Settles
  <2>3. ASSUME NEW a \in CuivreAnswers(act, e)
        PROVE  GemSound(a)
    <3>0. a = Found("gem cuivre", fitting, "none") /\ fitting # {}
      BY <1>1
    <3>1. a.table = "gem cuivre" /\ a.rows = fitting /\ fitting # {}
      <4> HIDE DEF fitting
      <4> QED
        BY <3>0 DEF Found
    <3> QED
      BY <2>1, <2>2, <3>1 DEF GemSound
  <2> QED
    BY <1>1, <2>1, <2>2, <2>3 DEF Unsettled
<1> QED
  BY <1>2, <1>3

LEMMA SavCorrect ==
  ASSUME TablesOK, NEW act \in NamedCodes, NamedCodes = {act}, Asks("ftth"),
         Unsettled("gem ftth", act)
  PROVE  /\ \A a \in SavAnswers(act) : GemSound(a)
         /\ SavAnswers(act) = {} => Cardinality(SavRows(act)) # 1
<1> DEFINE those == {r \in tables["sav"] : r.key["activite"] = act}
<1>0. SavRows(act) = those
  BY DEF SavRows
<1>1. IsFiniteSet(those)
  <2>1. IsFiniteSet(tables["sav"])
    BY DEF TablesOK, Table, Gem
  <2> QED
    BY <2>1, FS_Subset
<1>3. ASSUME NEW a \in SavAnswers(act)
      PROVE  GemSound(a)
  <2>1. PICK r \in those : Cardinality(those) = 1 /\ a = Found("sav", those, SavNote(act, r))
    BY DEF SavAnswers
  <2> HIDE DEF those
  <2>2. those = {r}
    <3>1. Cardinality(those) = 1
      BY <2>1
    <3>2. PICK x \in those : those = {x}
      BY <1>1, <3>1, OneElement
    <3> QED
      BY <3>2
  <2>3. a.table = "sav" /\ a.rows = those /\ a.note = SavNote(act, r)
    BY <2>1 DEF Found
  <2> DEFINE said == {d.says : d \in {x \in tables["duree"] : x.key["activite"] = act}}
  <2>4. said = {"non"} /\ (\E s \in those : s.says = "oui") => a.note = "conflict"
    <3>1. (\E s \in those : s.says = "oui") => r.says = "oui"
      BY <2>2
    <3> QED
      BY <2>3, <3>1 DEF SavNote
  <2>5. a.rows = SavRows(act) /\ Cardinality(SavRows(act)) = 1
    BY <1>0, <2>1, <2>3
  <2>6. said = {"non"} /\ (\E s \in SavRows(act) : s.says = "oui") => a.note = "conflict"
    BY <1>0, <2>4
  <2> QED
    BY <2>3, <2>5, <2>6 DEF GemSound
<1>4. ASSUME Cardinality(those) = 1
      PROVE  SavAnswers(act) # {}
  <2>1. PICK r \in those : TRUE
    <3> HIDE DEF those
    <3> QED
      BY <1>4, SomeElement
  <2>2. Found("sav", those, SavNote(act, r)) \in SavAnswers(act)
    BY <1>4, <2>1 DEF SavAnswers
  <2> QED
    BY <2>2
<1> QED
  BY <1>0, <1>3, <1>4

LEMMA FtthCorrect ==
  ASSUME TablesOK, NEW act \in NamedCodes, NamedCodes = {act}, Asks("ftth"), NEW e \in Echecs("gem ftth")
  PROVE  /\ \A a \in FtthAnswers(act, e) : GemSound(a)
         /\ FtthAnswers(act, e) = {} => Unsettled("gem ftth", act) /\ Cardinality(SavRows(act)) # 1
<1> DEFINE fitting == GemRows("gem ftth", act, e)
<1>1. FtthAnswers(act, e) = IF Cardinality(fitting) = 1 THEN {Found("gem ftth", fitting, "none")}
                            ELSE SavAnswers(act)
  BY DEF FtthAnswers
<1>2. Cardinality(fitting) = 1 => e # None
  <2>1. e = None => fitting = {}
    BY DEF GemRows
  <2> HIDE DEF fitting
  <2> QED
    BY <2>1, SomeElement
<1>3. e # None => e \in Longest("gem ftth") /\ fitting = GemFitting("gem ftth", act, e)
  BY EchecLongest, ChannelFits
<1>4. e = None => Longest("gem ftth") = {}
  BY EchecLongest
<1> HIDE DEF fitting
<1>5. CASE Cardinality(fitting) = 1
  <2>1. Settles("gem ftth", act, e)
    BY <1>2, <1>3, <1>5, SomeElement DEF Settles
  <2>2. ASSUME NEW a \in FtthAnswers(act, e)
        PROVE  GemSound(a)
    <3>0. a = Found("gem ftth", fitting, "none")
      BY <1>1, <1>5
    <3>1. a.table = "gem ftth" /\ a.rows = fitting
      BY <3>0 DEF Found
    <3> QED
      BY <1>2, <1>3, <1>5, <2>1, <3>1 DEF GemSound
  <2> QED
    BY <1>1, <1>5, <2>2
<1>6. CASE Cardinality(fitting) # 1
  <2>1. Unsettled("gem ftth", act)
    BY <1>3, <1>4, <1>6 DEF Unsettled, Settles
  <2> QED
    BY <1>1, <1>6, <2>1, SavCorrect
<1> QED
  BY <1>5, <1>6

\* The GEM tier answers if the question settles a GEM table, and for what it asks.
LEMMA GemCorrect ==
  ASSUME TablesOK, NEW copper \in Echecs("gem cuivre"), NEW fibre \in Echecs("gem ftth")
  PROVE  /\ \A a \in GemAnswers(copper, fibre) : GemSound(a)
         /\ GemAnswers(copper, fibre) = {} => GemOpen
<1> DEFINE answers(act) == CASE Perimeter = "cuivre" -> CuivreAnswers(act, copper)
                             [] Perimeter = "ftth" -> FtthAnswers(act, fibre)
                             [] OTHER -> {}
<1>1. GemAnswers(copper, fibre) =
        UNION {answers(act) : act \in {c \in NamedCodes : Cardinality(NamedCodes) = 1}}
  BY DEF GemAnswers, NamedCodes
<1>2. /\ Asks("cuivre") <=> Perimeter = "cuivre"
      /\ Asks("ftth") <=> Perimeter = "ftth"
  BY PerimeterAsked
<1>3. ASSUME NEW act \in NamedCodes, NamedCodes = {act}
      PROVE  /\ \A a \in answers(act) : GemSound(a)
             /\ answers(act) = {} =>
                  /\ Asks("cuivre") => Unsettled("gem cuivre", act)
                  /\ Asks("ftth") => Unsettled("gem ftth", act) /\ Cardinality(SavRows(act)) # 1
  <2>1. CASE Perimeter = "cuivre"
    <3>1. answers(act) = CuivreAnswers(act, copper) /\ Asks("cuivre") /\ ~Asks("ftth")
      BY <1>2, <2>1
    <3> HIDE DEF answers
    <3> QED
      BY <1>3, <3>1, CuivreCorrect
  <2>2. CASE Perimeter = "ftth"
    <3>1. answers(act) = FtthAnswers(act, fibre) /\ Asks("ftth") /\ ~Asks("cuivre")
      BY <1>2, <2>2
    <3> HIDE DEF answers
    <3> QED
      BY <1>3, <3>1, FtthCorrect
  <2>3. CASE Perimeter # "cuivre" /\ Perimeter # "ftth"
    <3>1. answers(act) = {} /\ ~Asks("cuivre") /\ ~Asks("ftth")
      BY <1>2, <2>3
    <3> QED
      BY <3>1
  <2> QED
    BY <2>1, <2>2, <2>3
<1> HIDE DEF answers
<1>4. ASSUME NEW a \in GemAnswers(copper, fibre)
      PROVE  GemSound(a)
  <2>1. PICK act \in NamedCodes : Cardinality(NamedCodes) = 1 /\ a \in answers(act)
    BY <1>1
  <2>2. PICK x \in NamedCodes : NamedCodes = {x}
    BY <2>1, NamedFinite, OneElement
  <2>3. NamedCodes = {act}
    BY <2>2
  <2> QED
    BY <1>3, <2>1, <2>3
<1>5. ASSUME GemAnswers(copper, fibre) = {}
      PROVE  GemOpen
  <2>1. ASSUME NEW act \in NamedCodes, NamedCodes = {act}
        PROVE  answers(act) = {}
    <3>1. Cardinality(NamedCodes) = 1
      BY <2>1, FS_Singleton
    <3> QED
      BY <1>1, <1>5, <3>1
  <2> QED
    BY <1>3, <2>1 DEF GemOpen
<1> QED
  BY <1>4, <1>5

-----------------------------------------------------------------------------
(* The billing of copper.                                                  *)

ArticleSound(a) ==
  /\ a.table = "article"
  /\ \E act \in Named("article", "activite") :
       /\ Named("article", "activite") = {act}
       /\ a.rows = ArticleRows(act) /\ Cardinality(ArticleRows(act)) = 1
       /\ a.note \in {"none", "confirmed"} =>
            \A m \in tables["matrix"], r \in a.rows :
              m.key["activite"] = act => m.key["code"] = r.says

\* The article and the matrix are combined if the question names one activity and
\* that has one article.
LEMMA ArticleCorrect ==
  ASSUME TablesOK
  PROVE  /\ \A a \in ArticleAnswers : ArticleSound(a)
         /\ ArticleAnswers = {} => ArticleOpen
<1> DEFINE activite == MatchField("article", "activite")
           those == ArticleRows(activite)
           matrix == {r \in tables["matrix"] : r.key["activite"] = activite}
           note(r) == IF Cardinality(matrix) > 1 THEN "several"
                      ELSE IF matrix = {} THEN "none"
                      ELSE IF \E m \in matrix : m.key["code"] = r.says THEN "confirmed"
                      ELSE "conflict"
<1>0. "article" \in Table /\ "matrix" \in Table
  BY DEF Table, Billing
<1>1. ArticleAnswers = IF activite = None \/ Cardinality(those) # 1 THEN {}
                       ELSE {Found("article", those, note(r)) : r \in those}
  BY DEF ArticleAnswers, ArticleRows
<1>2. IsFiniteSet(those) /\ IsFiniteSet(matrix)
  BY <1>0, FS_Subset DEF TablesOK, ArticleRows
<1>3. /\ activite # None => Named("article", "activite") = {activite}
      /\ \A v : Named("article", "activite") = {v} => activite = v /\ v # None
  BY <1>0, MatchFieldCorrect DEF Named
<1>4. ASSUME NEW a \in ArticleAnswers
      PROVE  ArticleSound(a)
  <2>1. PICK r \in those : activite # None /\ Cardinality(those) = 1 /\ a = Found("article", those, note(r))
    <3> HIDE DEF those, note, activite
    <3> QED
      BY <1>1
  <2>2. those = {r}
    <3> HIDE DEF those
    <3> QED
      BY <1>2, <2>1, OneElement
  <2>3. a.table = "article" /\ a.rows = those /\ a.note = note(r)
    BY <2>1 DEF Found
  <2>4. ASSUME NEW m \in matrix, a.note \in {"none", "confirmed"}
        PROVE  m.key["code"] = r.says
    <3>1. ~(Cardinality(matrix) > 1) /\ \E x \in matrix : x.key["code"] = r.says
      <4> HIDE DEF matrix, those
      <4> QED
        BY <2>3, <2>4
    <3>2. Cardinality(matrix) = 1
      <4> HIDE DEF matrix, those
      <4>1. Cardinality(matrix) \in Nat /\ Cardinality(matrix) # 0
        BY <1>2, <2>4, FS_CardinalityType, FS_EmptySet
      <4> QED
        BY <3>1, <4>1
    <3>3. matrix = {m}
      <4> HIDE DEF matrix, those
      <4> QED
        BY <1>2, <2>4, <3>2, OneElement
    <3> QED
      BY <3>1, <3>3
  <2>5. ASSUME NEW m \in tables["matrix"], NEW s \in a.rows, a.note \in {"none", "confirmed"},
               m.key["activite"] = activite
        PROVE  m.key["code"] = s.says
    <3>1. m \in matrix /\ s = r
      <4> HIDE DEF those, activite
      <4> QED
        BY <2>2, <2>3, <2>5
    <3> QED
      BY <2>4, <2>5, <3>1
  <2>6. Named("article", "activite") = {activite} /\ Cardinality(those) = 1
    BY <1>3, <2>1
  <2> HIDE DEF activite, note, matrix
  <2> QED
    BY <2>3, <2>5, <2>6 DEF ArticleSound
<1>5. ASSUME ArticleAnswers = {}, NEW act \in Named("article", "activite"),
             Named("article", "activite") = {act}, Cardinality(ArticleRows(act)) = 1
      PROVE  FALSE
  <2>1. activite = act /\ activite # None
    BY <1>3, <1>5
  <2>2. PICK r \in those : TRUE
    <3>1. Cardinality(those) = 1
      BY <1>5, <2>1
    <3> HIDE DEF those
    <3> QED
      BY <3>1, SomeElement
  <2> HIDE DEF activite, note
  <2> QED
    BY <1>1, <1>5, <2>1, <2>2
<1> QED
  BY <1>4, <1>5 DEF ArticleOpen

-----------------------------------------------------------------------------
(* The tiers.                                                              *)

\* What is left of the tiers before the one to try.
Left(tier) ==
  /\ tier # "gem" => GemOpen
  /\ tier \in {"facturation", "billing", "glossary", "retrieval"} => Determined(Operational) = {}
  /\ tier \in {"billing", "glossary", "retrieval"} => ArticleOpen
  /\ tier \in {"glossary", "retrieval"} => Determined(Billing) = {}
  /\ tier = "retrieval" => Determined(Glossary) = {}

KeyedSound(a, tier) == a.table \in Determined(tier) /\ a.rows = Agreeing(a.table)

\* What each tier answers, and what it then knows of the tiers before.
ValidAnswer(a) ==
  \/ GemSound(a)
  \/ KeyedSound(a, Operational) /\ Left("operational")
  \/ ArticleSound(a) /\ Left("facturation")
  \/ KeyedSound(a, Billing) /\ Left("billing")
  \/ KeyedSound(a, Glossary) /\ Left("glossary")

LookupSame == UNCHANGED <<question, tables, activites>>

LEMMA TablesKept ==
  ASSUME LookupSame, TablesOK
  PROVE  TablesOK'
BY DEF LookupSame, TablesOK

\* A table is of one tier.
LEMMA TiersApart ==
  /\ {"gem cuivre", "gem ftth", "sav"} \intersect (Operational \union Billing \union Glossary) = {}
  /\ "article" \in Billing /\ Operational \intersect Billing = {}
  /\ Glossary \intersect (Operational \union Billing) = {}
  /\ None \notin Operational \union Billing \union Glossary
BY TiersAssumption, LookupAssumption DEF Gem, Billing, Table

LEMMA GemIsSound ==
  answer.table \in {"gem cuivre", "gem ftth", "sav"} /\ GemAnswer(answer.table) <=> GemSound(answer)
BY Zenon DEF GemSound, GemAnswer

LEMMA ValidIsRight ==
  ASSUME ValidAnswer(answer), stage = "answered"
  PROVE  answer.table \in Table /\ NeverGuesses
<1> DEFINE t == answer.table
<1>1. CASE GemSound(answer)
  <2>1. t \in {"gem cuivre", "gem ftth", "sav"} /\ GemAnswer(t)
    BY <1>1, GemIsSound
  <2>2. t \in Table
    BY <2>1 DEF Table, Gem
  <2>3. t \notin Operational \union Billing \union Glossary
    BY <2>1, TiersApart
  <2>4. TiersInOrder
    BY <2>3 DEF TiersInOrder
  <2> QED
    BY <2>1, <2>2, <2>4 DEF NeverGuesses, AnswerDetermined
<1>2. CASE ArticleSound(answer) /\ Left("facturation")
  <2>1. t = "article" /\ ArticleAnswer
    BY <1>2 DEF ArticleSound, ArticleAnswer
  <2>2. t \in Table /\ t \notin Glossary
    BY <2>1, TiersApart DEF Table, Billing
  <2>3. GemOpen /\ Determined(Operational) = {}
    BY <1>2 DEF Left
  <2>4. TiersInOrder
    BY <2>1, <2>2, <2>3 DEF TiersInOrder
  <2> QED
    BY <2>1, <2>2, <2>4 DEF NeverGuesses, AnswerDetermined
<1>3. ASSUME NEW tier \in {Operational, Billing, Glossary}, KeyedSound(answer, tier)
      PROVE  t \in tier /\ t \in Table /\ AnswerDetermined
  BY <1>3 DEF KeyedSound, AnswerDetermined, Determined, Table
<1>4. CASE KeyedSound(answer, Operational) /\ Left("operational")
  <2>1. GemOpen /\ t \notin Billing \union Glossary
    BY <1>3, <1>4, TiersApart DEF Left
  <2> QED
    BY <1>3, <1>4, <2>1 DEF NeverGuesses, TiersInOrder
<1>5. CASE KeyedSound(answer, Billing) /\ Left("billing")
  <2>1. GemOpen /\ Determined(Operational) = {} /\ ArticleOpen /\ t \notin Glossary
    BY <1>3, <1>5, TiersApart DEF Left
  <2> QED
    BY <1>3, <1>5, <2>1 DEF NeverGuesses, TiersInOrder
<1>6. CASE KeyedSound(answer, Glossary) /\ Left("glossary")
  <2>1. GemOpen /\ Determined(Operational) = {} /\ ArticleOpen /\ Determined(Billing) = {}
    BY <1>6 DEF Left
  <2> QED
    BY <1>3, <1>6, <2>1 DEF NeverGuesses, TiersInOrder
<1> QED
  BY <1>1, <1>2, <1>4, <1>5, <1>6 DEF ValidAnswer

\* What a question determines is a matter of the question and the tables.
LEMMA LookupsSame ==
  ASSUME LookupSame
  PROVE  /\ \A t : Agreeing(t)' = Agreeing(t) /\ (Meant(t)' <=> Meant(t))
         /\ \A tier : Determined(tier)' = Determined(tier)
         /\ NamedCodes' = NamedCodes /\ \A network : Asks(network)' <=> Asks(network)
         /\ \A t, act, e : /\ GemFitting(t, act, e)' = GemFitting(t, act, e)
                           /\ Settles(t, act, e)' <=> Settles(t, act, e)
         /\ \A t, act : Unsettled(t, act)' <=> Unsettled(t, act)
         /\ \A t : Longest(t)' = Longest(t)
         /\ \A act : SavRows(act)' = SavRows(act) /\ ArticleRows(act)' = ArticleRows(act)
         /\ Named("article", "activite")' = Named("article", "activite")
         /\ GemOpen' <=> GemOpen
         /\ ArticleOpen' <=> ArticleOpen
<1>1. question' = question /\ tables' = tables /\ activites' = activites
  BY DEF LookupSame
<1>2. \A t, f : Candidates(t, f)' = Candidates(t, f) /\ Named(t, f)' = Named(t, f)
  BY <1>1 DEF Candidates, Named
<1>3. \A t : KeyFields(t)' = KeyFields(t)
  BY <1>2 DEF KeyFields
<1>4. \A t : Fitting(t)' = Fitting(t)
  BY <1>1, <1>2, <1>3 DEF Fitting
<1>5. \A t : Agreeing(t)' = Agreeing(t)
  BY <1>3, <1>4 DEF Agreeing
<1>6. \A t : Meant(t)' <=> Meant(t)
  BY <1>2, <1>3, <1>4, <1>5 DEF Meant
<1>7. \A tier : Determined(tier)' = Determined(tier)
  BY <1>6 DEF Determined
<1>8. NamedActivites' = NamedActivites
  BY <1>1 DEF NamedActivites
<1>9. NamedCodes' = NamedCodes /\ \A network : Asks(network)' <=> Asks(network)
  BY <1>1, <1>8 DEF NamedCodes, Asks
<1>10. \A t, act, e : GemFitting(t, act, e)' = GemFitting(t, act, e)
  BY <1>1 DEF GemFitting
<1>11. \A t, act, e : Settles(t, act, e)' <=> Settles(t, act, e)
  BY <1>10 DEF Settles
<1>12. \A t : Longest(t)' = Longest(t)
  BY <1>2 DEF Longest
<1>13. \A t, act : Unsettled(t, act)' <=> Unsettled(t, act)
  BY <1>11, <1>12 DEF Unsettled
<1>14. \A act : SavRows(act)' = SavRows(act) /\ ArticleRows(act)' = ArticleRows(act)
  BY <1>1 DEF SavRows, ArticleRows
<1>15. GemOpen' <=> GemOpen
  BY <1>9, <1>13, <1>14 DEF GemOpen
<1>16. ArticleOpen' <=> ArticleOpen
  BY <1>2, <1>14 DEF ArticleOpen
<1> QED
  BY <1>2, <1>5, <1>6, <1>7, <1>9, <1>10, <1>11, <1>12, <1>13, <1>14, <1>15, <1>16

LEMMA LeftKept ==
  ASSUME LookupSame, NEW tier, Left(tier)
  PROVE  Left(tier)'
BY LookupsSame DEF Left

LEMMA GemSoundKept ==
  ASSUME LookupSame, NEW a, GemSound(a), answer' = a
  PROVE  GemSound(answer)'
<1>1. PICK act \in NamedCodes :
        /\ NamedCodes = {act}
        /\ Asks(IF a.table = "gem cuivre" THEN "cuivre" ELSE "ftth")
        /\ \/ /\ a.table # "sav"
              /\ \E e \in Longest(a.table) :
                   Settles(a.table, act, e) /\ a.rows = GemFitting(a.table, act, e)
           \/ /\ a.table = "sav" /\ Unsettled("gem ftth", act)
              /\ a.rows = SavRows(act) /\ Cardinality(SavRows(act)) = 1
              /\ LET said == {d.says : d \in {x \in tables["duree"] : x.key["activite"] = act}}
                 IN  said = {"non"} /\ (\E r \in SavRows(act) : r.says = "oui") => a.note = "conflict"
  BY Zenon DEF GemSound
<1>2. tables' = tables
  BY DEF LookupSame
<1>3. act \in NamedCodes' /\ NamedCodes' = {act}
      /\ Asks(IF a.table = "gem cuivre" THEN "cuivre" ELSE "ftth")'
  BY <1>1, LookupsSame
<1>4. a.table \in {"gem cuivre", "gem ftth", "sav"}
  BY DEF GemSound
<1>5. CASE /\ a.table # "sav"
           /\ \E e \in Longest(a.table) :
                Settles(a.table, act, e) /\ a.rows = GemFitting(a.table, act, e)
  <2>1. \E e \in Longest(a.table)' : Settles(a.table, act, e)' /\ a.rows = GemFitting(a.table, act, e)'
    BY <1>5, LookupsSame
  <2> QED
    BY <1>3, <1>4, <1>5, <2>1 DEF GemSound
<1>6. CASE /\ a.table = "sav" /\ Unsettled("gem ftth", act)
           /\ a.rows = SavRows(act) /\ Cardinality(SavRows(act)) = 1
           /\ LET said == {d.says : d \in {x \in tables["duree"] : x.key["activite"] = act}}
              IN  said = {"non"} /\ (\E r \in SavRows(act) : r.says = "oui") => a.note = "conflict"
  <2>1. /\ a.table = "sav" /\ Unsettled("gem ftth", act)'
        /\ a.rows = SavRows(act)' /\ Cardinality(SavRows(act)') = 1
        /\ LET said == {d.says : d \in {x \in tables'["duree"] : x.key["activite"] = act}}
           IN  said = {"non"} /\ (\E r \in SavRows(act)' : r.says = "oui") => a.note = "conflict"
    BY <1>2, <1>6, LookupsSame
  <2> QED
    BY <1>3, <1>4, <2>1 DEF GemSound
<1> QED
  BY <1>1, <1>5, <1>6

\* An answer that is valid in the state it is found in is valid in the next one.
LEMMA ValidKept ==
  ASSUME LookupSame, NEW a, ValidAnswer(a), answer' = a
  PROVE  ValidAnswer(answer)'
<1>1. GemSound(a) => GemSound(answer)'
  BY GemSoundKept
<1>2. ArticleSound(a) => ArticleSound(answer)'
  BY LookupsSame DEF ArticleSound, LookupSame
<1>3. ASSUME NEW names, KeyedSound(a, names)
      PROVE  KeyedSound(answer, names)'
  BY <1>3, LookupsSame DEF KeyedSound
<1> QED
  BY <1>1, <1>2, <1>3, LeftKept DEF ValidAnswer

\* The inductive invariant: a tier that has been left determines no table.
LookupIInv ==
  /\ TablesOK /\ LookupTypeOK /\ NeverGuesses
  /\ stage # "answered" => Left(stage)

LEMMA Answered ==
  ASSUME TablesOK, LookupTypeOK, LookupSame, NEW a, ValidAnswer(a),
         answer' = a, stage' = "answered"
  PROVE  LookupIInv'
<1>1. ValidAnswer(answer)'
  BY ValidKept
<1>2. (answer.table \in Table)' /\ NeverGuesses'
  <2>1. (ValidAnswer(answer) /\ stage = "answered")'
    BY <1>1
  <2>2. (ValidAnswer(answer) /\ stage = "answered" => answer.table \in Table /\ NeverGuesses)'
    BY ValidIsRight, PTL
  <2> QED
    BY <2>1, <2>2
<1>3. TablesOK'
  BY TablesKept
<1>4. LookupTypeOK'
  BY <1>2, LookupAssumption DEF LookupTypeOK, LookupSame, Stages
<1> QED
  BY <1>2, <1>3, <1>4 DEF LookupIInv

\* Of a question that is not answered there is nothing to claim but, when it goes on
\* to retrieval, that no tier determines a table.
LEMMA LeftIsRight ==
  ASSUME stage # "answered", Left(stage), answer.table = None
  PROVE  NeverGuesses
<1>1. answer.table \notin Operational \union Billing \union Glossary
  BY TiersApart
<1>2. TiersInOrder
  BY <1>1 DEF TiersInOrder, Left
<1> QED
  BY <1>2 DEF NeverGuesses, AnswerDetermined

LEMMA NotAnswered ==
  ASSUME TablesOK, LookupTypeOK, LookupSame, stage # "answered", UNCHANGED answer,
         NEW next \in Stages \ {"answered"}, stage' = next, Left(next)
  PROVE  LookupIInv'
<1>1. TablesOK'
  BY TablesKept
<1>2. LookupTypeOK' /\ (answer.table = None)'
  BY DEF LookupTypeOK, LookupSame
<1>3. Left(stage)'
  BY LookupsSame DEF Left
<1>4. NeverGuesses'
  <2>1. (stage # "answered" /\ Left(stage) /\ answer.table = None)'
    BY <1>2, <1>3
  <2>2. (stage # "answered" /\ Left(stage) /\ answer.table = None => NeverGuesses)'
    BY LeftIsRight, PTL
  <2> QED
    BY <2>1, <2>2
<1> QED
  BY <1>1, <1>2, <1>3, <1>4 DEF LookupIInv

LEMMA TierStep ==
  ASSUME TablesOK, LookupTypeOK, NEW answers, NEW tier \in Stages \ {"answered"},
         NEW next \in Stages \ {"answered"},
         \A a \in answers : ValidAnswer(a),
         answers = {} => Left(next),
         Try(tier, answers, next)
  PROVE  LookupIInv'
<1>1. stage # "answered" /\ LookupSame
  BY DEF Try, LookupSame
<1>2. CASE \E a \in answers : answer' = a /\ stage' = "answered"
  BY <1>1, <1>2, Answered
<1>3. CASE answers = {} /\ stage' = next /\ UNCHANGED answer
  BY <1>1, <1>3, NotAnswered
<1> QED
  BY <1>2, <1>3 DEF Try

LEMMA TiersInTable ==
  /\ Operational \in SUBSET Table /\ Billing \in SUBSET Table /\ Glossary \in SUBSET Table
  /\ IsFiniteSet(Operational) /\ IsFiniteSet(Billing) /\ IsFiniteSet(Glossary)
<1>1. Operational \in SUBSET Table /\ Billing \in SUBSET Table /\ Glossary \in SUBSET Table
  BY DEF Table
<1> QED
  BY <1>1, TiersAssumption, FS_Subset

\* The tables read by their keys, tier by tier.
LEMMA KeyedCorrect ==
  ASSUME TablesOK, NEW tier \in {Operational, Billing, Glossary}, NEW infer \in BOOLEAN,
         infer <=> tier = Operational, tier # {}
  PROVE  /\ \A a \in OneTable(tier, infer) : KeyedSound(a, tier)
         /\ OneTable(tier, infer) = {} => Determined(tier) = {}
<1>1. tier \in SUBSET Table /\ IsFiniteSet(tier)
  BY TiersInTable
<1>2. \A t \in tier : infer <=> t \in Operational
  BY TiersApart
<1> QED
  BY <1>1, <1>2, OneTableCorrect DEF KeyedSound

\* A tier without tables answers nothing and determines nothing.
LEMMA NoTables ==
  ASSUME NEW infer
  PROVE  OneTable({}, infer) = {} /\ Determined({}) = {}
BY DEF OneTable, Determined

LEMMA LookupInitial ==
  ASSUME LookupInit
  PROVE  LookupIInv
<1>1. PICK b \in Bases : tables = b.tables /\ activites = b.activites
  BY DEF LookupInit
<1>2. TablesOK
  BY <1>1, BasesAssumption DEF TablesOK
<1>3. LookupTypeOK
  BY <1>2, LookupAssumption DEF LookupInit, LookupTypeOK, TablesOK, NoAnswer, Stages
<1>4. stage = "gem" /\ answer.table = None
  BY DEF LookupInit, NoAnswer
<1>5. Left(stage)
  BY <1>4 DEF Left
<1> QED
  BY <1>2, <1>3, <1>4, <1>5, LeftIsRight DEF LookupIInv

LEMMA LookupStep ==
  ASSUME LookupIInv, LookupNext
  PROVE  LookupIInv'
<1>0. TablesOK /\ LookupTypeOK /\ (stage # "answered" => Left(stage))
  BY DEF LookupIInv
<1>1. CASE GemTier
  <2>1. PICK copper \in Echecs("gem cuivre"), fibre \in Echecs("gem ftth") :
          Try("gem", GemAnswers(copper, fibre), "operational")
    BY <1>1 DEF GemTier
  <2>2. PICK answers : answers = GemAnswers(copper, fibre)
    OBVIOUS
  <2>3. \A a \in answers : ValidAnswer(a)
    BY <1>0, <2>2, GemCorrect DEF ValidAnswer
  <2>4. answers = {} => Left("operational")
    BY <1>0, <2>2, GemCorrect DEF Left
  <2>5. Try("gem", answers, "operational")
    BY <2>1, <2>2
  <2> QED
    BY <1>0, <2>3, <2>4, <2>5, TierStep DEF Stages
<1>2. CASE OperationalTier
  <2>1. PICK answers : answers = OneTable(Operational, TRUE)
    OBVIOUS
  <2>2. Try("operational", answers, "facturation")
    BY <1>2, <2>1 DEF OperationalTier
  <2>3. Left("operational")
    BY <1>0, <2>2 DEF Try
  <2>4. (\A a \in answers : KeyedSound(a, Operational)) /\ (answers = {} => Determined(Operational) = {})
    BY <1>0, <2>1, KeyedCorrect, NoTables
  <2>5. \A a \in answers : ValidAnswer(a)
    BY <2>3, <2>4 DEF ValidAnswer
  <2>6. answers = {} => Left("facturation")
    BY <2>3, <2>4 DEF Left
  <2> QED
    BY <1>0, <2>2, <2>5, <2>6, TierStep DEF Stages
<1>3. CASE FacturationTier
  <2>1. PICK answers : answers = ArticleAnswers
    OBVIOUS
  <2>2. Try("facturation", answers, "billing")
    BY <1>3, <2>1 DEF FacturationTier
  <2>3. Left("facturation")
    BY <1>0, <2>2 DEF Try
  <2>4. (\A a \in answers : ArticleSound(a)) /\ (answers = {} => ArticleOpen)
    BY <1>0, <2>1, ArticleCorrect
  <2>5. \A a \in answers : ValidAnswer(a)
    BY <2>3, <2>4 DEF ValidAnswer
  <2>6. answers = {} => Left("billing")
    BY <2>3, <2>4 DEF Left
  <2> QED
    BY <1>0, <2>2, <2>5, <2>6, TierStep DEF Stages
<1>4. CASE BillingTier
  <2>1. PICK answers : answers = OneTable(Billing, FALSE)
    OBVIOUS
  <2>2. Try("billing", answers, "glossary")
    BY <1>4, <2>1 DEF BillingTier
  <2>3. Left("billing")
    BY <1>0, <2>2 DEF Try
  <2>4. Billing # {} /\ Billing # Operational
    BY TiersApart
  <2>5. (\A a \in answers : KeyedSound(a, Billing)) /\ (answers = {} => Determined(Billing) = {})
    BY <1>0, <2>1, <2>4, KeyedCorrect
  <2>6. \A a \in answers : ValidAnswer(a)
    BY <2>3, <2>5 DEF ValidAnswer
  <2>7. answers = {} => Left("glossary")
    BY <2>3, <2>5 DEF Left
  <2> QED
    BY <1>0, <2>2, <2>6, <2>7, TierStep DEF Stages
<1>5. CASE GlossaryTier
  <2>1. PICK answers : answers = OneTable(Glossary, FALSE)
    OBVIOUS
  <2>2. Try("glossary", answers, "retrieval")
    BY <1>5, <2>1 DEF GlossaryTier
  <2>3. Left("glossary")
    BY <1>0, <2>2 DEF Try
  <2>4. (\A a \in answers : KeyedSound(a, Glossary)) /\ (answers = {} => Determined(Glossary) = {})
    <3>1. CASE Glossary = {}
      BY <2>1, <3>1, NoTables
    <3>2. CASE Glossary # {}
      <4>1. Glossary # Operational
        BY <3>2, TiersApart
      <4> QED
        BY <1>0, <2>1, <3>2, <4>1, KeyedCorrect
    <3> QED
      BY <3>1, <3>2
  <2>5. \A a \in answers : ValidAnswer(a)
    BY <2>3, <2>4 DEF ValidAnswer
  <2>6. answers = {} => Left("retrieval")
    BY <2>3, <2>4 DEF Left
  <2> QED
    BY <1>0, <2>2, <2>5, <2>6, TierStep DEF Stages
<1> QED
  BY <1>1, <1>2, <1>3, <1>4, <1>5 DEF LookupNext

LEMMA LookupStutter ==
  ASSUME LookupIInv, UNCHANGED lookupVars
  PROVE  LookupIInv'
<1>1. LookupSame /\ stage' = stage /\ answer' = answer
  BY DEF lookupVars, LookupSame
<1>2. TablesOK' /\ LookupTypeOK'
  BY <1>1, TablesKept DEF LookupIInv, LookupTypeOK, LookupSame
<1>3. stage' # "answered" => Left(stage)'
  BY <1>1, LookupsSame DEF LookupIInv, Left
<1>4. tables' = tables
  BY <1>1 DEF LookupSame
<1>5. TiersInOrder'
  <2>1. ArticleAnswer' <=> ArticleAnswer
    BY <1>1, <1>4, LookupsSame DEF ArticleAnswer
  <2> QED
    BY <1>1, <2>1, LookupsSame DEF LookupIInv, NeverGuesses, TiersInOrder
<1>6. AnswerDetermined'
  <2>1. ArticleAnswer' <=> ArticleAnswer
    BY <1>1, <1>4, LookupsSame DEF ArticleAnswer
  <2>2. answer.table \in {"gem cuivre", "gem ftth", "sav"} /\ GemAnswer(answer.table)
          <=> GemSound(answer)
    BY GemIsSound
  <2>3. (answer.table \in {"gem cuivre", "gem ftth", "sav"} /\ GemAnswer(answer.table)
           <=> GemSound(answer))'
    BY GemIsSound, PTL
  <2>4. GemSound(answer) => GemSound(answer)'
    BY <1>1, GemSoundKept
  <2> QED
    BY <1>1, <2>1, <2>2, <2>3, <2>4, LookupsSame DEF LookupIInv, NeverGuesses, AnswerDetermined
<1> QED
  BY <1>2, <1>3, <1>5, <1>6 DEF LookupIInv, NeverGuesses

\* What a lookup answers are the rows a question determines: of the one network and
\* activity asked about in the GEM tables, of the only table of its tier that is
\* meant elsewhere, and with every conflict of two sources said.  Neither a later
\* tier nor retrieval is left a question that an earlier tier determines.
THEOREM LookupNeverGuesses == LookupSpec => []NeverGuesses
<1>1. LookupInit => LookupIInv
  BY LookupInitial
<1>2. LookupIInv /\ [LookupNext]_lookupVars => LookupIInv'
  BY LookupStep, LookupStutter
<1>3. LookupIInv => NeverGuesses
  BY DEF LookupIInv
<1> QED
  BY <1>1, <1>2, <1>3, PTL DEF LookupSpec

-----------------------------------------------------------------------------
(* Ranking: what the operators give, for any rows and vectors.             *)

LEMMA MinOfTwo ==
  ASSUME NEW a \in Int, NEW b \in Int
  PROVE  /\ Min({a, b}) = IF a <= b THEN a ELSE b
         /\ Max({a, b}) = IF a >= b THEN a ELSE b
BY DEF Min, Max

LEMMA CardNat ==
  ASSUME NEW S, IsFiniteSet(S)
  PROVE  Cardinality(S) \in Nat
BY FS_CardinalityType

\* The positions of a sequence are finitely many.
LEMMA PositionsFinite ==
  ASSUME NEW S, NEW s \in Seq(S)
  PROVE  IsFiniteSet(DOMAIN s) /\ Len(s) \in Nat /\ DOMAIN s = 1 .. Len(s)
BY FS_Interval

\* The words' points are a whole number, whatever the passage.
LEMMA LexicalScoreInt ==
  ASSUME NEW q, q \in Seq(ToSet(q)), NEW text
  PROVE  LexicalScore(q, text) \in Int
<1>1. IsFiniteSet(DOMAIN q) /\ Len(q) \in Nat /\ DOMAIN q = 1 .. Len(q)
  BY PositionsFinite
<1>2. WordPoints(q, text) \in Int
  <2> DEFINE shared == Shared(q, text)
             a == shared \intersect Specific(q)
             b == shared \ Specific(q)
  <2>1. IsFiniteSet(a) /\ IsFiniteSet(b)
    BY <1>1, FS_Subset DEF Shared
  <2>2. Cardinality(a) \in Nat /\ Cardinality(b) \in Nat
    BY <2>1, CardNat
  <2>3. WordPoints(q, text) = 40 * Cardinality(a) + 7 * Cardinality(b)
    BY DEF WordPoints
  <2> HIDE DEF a, b
  <2> QED
    BY <2>2, <2>3
<1>3. PhrasePoints(q, text) \in Int
  <2> DEFINE pairs == {i \in 1 .. Len(q) - 1 : Occurs(<<q[i], q[i + 1]>>, text.terms)}
             a == {i \in pairs : {i, i + 1} \intersect Specific(q) = {}}
             b == pairs \ a
  <2>1. pairs \in SUBSET DOMAIN q
    BY <1>1
  <2>2. IsFiniteSet(pairs)
    BY <1>1, <2>1, FS_Subset
  <2>3. IsFiniteSet(a) /\ IsFiniteSet(b)
    <3> HIDE DEF pairs
    <3> QED
      BY <2>2, FS_Subset
  <2>4. Cardinality(a) \in Nat /\ Cardinality(b) \in Nat
    <3> HIDE DEF a, b
    <3> QED
      BY <2>3, CardNat
  <2>5. PhrasePoints(q, text) = 8 * Cardinality(a) + 160 * Cardinality(b)
    BY DEF PhrasePoints
  <2> HIDE DEF a, b
  <2> QED
    BY <2>4, <2>5
<1>4. CodePoints(q, text) \in Int
  <2> DEFINE codes == ToSet(q) \intersect Codes
             a == codes \intersect ToSet(text.terms)
             b == codes \ ToSet(text.terms)
  <2>1. IsFiniteSet(ToSet(q))
    BY <1>1, Image DEF ToSet
  <2>2. IsFiniteSet(a) /\ IsFiniteSet(b)
    BY <2>1, FS_Subset
  <2>3. Cardinality(a) \in Nat /\ Cardinality(b) \in Nat
    <3> HIDE DEF a, b
    <3> QED
      BY <2>2, CardNat
  <2>4. CodePoints(q, text) = 400 * Cardinality(a) - 400 * Cardinality(b)
    BY DEF CodePoints
  <2> HIDE DEF a, b
  <2> QED
    BY <2>3, <2>4
<1>5. WholePoints(q, text) \in Int
  BY DEF WholePoints
<1>6. TypePoints(q, text) \in Int
  BY DEF TypePoints
<1>7. PriorityPoints(text) \in Int
  BY DEF PriorityPoints
<1> QED
  BY <1>2, <1>3, <1>4, <1>5, <1>6, <1>7 DEF LexicalScore

\* Tops leaves out one that has a score only for k others that have as much.
LEMMA TopsCorrect ==
  ASSUME NEW score, IsFiniteSet(DOMAIN score), NEW k \in Nat, NEW S \in Tops(score, k)
  PROVE  /\ S \subseteq DOMAIN score /\ IsFiniteSet(S) /\ Cardinality(S) <= k
         /\ \A x \in DOMAIN score \ S :
              Cardinality(S) = k /\ \A h \in S : score[h] >= score[x]
<1> DEFINE D == DOMAIN score
<1>1. Cardinality(D) \in Nat
  BY CardNat
<1>2. S \in kSubset(Min({k, Cardinality(D)}), D) /\ \A h \in S, x \in D \ S : score[h] >= score[x]
  BY DEF Tops
<1>3. S \in SUBSET D /\ Cardinality(S) = Min({k, Cardinality(D)})
  BY <1>2 DEF kSubset
<1>4. Min({k, Cardinality(D)}) = IF k <= Cardinality(D) THEN k ELSE Cardinality(D)
  BY <1>1, MinOfTwo
<1>5. IsFiniteSet(S) /\ (Cardinality(D) = Cardinality(S) => D = S)
  BY <1>3, FS_Subset
<1>6. ASSUME NEW x \in D \ S
      PROVE  Cardinality(S) = k
  BY <1>1, <1>3, <1>4, <1>5, <1>6
<1> HIDE DEF D
<1>7. Cardinality(S) <= k
  BY <1>1, <1>3, <1>4
<1> QED
  BY <1>2, <1>3, <1>5, <1>6, <1>7 DEF D

\* What FilterCurrent leaves is current, or not of a version that can be told.
LEMMA FilterCurrentCorrect ==
  ASSUME NEW hits, NEW cur, NEW h \in FilterCurrent(hits, cur)
  PROVE  h \in hits /\ (h.ver \in {0, cur[h.doc]} \/ cur[h.doc] = 0)
<1> DEFINE pairs == {<<x.doc, cur[x.doc]>> : x \in {g \in hits : g.ver # 0 /\ cur[g.doc] # 0}}
<1>1. CASE pairs = {}
  <2>1. h \in hits
    BY <1>1 DEF FilterCurrent
  <2>2. h.ver = 0 \/ cur[h.doc] = 0
    BY <1>1, <2>1
  <2> QED
    BY <2>1, <2>2
<1>2. CASE pairs # {}
  <2>1. h \in hits /\ (h.ver = 0 \/ <<h.doc, h.ver>> \in pairs)
    BY <1>2 DEF FilterCurrent
  <2>2. <<h.doc, h.ver>> \in pairs => h.ver = cur[h.doc]
    OBVIOUS
  <2> QED
    BY <2>1, <2>2
<1> QED
  BY <1>1, <1>2

RowHit(q, r, vectors) ==
  [id |-> r.id, text |-> r.text, doc |-> r.doc, ver |-> r.ver,
   score |-> Similarity(q, Stands(r, vectors))]
RowScore(q, rs, cur) == [r \in Matching(q, rs, cur) |-> LexicalScore(q, r.text)]

LEMMA LexicalRowsNamed ==
  ASSUME NEW q, NEW rs, NEW vectors, NEW cur, NEW lexical \in LexicalRows(q, rs, vectors, cur)
  PROVE  \E S \in Tops(RowScore(q, rs, cur), RowLimit) :
           lexical = {RowHit(q, r, vectors) : r \in S}
BY DEF LexicalRows, RowScore, RowHit

LEMMA RankedNamed ==
  ASSUME NEW q, NEW rs, NEW vectors, NEW cur, NEW found \in Ranked(q, rs, vectors, cur)
  PROVE  \E near \in Nearest(q, vectors), lexical \in LexicalRows(q, rs, vectors, cur) :
           found \in Tops([h \in Merge(FilterCurrent(near, cur), lexical) |-> Hybrid(q, h)], TopK)
BY DEF Ranked

LEMMA TopsWithin ==
  ASSUME NEW score, NEW k, NEW S \in Tops(score, k)
  PROVE  S \subseteq DOMAIN score
BY DEF Tops, kSubset

\* SupersededOnlyUnlabelled holds of any state: it is what the operators do.
LEMMA RankedCurrent ==
  ASSUME NEW q, NEW rs, NEW vectors, NEW cur, NEW found \in Ranked(q, rs, vectors, cur),
         NEW h \in found
  PROVE  h.ver \in {0, cur[h.doc]} \/ cur[h.doc] = 0
<1>1. PICK near \in Nearest(q, vectors), lexical \in LexicalRows(q, rs, vectors, cur) :
        found \in Tops([x \in Merge(FilterCurrent(near, cur), lexical) |-> Hybrid(q, x)], TopK)
  BY RankedNamed
<1>2. h \in Merge(FilterCurrent(near, cur), lexical)
  BY <1>1, TopsWithin
<1>3. h \in FilterCurrent(near, cur) \/ h \in lexical
  BY <1>2 DEF Merge
<1>4. CASE h \in FilterCurrent(near, cur)
  BY <1>4, FilterCurrentCorrect
<1>5. CASE h \in lexical
  <2>1. PICK S \in Tops(RowScore(q, rs, cur), RowLimit) : lexical = {RowHit(q, r, vectors) : r \in S}
    BY LexicalRowsNamed
  <2>2. PICK r \in S : h = RowHit(q, r, vectors)
    BY <1>5, <2>1
  <2>3. r \in Matching(q, rs, cur)
    BY <2>1, TopsWithin DEF RowScore
  <2>4. h.ver = r.ver /\ h.doc = r.doc /\ r.ver = cur[r.doc]
    BY <2>2, <2>3 DEF RowHit, Matching
  <2> QED
    BY <2>4
<1> QED
  BY <1>3, <1>4, <1>5

\* What a search needs of the rows and vectors to be comparable.
Searchable(q, rs, vectors, cur) ==
  /\ q \in Seq(ToSet(q))
  /\ IsFiniteSet(rs) /\ IsFiniteSet(DOMAIN vectors)
  /\ \A i \in DOMAIN vectors : Similarity(q, vectors[i].text) \in Int
  /\ \A r \in rs : Similarity(q, r.text) \in Int
  /\ \A r, s \in Matching(q, rs, cur) : r.id = s.id => r = s

LEMMA RowLimitNat == RowLimit \in Nat
<1>1. TopK * RowsPerHit \in Nat /\ FewestRows \in Nat /\ MostCandidates \in Nat
  BY RankingAssumption
<1>2. PICK n \in Nat : n = TopK * RowsPerHit
  BY <1>1
<1>3. Max({n, FewestRows}) = IF n >= FewestRows THEN n ELSE FewestRows
  BY <1>1, MinOfTwo
<1>4. PICK m \in Nat : m = Max({n, FewestRows})
  BY <1>1, <1>3
<1>5. Min({m, MostCandidates}) = IF m <= MostCandidates THEN m ELSE MostCandidates
  BY <1>1, MinOfTwo
<1> QED
  BY <1>1, <1>2, <1>4, <1>5 DEF RowLimit

LEMMA HitsAreVectors ==
  ASSUME NEW q, NEW vectors, NEW cur, NEW near \in Nearest(q, vectors),
         NEW h \in FilterCurrent(near, cur)
  PROVE  /\ h.id \in DOMAIN vectors
         /\ h = [id |-> h.id, text |-> vectors[h.id].text, doc |-> vectors[h.id].doc,
                 ver |-> vectors[h.id].ver, score |-> Similarity(q, vectors[h.id].text)]
<1>1. h \in near
  BY FilterCurrentCorrect
<1>2. h \in VectorHits(q, vectors)
  BY <1>1, TopsWithin DEF Nearest
<1> QED
  BY <1>2 DEF VectorHits

LEMMA HitsFinite ==
  ASSUME NEW q, NEW vectors, IsFiniteSet(DOMAIN vectors), NEW cur,
         NEW near \in Nearest(q, vectors)
  PROVE  IsFiniteSet(FilterCurrent(near, cur))
<1> DEFINE hit == [i \in DOMAIN vectors |->
                     [id |-> i, text |-> vectors[i].text, doc |-> vectors[i].doc,
                      ver |-> vectors[i].ver, score |-> Similarity(q, vectors[i].text)]]
<1>1. IsFiniteSet({hit[i] : i \in DOMAIN vectors})
  <2>1. DOMAIN hit = DOMAIN vectors
    OBVIOUS
  <2> HIDE DEF hit
  <2> QED
    BY <2>1, Image
<1>2. VectorHits(q, vectors) = {hit[i] : i \in DOMAIN vectors}
  BY DEF VectorHits
<1>3. near \subseteq VectorHits(q, vectors)
  BY TopsWithin DEF Nearest
<1>4. FilterCurrent(near, cur) \subseteq near
  BY FilterCurrentCorrect
<1> HIDE DEF hit
<1>5. FilterCurrent(near, cur) \in SUBSET VectorHits(q, vectors)
  BY <1>3, <1>4
<1> QED
  BY <1>1, <1>2, <1>5, FS_Subset

LEMMA RowHitsFinite ==
  ASSUME NEW q, NEW S, IsFiniteSet(S), NEW vectors
  PROVE  IsFiniteSet({RowHit(q, r, vectors) : r \in S})
<1> DEFINE hit == [r \in S |-> RowHit(q, r, vectors)]
<1>1. DOMAIN hit = S
  OBVIOUS
<1>2. IsFiniteSet({hit[r] : r \in S})
  <2> HIDE DEF hit
  <2> QED
    BY <1>1, Image
<1> QED
  BY <1>2

\* Two hits with one id are one: of a vector and of a row just one is kept.
LEMMA MergeUnique ==
  ASSUME NEW q, NEW rs, NEW vectors, NEW cur, Searchable(q, rs, vectors, cur),
         NEW near \in Nearest(q, vectors), NEW S \in SUBSET Matching(q, rs, cur),
         NEW a \in Merge(FilterCurrent(near, cur), {RowHit(q, r, vectors) : r \in S}),
         NEW b \in Merge(FilterCurrent(near, cur), {RowHit(q, r, vectors) : r \in S}),
         a.id = b.id
  PROVE  a = b
<1> DEFINE hits == FilterCurrent(near, cur)
           lexical == {RowHit(q, r, vectors) : r \in S}
<1>1. \A x, y \in hits : x.id = y.id => x = y
  BY HitsAreVectors
<1>2. ASSUME NEW x \in lexical, NEW y \in lexical, x.id = y.id
      PROVE  x = y
  <2>1. PICK r \in S, s \in S : x = RowHit(q, r, vectors) /\ y = RowHit(q, s, vectors)
    OBVIOUS
  <2>2. r.id = s.id
    BY <1>2, <2>1 DEF RowHit
  <2> QED
    BY <2>1, <2>2 DEF Searchable
<1>3. ASSUME NEW x \in hits, \A h \in lexical : ~(h.id = x.id /\ h.score > x.score),
             NEW y \in lexical, \A h \in hits : h.id = y.id => y.score > h.score, x.id = y.id
      PROVE  FALSE
  BY <1>3
<1>4. /\ (a \in hits /\ \A h \in lexical : ~(h.id = a.id /\ h.score > a.score))
           \/ (a \in lexical /\ \A h \in hits : h.id = a.id => a.score > h.score)
      /\ (b \in hits /\ \A h \in lexical : ~(h.id = b.id /\ h.score > b.score))
           \/ (b \in lexical /\ \A h \in hits : h.id = b.id => b.score > h.score)
  BY DEF Merge
<1> HIDE DEF hits, lexical
<1> QED
  BY <1>1, <1>2, <1>3, <1>4

\* A row that is ranked at all is in the merge, or the vector of its id is.
LEMMA MergeKeeps ==
  ASSUME NEW q, NEW rs, NEW vectors, NEW cur, Searchable(q, rs, vectors, cur),
         NEW near \in Nearest(q, vectors), NEW S \in SUBSET Matching(q, rs, cur), NEW r \in S
  PROVE  \E m \in Merge(FilterCurrent(near, cur), {RowHit(q, x, vectors) : x \in S}) :
           /\ m.id = r.id
           /\ m.score = Similarity(q, Stands(r, vectors))
           /\ m.text \in {r.text, Stands(r, vectors)}
<1> DEFINE hits == FilterCurrent(near, cur)
           lexical == {RowHit(q, x, vectors) : x \in S}
           l == RowHit(q, r, vectors)
<1>1. l \in lexical /\ l.id = r.id /\ l.text = r.text /\ l.score = Similarity(q, Stands(r, vectors))
  BY DEF RowHit
<1>2. CASE \A h \in hits : h.id = l.id => l.score > h.score
  <2>1. l \in Merge(hits, lexical)
    BY <1>1, <1>2 DEF Merge
  <2> HIDE DEF hits, lexical, l
  <2> QED
    BY <1>1, <2>1 DEF hits, lexical
<1>3. ASSUME NEW h \in hits, h.id = l.id, ~(l.score > h.score)
      PROVE  \E m \in Merge(hits, lexical) : /\ m.id = r.id
                                             /\ m.score = Similarity(q, Stands(r, vectors))
                                             /\ m.text \in {r.text, Stands(r, vectors)}
  <2>1. ASSUME NEW y \in lexical, y.id = h.id
        PROVE  y = l
    <3>1. PICK s \in S : y = RowHit(q, s, vectors)
      OBVIOUS
    <3>2. s.id = r.id
      BY <1>1, <1>3, <2>1, <3>1 DEF RowHit
    <3> QED
      BY <3>1, <3>2 DEF Searchable
  <2>2. h \in Merge(hits, lexical)
    <3> HIDE DEF hits, lexical, l
    <3> QED
      BY <1>3, <2>1 DEF Merge
  <2>3. /\ h.id \in DOMAIN vectors /\ h.text = vectors[h.id].text
        /\ h.score = Similarity(q, vectors[h.id].text)
    BY HitsAreVectors
  <2>4. h.id = r.id /\ Stands(r, vectors) = vectors[h.id].text
    BY <1>1, <1>3, <2>3 DEF Stands
  <2> HIDE DEF hits, lexical, l
  <2> QED
    BY <2>2, <2>3, <2>4
<1> HIDE DEF l
<1> QED
  BY <1>2, <1>3

\* CurrentContentFound, of any rows and vectors that can be searched.
LEMMA RowsAreFound ==
  ASSUME NEW q, NEW rs, NEW vectors, NEW cur, Searchable(q, rs, vectors, cur),
         NEW found \in Ranked(q, rs, vectors, cur)
  PROVE  /\ \A a, b \in found : a.id = b.id => a = b
         /\ \A r \in Matching(q, rs, cur) :
              \/ \E h \in found : h.id = r.id
              \/ /\ Cardinality(found) = TopK
                 /\ \A h \in found : Hybrid(q, h) >=
                      Min({100 * Similarity(q, Stands(r, vectors)) + LexicalScore(q, r.text),
                           100 * Similarity(q, Stands(r, vectors))
                             + LexicalScore(q, Stands(r, vectors))})
              \/ RowLimit <= Cardinality({s \in Matching(q, rs, cur) \ {r} :
                                            LexicalScore(q, s.text) >= LexicalScore(q, r.text)})
<1> DEFINE all == Matching(q, rs, cur)
<1>1. PICK near \in Nearest(q, vectors), lexical \in LexicalRows(q, rs, vectors, cur) :
        found \in Tops([h \in Merge(FilterCurrent(near, cur), lexical) |-> Hybrid(q, h)], TopK)
  BY RankedNamed
<1>2. PICK S \in Tops(RowScore(q, rs, cur), RowLimit) : lexical = {RowHit(q, r, vectors) : r \in S}
  BY LexicalRowsNamed
<1>3. S \in SUBSET all
  BY TopsWithin DEF RowScore
<1>4. IsFiniteSet(all)
  BY FS_Subset DEF Searchable, Matching
<1> DEFINE M == Merge(FilterCurrent(near, cur), lexical)
           rank == [h \in M |-> Hybrid(q, h)]
<1>5. found \subseteq M
  BY <1>1, TopsWithin
<1>6. ASSUME NEW a \in found, NEW b \in found, a.id = b.id
      PROVE  a = b
  <2>1. /\ a \in Merge(FilterCurrent(near, cur), {RowHit(q, r, vectors) : r \in S})
        /\ b \in Merge(FilterCurrent(near, cur), {RowHit(q, r, vectors) : r \in S})
    BY <1>2, <1>5
  <2> QED
    BY <1>3, <1>6, <2>1, MergeUnique
<1>7. DOMAIN RowScore(q, rs, cur) = all /\ RowLimit \in Nat
  BY RowLimitNat DEF RowScore
<1>8. /\ IsFiniteSet(S)
      /\ \A r \in all \ S : Cardinality(S) = RowLimit
                            /\ \A h \in S : RowScore(q, rs, cur)[h] >= RowScore(q, rs, cur)[r]
  BY <1>4, <1>7, TopsCorrect
<1>9. IsFiniteSet(M)
  <2>1. IsFiniteSet(lexical)
    BY <1>2, <1>8, RowHitsFinite
  <2>2. IsFiniteSet(FilterCurrent(near, cur))
    BY HitsFinite DEF Searchable
  <2>3. IsFiniteSet(FilterCurrent(near, cur) \union lexical)
    BY <2>1, <2>2, FS_Union
  <2>4. M \in SUBSET (FilterCurrent(near, cur) \union lexical)
    BY DEF Merge
  <2> QED
    BY <2>3, <2>4, FS_Subset
<1>10. \A m \in M \ found : Cardinality(found) = TopK
                            /\ \A h \in found : Hybrid(q, h) >= Hybrid(q, m)
  <2>1. DOMAIN rank = M /\ found \in Tops(rank, TopK)
    BY <1>1
  <2>2. TopK \in Nat
    BY RankingAssumption
  <2>3. \A m \in M \ found : Cardinality(found) = TopK /\ \A h \in found : rank[h] >= rank[m]
    <3> HIDE DEF rank, M
    <3> QED
      BY <1>9, <2>1, <2>2, TopsCorrect
  <2> QED
    BY <1>5, <2>3
<1>11. ASSUME NEW r \in all \ S
       PROVE  RowLimit <= Cardinality({s \in all \ {r} : LexicalScore(q, s.text) >= LexicalScore(q, r.text)})
  <2> DEFINE others == {s \in all \ {r} : LexicalScore(q, s.text) >= LexicalScore(q, r.text)}
  <2>1. Cardinality(S) = RowLimit
    BY <1>8
  <2>2. S \in SUBSET others
    <3>1. \A h \in S : h \in all /\ h # r /\ RowScore(q, rs, cur)[h] >= RowScore(q, rs, cur)[r]
      BY <1>3, <1>8
    <3> QED
      BY <1>11, <3>1 DEF RowScore
  <2>3. IsFiniteSet(others)
    <3>1. others \in SUBSET all
      OBVIOUS
    <3> HIDE DEF all, others
    <3> QED
      BY <3>1, <1>4, FS_Subset
  <2> HIDE DEF others
  <2>4. Cardinality(S) <= Cardinality(others)
    BY <2>2, <2>3, FS_Subset
  <2> QED
    BY <2>1, <2>4 DEF others
<1>12. ASSUME NEW r \in S, \A h \in found : h.id # r.id
       PROVE  /\ Cardinality(found) = TopK
              /\ \A h \in found : Hybrid(q, h) >=
                   Min({100 * Similarity(q, Stands(r, vectors)) + LexicalScore(q, r.text),
                        100 * Similarity(q, Stands(r, vectors)) + LexicalScore(q, Stands(r, vectors))})
  <2>1. PICK m \in M : /\ m.id = r.id
                       /\ m.score = Similarity(q, Stands(r, vectors))
                       /\ m.text \in {r.text, Stands(r, vectors)}
    BY <1>2, <1>3, MergeKeeps
  <2>2. m \notin found
    BY <1>12, <2>1
  <2>3. PICK a \in Int : a = 100 * Similarity(q, Stands(r, vectors)) + LexicalScore(q, r.text)
    <3>1. Similarity(q, Stands(r, vectors)) \in Int
      BY <1>3 DEF Searchable, Stands, Matching
    <3>2. LexicalScore(q, r.text) \in Int
      BY LexicalScoreInt DEF Searchable
    <3> QED
      BY <3>1, <3>2
  <2>4. PICK b \in Int : b = 100 * Similarity(q, Stands(r, vectors)) + LexicalScore(q, Stands(r, vectors))
    <3>1. Similarity(q, Stands(r, vectors)) \in Int
      BY <1>3 DEF Searchable, Stands, Matching
    <3>2. LexicalScore(q, Stands(r, vectors)) \in Int
      BY LexicalScoreInt DEF Searchable
    <3> QED
      BY <3>1, <3>2
  <2>5. Hybrid(q, m) \in {a, b}
    BY <2>1, <2>3, <2>4 DEF Hybrid
  <2>6. Hybrid(q, m) >= Min({a, b})
    BY <2>5, MinOfTwo
  <2>7. Min({a, b}) \in Int
    BY MinOfTwo
  <2>8. Cardinality(found) = TopK /\ \A h \in found : Hybrid(q, h) >= Hybrid(q, m)
    BY <1>10, <2>2
  <2>9. \A h \in found : Hybrid(q, h) \in Int
    <3>1. ASSUME NEW h \in M
          PROVE  h.score \in Int
      <4>1. h \in FilterCurrent(near, cur) \/ h \in lexical
        BY DEF Merge
      <4>2. CASE h \in FilterCurrent(near, cur)
        BY <4>2, HitsAreVectors DEF Searchable
      <4>3. CASE h \in lexical
        <5>1. PICK x \in S : h = RowHit(q, x, vectors)
          BY <1>2, <4>3
        <5>2. h.score = Similarity(q, Stands(x, vectors)) /\ x \in rs
          BY <1>3, <5>1 DEF RowHit, Matching
        <5> QED
          BY <5>2 DEF Searchable, Stands
      <4> QED
        BY <4>1, <4>2, <4>3
    <3>2. \A h \in M : LexicalScore(q, h.text) \in Int
      BY LexicalScoreInt DEF Searchable
    <3> QED
      BY <1>5, <3>1, <3>2 DEF Hybrid
  <2>10. ASSUME NEW h \in found
         PROVE  Hybrid(q, h) >= Min({a, b})
    <3>1. Hybrid(q, h) >= Hybrid(q, m) /\ Hybrid(q, h) \in Int /\ Hybrid(q, m) \in Int
      BY <2>5, <2>8, <2>9
    <3> HIDE DEF M
    <3> QED
      BY <2>6, <2>7, <3>1
  <2> QED
    BY <2>3, <2>4, <2>8, <2>10
<1> QED
  BY <1>6, <1>11, <1>12

-----------------------------------------------------------------------------
(* Sequences put together, and the records of the files.                   *)

\* f[i] is the first i sequences, one after the other.
Flattens(f, ss, n, S) ==
  /\ f \in [1 .. n -> Seq(S)]
  /\ \A i \in 1 .. n : f[i] = IF i = 1 THEN ss[1] ELSE f[i - 1] \o ss[i]

LEMMA PrefixFlattened ==
  ASSUME NEW S, NEW n \in Nat, NEW ss \in [1 .. n -> Seq(S)]
  PROVE  \E f : Flattens(f, ss, n, S)
<1> DEFINE Good(k) == {f \in [1 .. k -> Seq(S)] :
                         \A i \in 1 .. k : f[i] = IF i = 1 THEN ss[1] ELSE f[i - 1] \o ss[i]}
           Bad == {k \in 0 .. n : Good(k) = {}}
<1>1. [i \in 1 .. 0 |-> <<>>] \in Good(0)
  OBVIOUS
<1>2. ASSUME Bad # {}
      PROVE  FALSE
  <2>1. PICK k \in Bad : \A j \in Bad : k <= j
    <3>1. Bad \in SUBSET Nat
      OBVIOUS
    <3> HIDE DEF Bad
    <3> QED
      BY <1>2, <3>1, LeastOf
  <2>2. k \in 1 .. n
    <3>1. k \in 0 .. n /\ Good(k) = {}
      OBVIOUS
    <3>2. k # 0
      <4> HIDE DEF Good
      <4> QED
        BY <1>1, <3>1
    <3> HIDE DEF Good
    <3> QED
      BY <3>1, <3>2
  <2>3. k - 1 \in 0 .. n /\ k - 1 \notin Bad
    <3>1. k - 1 \in Nat /\ k - 1 < k
      BY <2>2
    <3> HIDE DEF Bad
    <3>2. k - 1 \notin Bad
      BY <2>1, <2>2, <3>1
    <3> QED
      BY <2>2, <3>2
  <2>4. PICK f : f \in Good(k - 1)
    BY <2>3
  <2> DEFINE last == IF k = 1 THEN ss[1] ELSE f[k - 1] \o ss[k]
             g == [i \in 1 .. k |-> IF i = k THEN last ELSE f[i]]
  <2>5. last \in Seq(S)
    <3>1. CASE k = 1
      BY <2>2, <3>1
    <3>2. CASE k # 1
      <4>1. f[k - 1] \in Seq(S) /\ ss[k] \in Seq(S)
        BY <2>2, <2>4, <3>2
      <4> QED
        BY <3>2, <4>1
    <3> QED
      BY <3>1, <3>2
  <2>6. g \in [1 .. k -> Seq(S)]
    <3>1. \A i \in 1 .. k : i # k => f[i] \in Seq(S)
      BY <2>2, <2>4
    <3> HIDE DEF last
    <3> QED
      BY <2>5, <3>1
  <2>7. ASSUME NEW i \in 1 .. k
        PROVE  g[i] = IF i = 1 THEN ss[1] ELSE g[i - 1] \o ss[i]
    <3>1. CASE i = k
      <4>1. g[i] = last
        BY <3>1
      <4>2. CASE k = 1
        BY <3>1, <4>1, <4>2
      <4>3. CASE k # 1
        <5>1. i - 1 \in 1 .. k /\ i - 1 # k
          BY <2>2, <3>1, <4>3
        <5>2. g[i - 1] = f[k - 1]
          BY <3>1, <5>1
        <5> QED
          BY <3>1, <4>1, <4>3, <5>2
      <4> QED
        BY <4>2, <4>3
    <3>2. CASE i # k
      <4>1. i \in 1 .. k - 1
        BY <2>2, <3>2
      <4>2. f[i] = IF i = 1 THEN ss[1] ELSE f[i - 1] \o ss[i]
        BY <2>4, <4>1
      <4>3. g[i] = f[i]
        BY <3>2
      <4>4. i # 1 => i - 1 \in 1 .. k /\ i - 1 # k
        BY <4>1
      <4>5. i # 1 => g[i - 1] = f[i - 1]
        BY <4>4
      <4> QED
        BY <4>2, <4>3, <4>5
    <3> QED
      BY <3>1, <3>2
  <2>8. g \in Good(k)
    <3> HIDE DEF g
    <3> QED
      BY <2>6, <2>7
  <2> QED
    BY <2>1, <2>8
<1>3. n \notin Bad
  BY <1>2
<1>4. PICK f : f \in Good(n)
  BY <1>3
<1> QED
  BY <1>4 DEF Flattens

\* What is flattened is a sequence of the elements of the sequences.
LEMMA FlattenedSeq ==
  ASSUME NEW S, NEW n \in Nat, NEW ss \in [1 .. n -> Seq(S)]
  PROVE  FlattenSeq(ss) \in Seq(S)
<1> DEFINE fl == CHOOSE f : f = [i \in 1 .. Len(ss) |->
                                   IF i = 1 THEN ss[i] ELSE f[i - 1] \o ss[i]]
<1>1. ss \in Seq(Seq(S)) /\ Len(ss) = n
  OBVIOUS
<1>2. FlattenSeq(ss) = IF Len(ss) = 0 THEN ss ELSE fl[Len(ss)]
  BY DEF FlattenSeq
<1>3. CASE n = 0
  BY <1>1, <1>2, <1>3
<1>4. CASE n # 0
  <2>0. PICK g : Flattens(g, ss, n, S)
    BY PrefixFlattened
  <2>1. /\ g \in [1 .. n -> Seq(S)]
        /\ \A i \in 1 .. n : g[i] = IF i = 1 THEN ss[1] ELSE g[i - 1] \o ss[i]
    BY <2>0 DEF Flattens
  <2>2. g = [i \in 1 .. Len(ss) |-> IF i = 1 THEN ss[i] ELSE g[i - 1] \o ss[i]]
    BY <1>1, <2>1
  <2>3. fl = [i \in 1 .. Len(ss) |-> IF i = 1 THEN ss[i] ELSE fl[i - 1] \o ss[i]]
    BY <2>2
  <2> HIDE DEF fl
  <2> DEFINE Bad == {i \in 1 .. n : fl[i] \notin Seq(S)}
  <2>4. ASSUME Bad # {}
        PROVE  FALSE
    <3>1. PICK k \in Bad : \A j \in Bad : k <= j
      <4>1. Bad \in SUBSET Nat
        OBVIOUS
      <4> HIDE DEF Bad
      <4> QED
        BY <2>4, <4>1, LeastOf
    <3>2. fl[k] = IF k = 1 THEN ss[k] ELSE fl[k - 1] \o ss[k]
      BY <1>1, <2>3
    <3>3. k # 1 => fl[k - 1] \in Seq(S)
      BY <3>1
    <3>4. ss[k] \in Seq(S)
      OBVIOUS
    <3>5. fl[k] \in Seq(S)
      BY <3>2, <3>3, <3>4
    <3> QED
      BY <3>5
  <2>5. fl[n] \in Seq(S)
    <3>1. n \in 1 .. n
      BY <1>4
    <3> QED
      BY <2>4, <3>1
  <2> QED
    BY <1>1, <1>2, <1>4, <2>5
<1> QED
  BY <1>3, <1>4

Record == [id : Docs \X Nat \X Nat, doc : Docs, text : Texts]

LEMMA Contents ==
  ASSUME NEW d \in Docs
  PROVE  /\ Content[d] \in Seq(Seq(Texts)) /\ 1 \in Revisions(d) /\ Revisions(d) \subseteq Nat \ {0}
         /\ \A r \in Revisions(d) : Content[d][r] \in Seq(Texts)
<1>1. Content[d] \in Seq(Seq(Texts)) /\ Content[d] # <<>>
  BY OfflineAssumption
<1> QED
  BY <1>1 DEF Revisions

FileOK(file) == file \in [Docs -> Nat] /\ \A d \in Docs : file[d] = 0 \/ file[d] \in Revisions(d)

LEMMA PassagesSeq ==
  ASSUME NEW file, FileOK(file), NEW d \in Docs
  PROVE  Passages(file, d) \in Seq(Texts)
BY Contents DEF FileOK, Passages

LEMMA RecordsOfSeq ==
  ASSUME NEW file, FileOK(file), NEW d \in Docs
  PROVE  RecordsOf(file, d) \in Seq(Record)
<1>1. PICK p \in Seq(Texts) : p = Passages(file, d)
  BY PassagesSeq
<1>2. RecordsOf(file, d) = [i \in 1 .. Len(p) |-> [id |-> <<d, 0, i>>, doc |-> d, text |-> p[i]]]
  BY <1>1 DEF RecordsOf
<1>3. \A i \in 1 .. Len(p) : [id |-> <<d, 0, i>>, doc |-> d, text |-> p[i]] \in Record
  BY DEF Record
<1> QED
  BY <1>2, <1>3

LEMMA DocsListed ==
  ASSUME NEW n \in 1 .. Cardinality(Docs)
  PROVE  SetToSeq(Docs)[n] \in Docs
<1>1. ExistsBijection(1 .. Cardinality(Docs), Docs)
  BY OfflineAssumption, FS_CardinalityType
<1>2. \E f \in [1 .. Cardinality(Docs) -> Docs] : IsInjective(f)
  BY <1>1 DEF ExistsBijection, Bijection, Injection
<1>3. SetToSeq(Docs) \in [1 .. Cardinality(Docs) -> Docs]
  BY <1>2 DEF SetToSeq
<1> QED
  BY <1>3

LEMMA RecordsSeq ==
  ASSUME NEW file, FileOK(file)
  PROVE  Records(file) \in Seq(Record)
<1>1. Cardinality(Docs) \in Nat
  BY OfflineAssumption, FS_CardinalityType
<1>2. [n \in 1 .. Cardinality(Docs) |-> RecordsOf(file, SetToSeq(Docs)[n])]
        \in [1 .. Cardinality(Docs) -> Seq(Record)]
  BY DocsListed, RecordsOfSeq
<1> QED
  BY <1>1, <1>2, FlattenedSeq DEF Records

-----------------------------------------------------------------------------
(* The offline load: the inductive invariant.                              *)

FilesOK ==
  /\ source \in [Docs -> Nat] /\ \A d \in Docs : source[d] \in Revisions(d)
  /\ FileOK(chunksFile)
  /\ embedded \in Seq(Record)
  /\ loading \in -1 .. Len(embedded)
  /\ collection \in {"missing", "unloaded", "loaded"}

VectorsOK(vectors) ==
  IsFiniteSet(DOMAIN vectors) /\ \A i \in DOMAIN vectors : vectors[i].text \in Texts

VersionsOK ==
  /\ current \in [Docs -> 0 .. MaxVersion] /\ latest \in [Docs -> 0 .. MaxVersion]
  /\ \A d \in Docs : current[d] = 0 <=> latest[d] = 0

\* A row's id names its document and index, and its version unless a script wrote it.
RowOK(r) ==
  /\ r.doc \in Docs /\ r.ver \in Nat \ {0} /\ r.index \in Nat /\ r.text \in Texts
  /\ r.id \in {<<r.doc, 0, r.index>>, <<r.doc, r.ver, r.index>>}

RowsOK == IsFiniteSet(rows) /\ \A r \in rows : RowOK(r) /\ r.ver <= latest[r.doc]

RowsUnique ==
  \A r, s \in rows : r.doc = s.doc /\ r.ver = s.ver /\ r.index = s.index => r = s

\* The version an upload is about to commit has no row yet.
UploadOK ==
  \/ upload = NoUpload
  \/ /\ upload.doc \in Docs /\ upload.ver \in 1 .. MaxVersion /\ upload.rev \in Revisions(upload.doc)
     /\ \A r \in rows : ~(r.doc = upload.doc /\ r.ver = upload.ver)

OfflineIInv ==
  FilesOK /\ VectorsOK(stored) /\ VersionsOK /\ RowsOK /\ RowsUnique /\ UploadOK

LEMMA OfflineParameters ==
  /\ EmbedBatch \in Nat \ {0} /\ LoadBatch \in Nat \ {0} /\ MaxVersion \in Nat \ {0}
  /\ \A d \in Uploaded : d \in Docs
BY OfflineAssumption

LEMMA OfflineInitial ==
  ASSUME OfflineInit
  PROVE  OfflineIInv
<1>1. FilesOK
  <2>1. source = [d \in Docs |-> 1] /\ chunksFile = [d \in Docs |-> 0] /\ embedded = <<>> /\ loading = -1
          /\ collection = "missing"
    BY DEF OfflineInit
  <2>2. \A d \in Docs : source[d] \in Revisions(d)
    BY <2>1, Contents
  <2>3. embedded \in Seq(Record) /\ Len(embedded) = 0
    BY <2>1
  <2> QED
    BY <2>1, <2>2, <2>3 DEF FilesOK, FileOK
<1>2. VectorsOK(stored)
  BY FS_EmptySet DEF OfflineInit, VectorsOK
<1>3. VersionsOK
  BY OfflineParameters DEF OfflineInit, VersionsOK
<1>4. RowsOK /\ RowsUnique
  BY FS_EmptySet DEF OfflineInit, RowsOK, RowsUnique
<1>5. UploadOK
  BY DEF OfflineInit, UploadOK
<1> QED
  BY <1>1, <1>2, <1>3, <1>4, <1>5 DEF OfflineIInv

-----------------------------------------------------------------------------
(* Vectors.                                                                *)

LEMMA WithVectors ==
  ASSUME NEW vectors, VectorsOK(vectors), NEW new, VectorsOK(new)
  PROVE  VectorsOK(With(vectors, new))
<1> DEFINE w == With(vectors, new)
<1>1. w = [i \in DOMAIN new \union DOMAIN vectors |->
             IF i \in DOMAIN new THEN new[i] ELSE vectors[i]]
  BY DEF With
<1>2. DOMAIN w = DOMAIN new \union DOMAIN vectors
  BY <1>1
<1>3. IsFiniteSet(DOMAIN w)
  BY <1>2, FS_Union DEF VectorsOK
<1>4. ASSUME NEW i \in DOMAIN w
      PROVE  w[i].text \in Texts
  BY <1>1, <1>4 DEF VectorsOK
<1> HIDE DEF w
<1>5. VectorsOK(w)
  BY <1>3, <1>4 DEF VectorsOK
<1> QED
  BY <1>5 DEF w

LEMMA UnlabelledVectors ==
  ASSUME NEW records \in Seq(Record)
  PROVE  VectorsOK(Unlabelled(records))
<1> DEFINE ids == {records[n].id : n \in DOMAIN records}
<1>1. IsFiniteSet(ids)
  <2> DEFINE g == [n \in DOMAIN records |-> records[n].id]
  <2>1. IsFiniteSet(DOMAIN records)
    BY PositionsFinite
  <2>2. DOMAIN g = DOMAIN records
    OBVIOUS
  <2>3. IsFiniteSet({g[n] : n \in DOMAIN records})
    <3> HIDE DEF g
    <3> QED
      BY <2>1, <2>2, Image
  <2> QED
    BY <2>3
<1>2. DOMAIN Unlabelled(records) = ids
  BY DEF Unlabelled
<1>3. ASSUME NEW i \in ids
      PROVE  Unlabelled(records)[i].text \in Texts
  <2> DEFINE n == CHOOSE n \in DOMAIN records : records[n].id = i
  <2>1. n \in DOMAIN records
    OBVIOUS
  <2>2. records[n] \in Record
    <3> HIDE DEF n
    <3> QED
      BY <2>1
  <2>3. Unlabelled(records)[i].text = records[n].text
    BY DEF Unlabelled
  <2> HIDE DEF n
  <2> QED
    BY <2>2, <2>3 DEF Record
<1> QED
  BY <1>1, <1>2, <1>3 DEF VectorsOK

LEMMA LabelledVectors ==
  ASSUME NEW d \in Docs, NEW r \in Revisions(d), NEW v
  PROVE  VectorsOK(Labelled(d, v, r))
<1> DEFINE ids == {<<d, v, n>> : n \in DOMAIN Content[d][r]}
<1>0. PICK p \in Seq(Texts) : p = Content[d][r]
  BY Contents
<1>1. IsFiniteSet(ids)
  <2> DEFINE g == [n \in DOMAIN p |-> <<d, v, n>>]
  <2>1. IsFiniteSet(DOMAIN p)
    BY PositionsFinite
  <2>2. DOMAIN g = DOMAIN p
    OBVIOUS
  <2>3. IsFiniteSet({g[n] : n \in DOMAIN p})
    <3> HIDE DEF g
    <3> QED
      BY <2>1, <2>2, Image
  <2> QED
    BY <1>0, <2>3
<1>2. DOMAIN Labelled(d, v, r) = ids
  BY DEF Labelled
<1>3. ASSUME NEW i \in ids
      PROVE  Labelled(d, v, r)[i].text \in Texts
  <2>1. PICK n \in DOMAIN p : i = <<d, v, n>>
    BY <1>0
  <2>2. Labelled(d, v, r)[i].text = p[n]
    BY <1>0, <2>1 DEF Labelled
  <2>3. p[n] \in Texts
    OBVIOUS
  <2> QED
    BY <2>2, <2>3
<1> QED
  BY <1>1, <1>2, <1>3 DEF VectorsOK

-----------------------------------------------------------------------------
(* The steps of the offline load.                                          *)

LEMMA EditDocxStep ==
  ASSUME OfflineIInv, NEW d \in Docs, EditDocx(d)
  PROVE  OfflineIInv'
<1> USE DEF OfflineIInv, EditDocx
<1>1. FilesOK'
  BY DEF FilesOK, FileOK, Revisions
<1>2. VectorsOK(stored)'
  BY DEF VectorsOK
<1>3. VersionsOK' /\ RowsOK' /\ RowsUnique' /\ UploadOK'
  BY DEF VersionsOK, RowsOK, RowOK, RowsUnique, UploadOK, Revisions
<1> QED
  BY <1>1, <1>2, <1>3

\* A step that changes neither rows, versions nor the upload.
LEMMA OnlyFilesOrVectors ==
  ASSUME OfflineIInv, FilesOK', VectorsOK(stored)', UNCHANGED <<rows, current, latest, upload>>
  PROVE  OfflineIInv'
<1>1. VersionsOK' /\ RowsOK' /\ RowsUnique' /\ UploadOK'
  BY DEF OfflineIInv, VersionsOK, RowsOK, RowOK, RowsUnique, UploadOK, Revisions
<1> QED
  BY <1>1 DEF OfflineIInv

LEMMA StoredSame ==
  ASSUME OfflineIInv, UNCHANGED stored
  PROVE  VectorsOK(stored)'
BY DEF OfflineIInv, VectorsOK

LEMMA IngestAndChunkStep ==
  ASSUME OfflineIInv, IngestAndChunk
  PROVE  OfflineIInv'
<1>1. FilesOK'
  <2>1. PICK unread \in SUBSET Docs :
          chunksFile' = [d \in Docs |-> IF d \in unread THEN 0 ELSE source[d]]
    BY DEF IngestAndChunk
  <2>2. chunksFile' \in [Docs -> Nat]
    BY <2>1 DEF OfflineIInv, FilesOK
  <2>3. \A d \in Docs : chunksFile'[d] = 0 \/ chunksFile'[d] \in Revisions(d)
    BY <2>1 DEF OfflineIInv, FilesOK
  <2> QED
    BY <2>2, <2>3 DEF IngestAndChunk, OfflineIInv, FilesOK, FileOK, Revisions
<1> QED
  BY <1>1, OnlyFilesOrVectors, StoredSame DEF IngestAndChunk

LEMMA PatchStep ==
  ASSUME OfflineIInv, NEW d \in Docs, Patch(d)
  PROVE  OfflineIInv'
<1>1. PICK r \in Revisions(d) : chunksFile' = [chunksFile EXCEPT ![d] = r]
  BY DEF Patch
<1>2. r \in Nat
  BY Contents
<1>3. FileOK(chunksFile')
  BY <1>1, <1>2 DEF OfflineIInv, FilesOK, FileOK
<1>4. FilesOK'
  BY <1>3 DEF Patch, OfflineIInv, FilesOK, FileOK, Revisions
<1> QED
  BY <1>4, OnlyFilesOrVectors, StoredSame DEF Patch

LEMMA PrefixSeq ==
  ASSUME NEW S, NEW s \in Seq(S), NEW n \in 0 .. Len(s)
  PROVE  SubSeq(s, 1, n) \in Seq(S)
<1>1. \A i \in 1 .. n : s[i] \in S
  OBVIOUS
<1> QED
  BY <1>1, SubSeqProperties

LEMMA EmbedStep ==
  ASSUME OfflineIInv, Embed
  PROVE  OfflineIInv'
<1>1. PICK n \in 0 .. Len(Records(chunksFile)) : embedded' = SubSeq(Records(chunksFile), 1, n)
  BY DEF Embed
<1>2. PICK s \in Seq(Record) : s = Records(chunksFile)
  BY RecordsSeq DEF OfflineIInv, FilesOK
<1>3. embedded' \in Seq(Record)
  BY <1>1, <1>2, PrefixSeq
<1>4. loading' = -1 /\ UNCHANGED <<source, chunksFile, collection>>
  BY DEF Embed
<1>5. loading' \in -1 .. Len(embedded')
  BY <1>3, <1>4
<1>6. FilesOK'
  BY <1>3, <1>4, <1>5 DEF OfflineIInv, FilesOK, FileOK, Revisions
<1> QED
  BY <1>6, OnlyFilesOrVectors, StoredSame DEF Embed

LEMMA LoadingOnly ==
  ASSUME OfflineIInv, UNCHANGED <<source, chunksFile, embedded>>, loading' \in -1 .. Len(embedded),
         collection' \in {"missing", "unloaded", "loaded"}
  PROVE  FilesOK'
BY DEF OfflineIInv, FilesOK, FileOK, Revisions

LEMMA DropCollectionStep ==
  ASSUME OfflineIInv, DropCollection
  PROVE  OfflineIInv'
<1>1. Len(embedded) \in Nat
  BY DEF OfflineIInv, FilesOK
<1>2. FilesOK'
  BY <1>1, LoadingOnly DEF DropCollection
<1>3. VectorsOK(stored)'
  BY FS_EmptySet DEF DropCollection, VectorsOK
<1> QED
  BY <1>2, <1>3, OnlyFilesOrVectors DEF DropCollection

LEMMA CreateCollectionStep ==
  ASSUME OfflineIInv, CreateCollection
  PROVE  OfflineIInv'
<1>1. FilesOK'
  BY LoadingOnly DEF CreateCollection, OfflineIInv, FilesOK
<1> QED
  BY <1>1, OnlyFilesOrVectors, StoredSame DEF CreateCollection

LEMMA InsertBatchStep ==
  ASSUME OfflineIInv, InsertBatch
  PROVE  OfflineIInv'
<1> DEFINE end == Min({loading + LoadBatch, Len(embedded)})
           batch == SubSeq(embedded, loading + 1, end)
<1>1. embedded \in Seq(Record) /\ Len(embedded) \in Nat /\ loading \in 0 .. Len(embedded)
  BY DEF OfflineIInv, FilesOK, InsertBatch
<1>2. end = IF loading + LoadBatch <= Len(embedded) THEN loading + LoadBatch ELSE Len(embedded)
  BY <1>1, OfflineParameters, MinOfTwo
<1>3. end \in 0 .. Len(embedded)
  BY <1>1, <1>2, OfflineParameters
<1>4. stored' = With(stored, Unlabelled(batch)) /\ loading' = end
  BY DEF InsertBatch
<1>5. batch \in Seq(Record)
  <2> HIDE DEF end
  <2>1. \A i \in loading + 1 .. end : embedded[i] \in Record
    BY <1>1, <1>3
  <2> QED
    BY <1>1, <1>3, <2>1, SubSeqProperties
<1>6. VectorsOK(stored')
  <2> HIDE DEF batch
  <2>1. VectorsOK(Unlabelled(batch))
    BY <1>5, UnlabelledVectors
  <2> QED
    BY <1>4, <2>1, WithVectors DEF OfflineIInv
<1>7. loading' \in -1 .. Len(embedded)
  <2> HIDE DEF end
  <2> QED
    BY <1>1, <1>3, <1>4
<1>8. FilesOK'
  BY <1>7, LoadingOnly DEF InsertBatch, OfflineIInv, FilesOK
<1>9. VectorsOK(stored)'
  BY <1>6 DEF VectorsOK
<1> QED
  BY <1>8, <1>9, OnlyFilesOrVectors DEF InsertBatch

\* The loader has loaded the collection, or has died.
LEMMA LoaderEndsStep ==
  ASSUME OfflineIInv, LoadCollection \/ LoaderDies
  PROVE  OfflineIInv'
<1>1. Len(embedded) \in Nat /\ collection \in {"missing", "unloaded", "loaded"}
  BY DEF OfflineIInv, FilesOK
<1>2. loading' = -1 /\ collection' \in {collection, "loaded"}
      /\ UNCHANGED <<source, chunksFile, embedded, rows, current, latest, stored, upload>>
  BY DEF LoadCollection, LoaderDies
<1>3. FilesOK'
  BY <1>1, <1>2, LoadingOnly
<1> QED
  BY <1>2, <1>3, OnlyFilesOrVectors, StoredSame

LEMMA ApplicationLoadsStep ==
  ASSUME OfflineIInv, ApplicationLoads
  PROVE  OfflineIInv'
<1>1. FilesOK'
  BY LoadingOnly DEF ApplicationLoads, OfflineIInv, FilesOK
<1> QED
  BY <1>1, OnlyFilesOrVectors, StoredSame DEF ApplicationLoads

LEMMA UpsertStep ==
  ASSUME OfflineIInv, NEW d \in Docs, Upsert(d)
  PROVE  OfflineIInv'
<1>1. PICK s \in Seq(Record) : s = RecordsOf(chunksFile, d)
  BY RecordsOfSeq DEF OfflineIInv, FilesOK
<1>2. VectorsOK(Unlabelled(s))
  BY UnlabelledVectors
<1>3. VectorsOK(stored')
  BY <1>1, <1>2, WithVectors DEF OfflineIInv, Upsert
<1>4. VectorsOK(stored)'
  BY <1>3 DEF VectorsOK
<1>5. FilesOK'
  BY LoadingOnly DEF Upsert, OfflineIInv, FilesOK
<1> QED
  BY <1>4, <1>5, OnlyFilesOrVectors DEF Upsert

LEMMA LoadRowsStep ==
  ASSUME OfflineIInv, LoadRows
  PROVE  OfflineIInv'
<1> DEFINE read == {d \in Docs : Passages(chunksFile, d) # <<>>}
           item(d, i) == [id |-> <<d, 0, i>>, doc |-> d, ver |-> 1, index |-> i,
                          text |-> Passages(chunksFile, d)[i]]
           places == UNION {{d} \X DOMAIN Passages(chunksFile, d) : d \in read}
           open == {q \in places : ~Exists(q[1], q[2])}
           new == {item(p[1], p[2]) : p \in open}
<1>1. /\ rows' = rows \union new
      /\ current' = [d \in Docs |-> IF d \in read THEN Version(d) ELSE current[d]]
      /\ latest' = [d \in Docs |-> IF d \in read THEN Max({1, latest[d]}) ELSE latest[d]]
      /\ UNCHANGED <<source, chunksFile, embedded, stored, collection, loading, upload>>
      /\ upload.ver # 1
  BY DEF LoadRows
<1>2. ASSUME NEW d \in Docs
      PROVE  Passages(chunksFile, d) \in Seq(Texts)
  BY PassagesSeq DEF OfflineIInv, FilesOK
<1>3. IsFiniteSet(places)
  <2>1. ASSUME NEW d \in read
        PROVE  IsFiniteSet({d} \X DOMAIN Passages(chunksFile, d))
    <3>1. PICK p \in Seq(Texts) : p = Passages(chunksFile, d)
      BY <1>2
    <3>2. IsFiniteSet(DOMAIN p) /\ IsFiniteSet({d})
      BY PositionsFinite, FS_Singleton
    <3>3. IsFiniteSet({d} \X DOMAIN p)
      BY <3>2, FS_Product
    <3> QED
      BY <3>1, <3>3
  <2> DEFINE g == [d \in read |-> {d} \X DOMAIN Passages(chunksFile, d)]
  <2>2. IsFiniteSet(read)
    BY OfflineAssumption, FS_Subset
  <2>3. DOMAIN g = read /\ \A d \in read : IsFiniteSet(g[d])
    BY <2>1
  <2>4. IsFiniteSet({g[d] : d \in read})
    <3> HIDE DEF g, read
    <3> QED
      BY <2>2, <2>3, Image
  <2>5. IsFiniteSet(UNION {g[d] : d \in read})
    <3> HIDE DEF g, read
    <3> QED
      BY <2>3, <2>4, FS_UNION
  <2>6. {g[d] : d \in read} = {{d} \X DOMAIN Passages(chunksFile, d) : d \in read}
    OBVIOUS
  <2> HIDE DEF g
  <2> QED
    BY <2>5, <2>6
<1>4. IsFiniteSet(new)
  <2> DEFINE g == [p \in open |-> item(p[1], p[2])]
  <2>1. IsFiniteSet(open)
    <3>1. open \subseteq places
      OBVIOUS
    <3> HIDE DEF places, open
    <3> QED
      BY <1>3, <3>1, FS_Subset
  <2>2. DOMAIN g = open
    OBVIOUS
  <2>3. IsFiniteSet({g[p] : p \in open})
    <3> HIDE DEF g, open
    <3> QED
      BY <2>1, <2>2, Image
  <2>4. {g[p] : p \in open} = new
    OBVIOUS
  <2> HIDE DEF g, new
  <2> QED
    BY <2>3, <2>4
<1>5. ASSUME NEW r \in new
      PROVE  \E d \in read : \E i \in DOMAIN Passages(chunksFile, d) :
               r = item(d, i) /\ ~Exists(d, i)
  <2>1. PICK p \in open : r = item(p[1], p[2])
    OBVIOUS
  <2>2. PICK d \in read : p \in {d} \X DOMAIN Passages(chunksFile, d)
    OBVIOUS
  <2>3. p[1] = d /\ p[2] \in DOMAIN Passages(chunksFile, d) /\ ~Exists(p[1], p[2])
    BY <2>2
  <2> QED
    BY <2>1, <2>3
<1>6. ASSUME NEW r \in new
      PROVE  /\ RowOK(r) /\ r.ver = 1 /\ r.doc \in read
             /\ ~\E s \in rows : s.doc = r.doc /\ s.ver = r.ver /\ s.index = r.index
             /\ \A s \in new : s.doc = r.doc /\ s.index = r.index => s = r
  <2>1. PICK d \in read : \E i \in DOMAIN Passages(chunksFile, d) : r = item(d, i) /\ ~Exists(d, i)
    BY <1>5
  <2>a. PICK i \in DOMAIN Passages(chunksFile, d) : r = item(d, i) /\ ~Exists(d, i)
    BY <2>1
  <2>2. Passages(chunksFile, d)[i] \in Texts /\ i \in Nat
    <3>1. PICK p \in Seq(Texts) : p = Passages(chunksFile, d)
      BY <1>2
    <3> QED
      BY <3>1
  <2>3. RowOK(r)
    BY <2>a, <2>2 DEF RowOK
  <2>4. r.doc = d /\ r.index = i /\ r.ver = 1
    BY <2>a
  <2>5. ~\E s \in rows : s.doc = r.doc /\ s.ver = r.ver /\ s.index = r.index
    BY <2>a, <2>4 DEF Exists
  <2>6. ASSUME NEW s \in new, s.doc = r.doc, s.index = r.index
        PROVE  s = r
    <3>1. PICK e \in read : \E j \in DOMAIN Passages(chunksFile, e) : s = item(e, j)
      BY <1>5
    <3>b. PICK j \in DOMAIN Passages(chunksFile, e) : s = item(e, j)
      BY <3>1
    <3>2. e = d /\ j = i
      BY <2>4, <2>6, <3>b
    <3> QED
      BY <2>a, <3>b, <3>2
  <2> HIDE DEF new
  <2> QED
    BY <2>3, <2>4, <2>5, <2>6
<1> HIDE DEF new
<1>7. VersionsOK'
  <2>1. MaxVersion \in Nat /\ 1 <= MaxVersion
    BY OfflineParameters
  <2>2. ASSUME NEW d \in Docs
        PROVE  /\ current'[d] \in 0 .. MaxVersion /\ latest'[d] \in 0 .. MaxVersion
               /\ current'[d] = 0 <=> latest'[d] = 0
    <3>1. PICK c \in 0 .. MaxVersion, l \in 0 .. MaxVersion : c = current[d] /\ l = latest[d]
      BY DEF OfflineIInv, VersionsOK
    <3>2. c = 0 <=> l = 0
      BY <3>1 DEF OfflineIInv, VersionsOK
    <3>3. Max({1, l}) = IF 1 >= l THEN 1 ELSE l
      BY MinOfTwo
    <3>4. current'[d] = IF d \in read THEN IF c = 0 THEN 1 ELSE c ELSE c
      BY <1>1, <3>1 DEF Version
    <3>5. latest'[d] = IF d \in read THEN IF 1 >= l THEN 1 ELSE l ELSE l
      BY <1>1, <3>1, <3>3
    <3> HIDE DEF read
    <3> QED
      BY <2>1, <3>2, <3>4, <3>5
  <2>3. current' \in [Docs -> 0 .. MaxVersion] /\ latest' \in [Docs -> 0 .. MaxVersion]
    BY <1>1, <2>2
  <2> QED
    BY <2>2, <2>3 DEF VersionsOK
<1>8. ASSUME NEW d \in Docs
      PROVE  /\ latest[d] <= latest'[d]
             /\ d \in read => 1 <= latest'[d]
  <2>1. PICK l \in Nat : l = latest[d]
    BY OfflineParameters DEF OfflineIInv, VersionsOK
  <2>2. Max({1, l}) = IF 1 >= l THEN 1 ELSE l
    BY MinOfTwo
  <2>3. latest'[d] = IF d \in read THEN IF 1 >= l THEN 1 ELSE l ELSE l
    BY <1>1, <2>1, <2>2
  <2> QED
    BY <2>1, <2>3
<1>9. RowsOK'
  <2>1. IsFiniteSet(rows')
    BY <1>1, <1>4, FS_Union DEF OfflineIInv, RowsOK
  <2>2. ASSUME NEW r \in rows'
        PROVE  RowOK(r) /\ r.ver <= latest'[r.doc]
    <3>1. CASE r \in new
      BY <1>6, <1>8, <3>1
    <3>2. CASE r \in rows
      <4>1. RowOK(r) /\ r.ver <= latest[r.doc] /\ r.doc \in Docs /\ r.ver \in Nat
        BY <3>2 DEF OfflineIInv, RowsOK, RowOK
      <4>2. PICK l \in Nat, m \in Nat : l = latest[r.doc] /\ m = latest'[r.doc]
        BY <1>7, <4>1, OfflineParameters DEF OfflineIInv, VersionsOK
      <4>3. l <= m
        BY <1>8, <4>1, <4>2
      <4> QED
        BY <4>1, <4>2, <4>3
    <3> QED
      BY <1>1, <3>1, <3>2
  <2> QED
    BY <2>1, <2>2 DEF RowsOK, RowOK
<1>10. RowsUnique'
  <2>1. ASSUME NEW r \in rows', NEW s \in rows', r.doc = s.doc, r.ver = s.ver, r.index = s.index
        PROVE  r = s
    <3>1. CASE r \in rows /\ s \in rows
      BY <2>1, <3>1 DEF OfflineIInv, RowsUnique
    <3>2. CASE r \in new
      <4>1. s \notin rows
        BY <1>6, <2>1, <3>2
      <4> QED
        BY <1>1, <1>6, <2>1, <3>2, <4>1
    <3>3. CASE s \in new
      <4>1. r \notin rows
        BY <1>6, <2>1, <3>3
      <4> QED
        BY <1>1, <1>6, <2>1, <3>3, <4>1
    <3> QED
      BY <1>1, <3>1, <3>2, <3>3
  <2> QED
    BY <2>1 DEF RowsUnique
<1>11. UploadOK'
  <2>1. CASE upload = NoUpload
    BY <1>1, <2>1 DEF UploadOK, NoUpload
  <2>2. CASE upload # NoUpload
    <3>1. \A r \in rows : ~(r.doc = upload.doc /\ r.ver = upload.ver)
      BY <2>2 DEF OfflineIInv, UploadOK
    <3>2. \A r \in new : ~(r.doc = upload.doc /\ r.ver = upload.ver)
      BY <1>1, <1>6
    <3>3. \A r \in rows' : ~(r.doc = upload'.doc /\ r.ver = upload'.ver)
      BY <1>1, <3>1, <3>2
    <3> QED
      BY <1>1, <2>2, <3>3 DEF OfflineIInv, UploadOK, NoUpload, Revisions
  <2> QED
    BY <2>1, <2>2
<1>12. FilesOK' /\ VectorsOK(stored)'
  BY <1>1, StoredSame, LoadingOnly DEF OfflineIInv, FilesOK
<1> QED
  BY <1>7, <1>9, <1>10, <1>11, <1>12 DEF OfflineIInv

LEMMA UploadVectorsStep ==
  ASSUME OfflineIInv, NEW d \in Docs, UploadVectors(d)
  PROVE  OfflineIInv'
<1>1. PICK l \in 0 .. MaxVersion : l = latest[d]
  BY DEF OfflineIInv, VersionsOK
<1>2. /\ l + 1 <= MaxVersion
      /\ latest' = IF current[d] = 0 THEN latest ELSE [latest EXCEPT ![d] = l + 1]
      /\ upload' = [doc |-> d, ver |-> l + 1, rev |-> source[d]]
      /\ stored' = With(stored, Labelled(d, l + 1, source[d]))
      /\ collection' = "loaded"
      /\ UNCHANGED <<source, chunksFile, embedded, rows, current, loading>>
  BY <1>1 DEF UploadVectors
<1>3. source[d] \in Revisions(d)
  BY DEF OfflineIInv, FilesOK
<1>4. VectorsOK(stored)'
  <2>1. PICK n \in Nat : n = l + 1
    BY <1>1
  <2>2. VectorsOK(Labelled(d, n, source[d]))
    BY <1>3, LabelledVectors
  <2>3. VectorsOK(stored')
    BY <1>2, <2>1, <2>2, WithVectors DEF OfflineIInv
  <2> QED
    BY <2>3 DEF VectorsOK
<1>5. FilesOK'
  BY <1>2, LoadingOnly DEF OfflineIInv, FilesOK
<1>6. VersionsOK'
  <2>1. CASE current[d] = 0
    BY <1>2, <2>1 DEF OfflineIInv, VersionsOK
  <2>2. CASE current[d] # 0
    <3>1. latest' \in [Docs -> 0 .. MaxVersion]
      BY <1>1, <1>2, <2>2, OfflineParameters DEF OfflineIInv, VersionsOK
    <3>2. \A e \in Docs : current'[e] = 0 <=> latest'[e] = 0
      BY <1>1, <1>2, <2>2 DEF OfflineIInv, VersionsOK
    <3>3. current' \in [Docs -> 0 .. MaxVersion]
      BY <1>2 DEF OfflineIInv, VersionsOK
    <3> QED
      BY <3>1, <3>2, <3>3 DEF VersionsOK
  <2> QED
    BY <2>1, <2>2
<1>7. ASSUME NEW r \in rows
      PROVE  RowOK(r) /\ r.ver <= latest'[r.doc] /\ ~(r.doc = d /\ r.ver = l + 1)
  <2>1. RowOK(r) /\ r.ver <= latest[r.doc] /\ r.doc \in Docs /\ r.ver \in Nat
    BY DEF OfflineIInv, RowsOK, RowOK
  <2>2. latest'[r.doc] = IF r.doc = d /\ current[d] # 0 THEN l + 1 ELSE latest[r.doc]
    BY <1>2, <2>1 DEF OfflineIInv, VersionsOK
  <2> QED
    BY <1>1, <2>1, <2>2
<1>8. RowsOK' /\ RowsUnique'
  BY <1>2, <1>7 DEF OfflineIInv, RowsOK, RowOK, RowsUnique
<1>9. UploadOK'
  <2>1. upload'.doc = d /\ upload'.ver = l + 1 /\ upload'.rev = source[d]
    BY <1>2
  <2>2. \A r \in rows' : ~(r.doc = upload'.doc /\ r.ver = upload'.ver)
    BY <1>2, <1>7, <2>1
  <2>3. upload'.ver \in 1 .. MaxVersion
    BY <1>1, <1>2, <2>1, OfflineParameters
  <2> QED
    BY <1>3, <2>1, <2>2, <2>3 DEF UploadOK, Revisions
<1> QED
  BY <1>4, <1>5, <1>6, <1>8, <1>9 DEF OfflineIInv

LEMMA UploadCommitsStep ==
  ASSUME OfflineIInv, UploadCommits
  PROVE  OfflineIInv'
<1>1. PICK d \in Docs, v \in 1 .. MaxVersion, p \in Seq(Texts) :
        /\ d = upload.doc /\ v = upload.ver /\ p = Content[d][upload.rev]
        /\ \A r \in rows : ~(r.doc = d /\ r.ver = v)
  <2>1. /\ upload.doc \in Docs /\ upload.ver \in 1 .. MaxVersion /\ upload.rev \in Revisions(upload.doc)
        /\ \A r \in rows : ~(r.doc = upload.doc /\ r.ver = upload.ver)
    BY DEF OfflineIInv, UploadOK, UploadCommits
  <2>2. Content[upload.doc][upload.rev] \in Seq(Texts)
    BY <2>1, Contents
  <2> QED
    BY <2>1, <2>2
<1> DEFINE item(i) == [id |-> <<d, v, i>>, doc |-> d, ver |-> v, index |-> i, text |-> p[i]]
           new == {item(i) : i \in DOMAIN p}
<1>2. /\ rows' = rows \union new
      /\ current' = [current EXCEPT ![d] = v]
      /\ latest' = [latest EXCEPT ![d] = Max({latest[d], v})]
      /\ upload' = NoUpload
      /\ UNCHANGED <<source, chunksFile, embedded, stored, collection, loading>>
  BY <1>1 DEF UploadCommits
<1>3. v \in Nat /\ 1 <= v /\ v <= MaxVersion /\ MaxVersion \in Nat
  BY OfflineParameters
<1>4. IsFiniteSet(new)
  <2> DEFINE g == [i \in DOMAIN p |-> item(i)]
  <2>1. IsFiniteSet(DOMAIN p)
    BY PositionsFinite
  <2>2. DOMAIN g = DOMAIN p
    OBVIOUS
  <2>3. IsFiniteSet({g[i] : i \in DOMAIN p})
    <3> HIDE DEF g
    <3> QED
      BY <2>1, <2>2, Image
  <2>4. {g[i] : i \in DOMAIN p} = new
    OBVIOUS
  <2> HIDE DEF g, new
  <2> QED
    BY <2>3, <2>4
<1>5. ASSUME NEW r \in new
      PROVE  /\ RowOK(r) /\ r.doc = d /\ r.ver = v
             /\ \A s \in new : s.index = r.index => s = r
  <2>1. PICK i \in DOMAIN p : r = item(i)
    OBVIOUS
  <2>2. p[i] \in Texts /\ i \in Nat
    OBVIOUS
  <2>3. RowOK(r)
    BY <1>3, <2>1, <2>2 DEF RowOK
  <2>4. r.doc = d /\ r.ver = v /\ r.index = i
    BY <2>1
  <2>5. ASSUME NEW s \in new, s.index = r.index
        PROVE  s = r
    <3>1. PICK j \in DOMAIN p : s = item(j)
      OBVIOUS
    <3>2. j = i
      BY <2>4, <2>5, <3>1
    <3> QED
      BY <2>1, <3>1, <3>2
  <2> HIDE DEF new
  <2> QED
    BY <2>3, <2>4, <2>5
<1> HIDE DEF new
<1>6. ASSUME NEW e \in Docs
      PROVE  /\ current'[e] = IF e = d THEN v ELSE current[e]
             /\ e # d => latest'[e] = latest[e]
             /\ e = d => latest'[e] \in Nat /\ latest'[e] <= MaxVersion /\ v <= latest'[e]
             /\ latest[e] \in Nat /\ latest[e] <= latest'[e]
  <2>1. PICK l \in 0 .. MaxVersion : l = latest[d]
    BY DEF OfflineIInv, VersionsOK
  <2>2. Max({l, v}) = IF l >= v THEN l ELSE v
    <3>1. l \in Int /\ v \in Int
      BY <1>3
    <3> QED
      BY <3>1, MinOfTwo
  <2>3. latest'[e] = IF e = d THEN IF l >= v THEN l ELSE v ELSE latest[e]
    BY <1>2, <2>1, <2>2 DEF OfflineIInv, VersionsOK
  <2>4. current'[e] = IF e = d THEN v ELSE current[e]
    BY <1>2 DEF OfflineIInv, VersionsOK
  <2>5. latest[e] \in 0 .. MaxVersion
    BY DEF OfflineIInv, VersionsOK
  <2> QED
    BY <1>3, <2>1, <2>3, <2>4, <2>5
<1>7. VersionsOK'
  <2>1. ASSUME NEW e \in Docs
        PROVE  /\ current'[e] \in 0 .. MaxVersion /\ latest'[e] \in 0 .. MaxVersion
               /\ current'[e] = 0 <=> latest'[e] = 0
    <3>1. current[e] \in 0 .. MaxVersion /\ latest[e] \in 0 .. MaxVersion
          /\ (current[e] = 0 <=> latest[e] = 0)
      BY DEF OfflineIInv, VersionsOK
    <3> QED
      BY <1>3, <1>6, <3>1
  <2>2. current' \in [Docs -> 0 .. MaxVersion]
    <3>1. current' = [e \in Docs |-> current'[e]]
      BY <1>2 DEF OfflineIInv, VersionsOK
    <3> QED
      BY <2>1, <3>1
  <2>3. latest' \in [Docs -> 0 .. MaxVersion]
    <3>1. latest' = [e \in Docs |-> latest'[e]]
      BY <1>2 DEF OfflineIInv, VersionsOK
    <3> QED
      BY <2>1, <3>1
  <2> QED
    BY <2>1, <2>2, <2>3 DEF VersionsOK
<1>8. RowsOK'
  <2>1. IsFiniteSet(rows')
    BY <1>2, <1>4, FS_Union DEF OfflineIInv, RowsOK
  <2>2. ASSUME NEW r \in rows'
        PROVE  RowOK(r) /\ r.ver <= latest'[r.doc]
    <3>1. CASE r \in new
      BY <1>5, <1>6, <3>1
    <3>2. CASE r \in rows
      <4>1. RowOK(r) /\ r.ver <= latest[r.doc] /\ r.doc \in Docs /\ r.ver \in Nat
        BY <3>2 DEF OfflineIInv, RowsOK, RowOK
      <4>2. /\ latest[r.doc] \in Nat /\ latest[r.doc] <= latest'[r.doc]
            /\ latest'[r.doc] \in Nat
        BY <1>6, <4>1
      <4> QED
        BY <4>1, <4>2
    <3> QED
      BY <1>2, <3>1, <3>2
  <2> QED
    BY <2>1, <2>2 DEF RowsOK, RowOK
<1>9. RowsUnique'
  <2>1. ASSUME NEW r \in rows', NEW s \in rows', r.doc = s.doc, r.ver = s.ver, r.index = s.index
        PROVE  r = s
    <3>1. CASE r \in rows /\ s \in rows
      BY <2>1, <3>1 DEF OfflineIInv, RowsUnique
    <3>2. CASE r \in new
      <4>1. s \notin rows
        BY <1>1, <1>5, <2>1, <3>2
      <4> QED
        BY <1>2, <1>5, <2>1, <3>2, <4>1
    <3>3. CASE s \in new
      <4>1. r \notin rows
        BY <1>1, <1>5, <2>1, <3>3
      <4> QED
        BY <1>2, <1>5, <2>1, <3>3, <4>1
    <3> QED
      BY <1>2, <3>1, <3>2, <3>3
  <2> QED
    BY <2>1 DEF RowsUnique
<1>10. UploadOK'
  BY <1>2 DEF UploadOK, NoUpload
<1>11. FilesOK' /\ VectorsOK(stored)'
  BY <1>2, StoredSame, LoadingOnly DEF OfflineIInv, FilesOK
<1> QED
  BY <1>7, <1>8, <1>9, <1>10, <1>11 DEF OfflineIInv

LEMMA UploadFailsStep ==
  ASSUME OfflineIInv, UploadFails
  PROVE  OfflineIInv'
<1>1. VectorsOK(stored)'
  <2>1. CASE UNCHANGED stored
    BY <2>1, StoredSame
  <2>2. ASSUME NEW X, stored' = [i \in DOMAIN stored \ X |-> stored[i]]
        PROVE  VectorsOK(stored)'
    <3>1. DOMAIN stored' = DOMAIN stored \ X
      BY <2>2
    <3>2. IsFiniteSet(DOMAIN stored')
      BY <3>1, FS_Subset DEF OfflineIInv, VectorsOK
    <3>3. \A i \in DOMAIN stored' : stored'[i].text \in Texts
      BY <2>2, <3>1 DEF OfflineIInv, VectorsOK
    <3> QED
      BY <3>2, <3>3 DEF VectorsOK
  <2> QED
    BY <2>1, <2>2 DEF UploadFails
<1>2. /\ UNCHANGED <<source, chunksFile, embedded, rows, current, latest, loading>>
      /\ upload' = NoUpload /\ collection' \in {collection, "loaded"}
  BY DEF UploadFails
<1>3. FilesOK'
  BY <1>2, LoadingOnly DEF OfflineIInv, FilesOK
<1>4. VersionsOK' /\ RowsOK' /\ RowsUnique' /\ UploadOK'
  BY <1>2 DEF OfflineIInv, VersionsOK, RowsOK, RowOK, RowsUnique, UploadOK, NoUpload
<1> QED
  BY <1>1, <1>3, <1>4 DEF OfflineIInv

\* Every step of the scripts and of the uploads keeps the invariant.
LEMMA OfflineStep ==
  ASSUME OfflineIInv, [OfflineNext]_offlineVars
  PROVE  OfflineIInv'
<1>1. CASE UNCHANGED offlineVars
  BY <1>1, OnlyFilesOrVectors, StoredSame, LoadingOnly DEF offlineVars, OfflineIInv, FilesOK
<1>2. CASE OfflineNext
  <2>1. ASSUME NEW d \in Docs, EditDocx(d) \/ Patch(d) \/ Upsert(d)
        PROVE  OfflineIInv'
    BY <2>1, EditDocxStep, PatchStep, UpsertStep
  <2>2. ASSUME NEW d \in Uploaded, UploadVectors(d)
        PROVE  OfflineIInv'
    BY <2>2, UploadVectorsStep, OfflineParameters
  <2>3. CASE IngestAndChunk \/ Embed \/ LoadRows \/ UploadCommits \/ UploadFails
    BY <2>3, IngestAndChunkStep, EmbedStep, LoadRowsStep, UploadCommitsStep, UploadFailsStep
  <2>4. CASE DropCollection \/ CreateCollection \/ InsertBatch \/ LoadCollection \/ LoaderDies
             \/ ApplicationLoads
    BY <2>4, DropCollectionStep, CreateCollectionStep, InsertBatchStep, LoaderEndsStep,
       ApplicationLoadsStep
  <2> QED
    BY <1>2, <2>1, <2>2, <2>3, <2>4 DEF OfflineNext
<1> QED
  BY <1>1, <1>2

LEMMA OfflineInvariance == OfflineSpec => []OfflineIInv
<1>1. OfflineInit => OfflineIInv
  BY OfflineInitial
<1>2. OfflineIInv /\ [OfflineNext]_offlineVars => OfflineIInv'
  BY OfflineStep
<1> QED
  BY <1>1, <1>2, PTL DEF OfflineSpec

LEMMA RowsApart ==
  ASSUME OfflineIInv, NEW r \in rows, NEW s \in rows, r.ver = s.ver,
         (r.doc = s.doc /\ r.index = s.index) \/ r.id = s.id
  PROVE  r = s
<1>1. RowOK(r) /\ RowOK(s)
  BY DEF OfflineIInv, RowsOK
<1>2. r.doc = s.doc /\ r.index = s.index
  BY <1>1 DEF RowOK
<1> QED
  BY <1>2 DEF OfflineIInv, RowsUnique

LEMMA OfflineTyped ==
  ASSUME OfflineIInv
  PROVE  OfflineTypeOK
<1>1. /\ chunksFile \in [Docs -> Nat] /\ current \in [Docs -> 0 .. MaxVersion]
      /\ loading \in -1 .. Len(embedded) /\ collection \in {"missing", "unloaded", "loaded"}
  BY DEF OfflineIInv, FilesOK, FileOK, VersionsOK
<1>2. \A r, s \in rows :
        r.doc = s.doc /\ r.ver = s.ver /\ (r.index = s.index \/ r.id = s.id) => r = s
  BY RowsApart
<1> QED
  BY <1>1, <1>2 DEF OfflineTypeOK

\* The ids of the rows of current versions differ, so a search of any state of the
\* system is one of those the lemmas on ranking are about.
LEMMA StatesSearchable ==
  ASSUME OfflineIInv, NEW q \in Questions
  PROVE  Searchable(q, rows, stored, current)
<1>1. q \in Seq(ToSet(q)) /\ \A t \in Texts : Similarity(q, t) \in Int
  BY OfflineAssumption
<1>2. IsFiniteSet(rows) /\ IsFiniteSet(DOMAIN stored)
  BY DEF OfflineIInv, RowsOK, VectorsOK
<1>3. \A i \in DOMAIN stored : stored[i].text \in Texts
  BY DEF OfflineIInv, VectorsOK
<1>4. \A r \in rows : r.text \in Texts
  BY DEF OfflineIInv, RowsOK, RowOK
<1>5. ASSUME NEW r \in Matching(q, rows, current), NEW s \in Matching(q, rows, current), r.id = s.id
      PROVE  r = s
  <2>1. r \in rows /\ s \in rows /\ r.ver = current[r.doc] /\ s.ver = current[s.doc]
    BY DEF Matching
  <2>2. RowOK(r) /\ RowOK(s)
    BY <2>1 DEF OfflineIInv, RowsOK
  <2>3. r.doc = s.doc
    BY <1>5, <2>2 DEF RowOK
  <2> QED
    BY <1>5, <2>1, <2>3, RowsApart
<1> QED
  BY <1>1, <1>2, <1>3, <1>4, <1>5 DEF Searchable

LEMMA ContentFound ==
  ASSUME OfflineIInv
  PROVE  CurrentContentFound
<1>1. ASSUME NEW q \in Questions, NEW found \in Answers(q)
      PROVE  /\ \A a, b \in found : a.id = b.id => a = b
             /\ \A r \in Matching(q, rows, current) :
                  \/ \E h \in found : h.id = r.id
                  \/ /\ Cardinality(found) = TopK
                     /\ \A h \in found : Hybrid(q, h) >=
                          Min({100 * Similarity(q, Stands(r, stored)) + LexicalScore(q, r.text),
                               100 * Similarity(q, Stands(r, stored))
                                 + LexicalScore(q, Stands(r, stored))})
                  \/ RowLimit <= Cardinality({s \in Matching(q, rows, current) \ {r} :
                                                LexicalScore(q, s.text) >= LexicalScore(q, r.text)})
  <2>1. found \in Ranked(q, rows, stored, current)
    BY <1>1 DEF Answers, Results
  <2> QED
    BY <2>1, StatesSearchable, RowsAreFound
<1> QED
  BY <1>1 DEF CurrentContentFound

LEMMA NothingSuperseded == SupersededOnlyUnlabelled
<1>1. ASSUME NEW q \in Questions, NEW found \in Answers(q), NEW h \in found
      PROVE  h.ver \in {0, current[h.doc]} \/ current[h.doc] = 0
  <2>1. found \in Ranked(q, rows, stored, current)
    BY <1>1 DEF Answers, Results
  <2> QED
    BY <2>1, RankedCurrent
<1> QED
  BY <1>1 DEF SupersededOnlyUnlabelled

\* OfflineTypeOK: the scripts keep their files and versions apart, and no two
\* chunks of one version share an index or an id.
THEOREM OfflineTypeCorrect == OfflineSpec => []OfflineTypeOK
<1>1. OfflineIInv => OfflineTypeOK
  BY OfflineTyped
<1> QED
  BY <1>1, OfflineInvariance, PTL

\* Whatever the files, the questions and the similarity, and wherever a load, a
\* patch or an upload stands: when the collection is loaded, and a search is
\* answered at all, a row of a current version that shares a word with the question
\* is found, unless TopK results rank as high or RowLimit other rows share as much
\* (retrieval_service.py:789-879).
THEOREM CommittedContentFound == OfflineSpec => []CurrentContentFound
<1>1. OfflineIInv => CurrentContentFound
  BY ContentFound
<1> QED
  BY <1>1, OfflineInvariance, PTL

\* What a search returns of a version that is not current was written without a
\* label by a script: filter_current_document_versions hides every other.
THEOREM SupersededHidden == OfflineSpec => []SupersededOnlyUnlabelled
BY NothingSuperseded, PTL

-----------------------------------------------------------------------------
(* Recursion along the numbers up to n.                                    *)

LEMMA UpTo ==
  ASSUME NEW n \in Nat, NEW P, 0 \in P, \A k \in 1 .. n : k - 1 \in P => k \in P
  PROVE  \A k \in 0 .. n : k \in P
<1> DEFINE Bad == {k \in 0 .. n : k \notin P}
<1>1. ASSUME Bad # {}
      PROVE  FALSE
  <2>1. PICK m \in Bad : \A j \in Bad : m <= j
    <3>1. Bad \in SUBSET Nat
      OBVIOUS
    <3> HIDE DEF Bad
    <3> QED
      BY <1>1, <3>1, LeastOf
  <2>2. m \in 1 .. n /\ m \notin P
    OBVIOUS
  <2>3. m - 1 \in 0 .. n /\ m - 1 \notin Bad
    BY <2>1, <2>2
  <2> QED
    BY <2>2, <2>3
<1> QED
  BY <1>1

\* The functions that obey one recursion are one.
LEMMA SameRun ==
  ASSUME NEW n \in Nat, NEW f, NEW g, f[0] = g[0],
         \A k \in 1 .. n : f[k - 1] = g[k - 1] => f[k] = g[k]
  PROVE  \A k \in 0 .. n : f[k] = g[k]
<1> DEFINE P == {k \in 0 .. n : f[k] = g[k]}
<1>1. 0 \in P /\ \A k \in 1 .. n : k - 1 \in P => k \in P
  OBVIOUS
<1>2. \A k \in 0 .. n : k \in P
  <2> HIDE DEF P
  <2> QED
    BY <1>1, UpTo
<1> QED
  BY <1>2

Scans(f, step, base, n, A) ==
  /\ f \in [0 .. n -> A] /\ f[0] = base
  /\ \A k \in 1 .. n : f[k] = step[<<f[k - 1], k>>]

LEMMA Scan ==
  ASSUME NEW A, NEW n \in Nat, NEW base \in A, NEW step \in [A \X (1 .. n) -> A]
  PROVE  \E f : Scans(f, step, base, n, A)
<1> DEFINE P == {m \in 0 .. n : \E f \in [0 .. m -> A] :
                   f[0] = base /\ \A k \in 1 .. m : f[k] = step[<<f[k - 1], k>>]}
<1>1. 0 \in P
  <2> DEFINE g == [i \in 0 .. 0 |-> base]
  <2>1. g \in [0 .. 0 -> A] /\ g[0] = base
    OBVIOUS
  <2>2. \A k \in 1 .. 0 : g[k] = step[<<g[k - 1], k>>]
    OBVIOUS
  <2> HIDE DEF g
  <2> QED
    BY <2>1, <2>2
<1>2. ASSUME NEW m \in 1 .. n, m - 1 \in P
      PROVE  m \in P
  <2>1. PICK f \in [0 .. m - 1 -> A] :
          f[0] = base /\ \A k \in 1 .. m - 1 : f[k] = step[<<f[k - 1], k>>]
    BY <1>2
  <2> DEFINE last == step[<<f[m - 1], m>>]
             g == [i \in 0 .. m |-> IF i = m THEN last ELSE f[i]]
  <2>2. last \in A
    <3>1. <<f[m - 1], m>> \in A \X (1 .. n)
      BY <2>1
    <3> QED
      BY <3>1
  <2>3. g \in [0 .. m -> A]
    <3>1. \A i \in 0 .. m : i # m => f[i] \in A
      BY <2>1
    <3> HIDE DEF last
    <3> QED
      BY <2>2, <3>1
  <2>4. g[0] = base
    BY <2>1
  <2>5. ASSUME NEW k \in 1 .. m
        PROVE  g[k] = step[<<g[k - 1], k>>]
    <3> HIDE DEF last
    <3>1. g[k - 1] = f[k - 1] /\ g[k] = IF k = m THEN last ELSE f[k]
      OBVIOUS
    <3>2. CASE k = m
      BY <3>1, <3>2 DEF last
    <3>3. CASE k # m
      <4>1. k \in 1 .. m - 1
        BY <3>3
      <4> QED
        BY <2>1, <3>1, <3>3, <4>1
    <3> QED
      BY <3>2, <3>3
  <2> HIDE DEF g
  <2> QED
    BY <2>3, <2>4, <2>5
<1>3. n \in P
  <2> HIDE DEF P
  <2> QED
    BY <1>1, <1>2, UpTo
<1>4. PICK f \in [0 .. n -> A] : f[0] = base /\ \A k \in 1 .. n : f[k] = step[<<f[k - 1], k>>]
  BY <1>3
<1> QED
  BY <1>4 DEF Scans

-----------------------------------------------------------------------------
(* Lines and their words.                                                  *)

Lines == [no : Nat, opens : SectionTypes \union {"none"}, mark : Marks, words : Nat \ {0}]

\* f[n]: the words of the first n lines.
Counts(f, lines) ==
  /\ f \in [0 .. Len(lines) -> Nat] /\ f[0] = 0
  /\ \A k \in 1 .. Len(lines) : f[k] = f[k - 1] + lines[k].words

LEMMA WordsCounted ==
  ASSUME NEW lines \in Seq(Lines)
  PROVE  \E f : Counts(f, lines) /\ Words(lines) = f[Len(lines)]
<1> DEFINE n == Len(lines)
           step == [p \in Nat \X (1 .. n) |-> p[1] + lines[p[2]].words]
           next(s) == [k \in 0 .. n |-> IF k = 0 THEN 0 ELSE s[k - 1] + lines[k].words]
           sum == CHOOSE s : s = next(s)
<1>1. n \in Nat /\ \A k \in 1 .. n : lines[k].words \in Nat
  <2>1. \A k \in 1 .. n : lines[k] \in Lines
    OBVIOUS
  <2> QED
    BY <2>1 DEF Lines
<1>2. step \in [Nat \X (1 .. n) -> Nat]
  BY <1>1
<1>3. PICK f : Scans(f, step, 0, n, Nat)
  <2> HIDE DEF step, n
  <2> QED
    BY <1>1, <1>2, Scan
<1>4. /\ f \in [0 .. n -> Nat] /\ f[0] = 0
      /\ \A k \in 1 .. n : f[k] = f[k - 1] + lines[k].words
  <2>1. /\ f \in [0 .. n -> Nat] /\ f[0] = 0
        /\ \A k \in 1 .. n : f[k] = step[<<f[k - 1], k>>]
    <3> HIDE DEF step, n
    <3> QED
      BY <1>3 DEF Scans
  <2>2. ASSUME NEW k \in 1 .. n
        PROVE  f[k] = f[k - 1] + lines[k].words
    <3>1. <<f[k - 1], k>> \in Nat \X (1 .. n)
      BY <1>1, <2>1
    <3> QED
      BY <2>1, <3>1
  <2> QED
    BY <2>1, <2>2
<1>5. f = next(f)
  BY <1>1, <1>4
<1>6. sum = next(sum)
  <2> HIDE DEF next
  <2> QED
    BY <1>5
<1>7. Words(lines) = sum[n]
  BY DEF Words
<1> HIDE DEF sum
<1>8. sum[0] = 0 /\ \A k \in 1 .. n : sum[k] = sum[k - 1] + lines[k].words
  BY <1>1, <1>6
<1>9. sum[n] = f[n]
  <2> HIDE DEF n
  <2>1. \A k \in 1 .. n : sum[k - 1] = f[k - 1] => sum[k] = f[k]
    BY <1>4, <1>8
  <2>2. \A k \in 0 .. n : sum[k] = f[k]
    <3>1. n \in Nat /\ sum[0] = f[0]
      BY <1>1, <1>4, <1>8
    <3> QED
      BY <2>1, <3>1, SameRun
  <2> QED
    BY <1>1, <2>2
<1> QED
  BY <1>4, <1>7, <1>9 DEF Counts

\* A sequence of lines has as many words as lines at least; a first line of two
\* words counts both, and no line has more words than all of them.
LEMMA WordsBounds ==
  ASSUME NEW lines \in Seq(Lines)
  PROVE  /\ Words(lines) \in Nat /\ Words(lines) >= Len(lines)
         /\ lines # <<>> => Words(lines) >= lines[1].words + Len(lines) - 1
         /\ \A k \in 1 .. Len(lines) : Words(lines) >= lines[k].words
<1> DEFINE n == Len(lines)
<1>1. PICK f : Counts(f, lines) /\ Words(lines) = f[n]
  BY WordsCounted
<1>2. /\ f \in [0 .. n -> Nat] /\ f[0] = 0 /\ n \in Nat
      /\ \A k \in 1 .. n : f[k] = f[k - 1] + lines[k].words
  BY <1>1 DEF Counts
<1>3. \A k \in 1 .. n : lines[k].words \in Nat /\ lines[k].words >= 1
  <2>1. \A k \in 1 .. n : lines[k] \in Lines
    OBVIOUS
  <2> QED
    BY <2>1 DEF Lines
<1> DEFINE P == {k \in 0 .. n : /\ f[k] >= k
                                /\ k > 0 => f[k] >= lines[1].words + k - 1
                                /\ \A j \in 1 .. k : f[k] >= lines[j].words}
<1>4. 0 \in P
  BY <1>2
<1>5. ASSUME NEW k \in 1 .. n, k - 1 \in P
      PROVE  k \in P
  <2> DEFINE w == lines[k].words
             p == f[k - 1]
  <2>1. p \in Nat /\ w \in Nat /\ w >= 1 /\ f[k] = p + w
    BY <1>2, <1>3
  <2>2. /\ p >= k - 1
        /\ k - 1 > 0 => p >= lines[1].words + (k - 1) - 1
        /\ \A j \in 1 .. k - 1 : p >= lines[j].words
    BY <1>5
  <2> HIDE DEF p
  <2>3. f[k] >= k
    BY <2>1, <2>2
  <2>4. f[k] >= lines[1].words + k - 1
    <3>1. lines[1].words \in Nat
      BY <1>3
    <3>2. k = 1 => w = lines[1].words
      OBVIOUS
    <3> HIDE DEF w
    <3> QED
      BY <2>1, <2>2, <3>1, <3>2
  <2>5. ASSUME NEW j \in 1 .. k
        PROVE  f[k] >= lines[j].words
    <3>1. CASE j = k
      BY <2>1, <3>1
    <3>2. CASE j # k
      <4>1. p >= lines[j].words /\ lines[j].words \in Nat
        BY <1>3, <2>2, <3>2
      <4> HIDE DEF w
      <4> QED
        BY <2>1, <4>1
    <3> QED
      BY <3>1, <3>2
  <2> QED
    BY <2>3, <2>4, <2>5
<1>6. n \in P
  <2> HIDE DEF P, n
  <2>1. n \in Nat
    BY <1>2
  <2>2. \A k \in 0 .. n : k \in P
    BY <2>1, <1>4, <1>5, UpTo
  <2> QED
    BY <2>1, <2>2
<1> QED
  BY <1>1, <1>2, <1>6

-----------------------------------------------------------------------------
(* What Chosen takes.                                                      *)

\* c holds the elements of the first m places of s that are in K, place by place.
Takes(c, at, s, m, K) ==
  /\ at \in Seq(1 .. m) /\ Len(c) = Len(at)
  /\ \A j \in 1 .. Len(at) : c[j] = s[at[j]]
  /\ \A i, j \in 1 .. Len(at) : i < j => at[i] < at[j]
  /\ \A k \in 1 .. m : k \in K <=> \E j \in 1 .. Len(at) : at[j] = k

LEMMA TakesNext ==
  ASSUME NEW S, NEW s \in Seq(S), NEW m \in 1 .. Len(s), NEW K,
         NEW c \in Seq(S), NEW at, Takes(c, at, s, m - 1, K)
  PROVE  \E new : Takes(IF m \in K THEN Append(c, s[m]) ELSE c, new, s, m, K)
<1>1. /\ at \in Seq(1 .. m - 1) /\ Len(c) = Len(at)
      /\ \A j \in 1 .. Len(at) : c[j] = s[at[j]]
      /\ \A i, j \in 1 .. Len(at) : i < j => at[i] < at[j]
      /\ \A k \in 1 .. m - 1 : k \in K <=> \E j \in 1 .. Len(at) : at[j] = k
  BY DEF Takes
<1>2. \A j \in 1 .. Len(at) : at[j] \in 1 .. m - 1
  BY <1>1
<1>3. at \in Seq(1 .. m)
  BY <1>1, <1>2
<1>4. CASE m \notin K
  <2>1. \A k \in 1 .. m : k \in K <=> \E j \in 1 .. Len(at) : at[j] = k
    BY <1>1, <1>2, <1>4
  <2>2. Takes(c, at, s, m, K)
    BY <1>1, <1>3, <2>1 DEF Takes
  <2> QED
    BY <1>4, <2>2
<1>5. CASE m \in K
  <2> DEFINE d == Append(c, s[m])
             new == Append(at, m)
             n == Len(at)
  <2>1. n \in Nat /\ m \in 1 .. m
    BY <1>1
  <2>2. /\ new \in Seq(1 .. m) /\ Len(new) = n + 1 /\ new[n + 1] = m
        /\ \A j \in 1 .. n : new[j] = at[j]
    BY <1>3, <2>1
  <2>3. /\ Len(d) = n + 1 /\ d[n + 1] = s[m]
        /\ \A j \in 1 .. n : d[j] = c[j]
    BY <1>1
  <2> HIDE DEF d, new, n
  <2>4. \A j \in 1 .. n + 1 : d[j] = s[new[j]]
    <3>1. \A j \in 1 .. n : d[j] = s[new[j]]
      BY <1>1, <2>2, <2>3 DEF n
    <3> QED
      BY <2>1, <2>2, <2>3, <3>1
  <2>5. \A i, j \in 1 .. n + 1 : i < j => new[i] < new[j]
    <3>1. ASSUME NEW i \in 1 .. n + 1, NEW j \in 1 .. n + 1, i < j
          PROVE  new[i] < new[j]
      <4>1. i \in 1 .. n /\ new[i] = at[i] /\ at[i] \in 1 .. m - 1
        BY <1>2, <2>1, <2>2, <3>1 DEF n
      <4>2. CASE j = n + 1
        BY <2>2, <4>1, <4>2
      <4>3. CASE j # n + 1
        <5>1. j \in 1 .. n /\ new[j] = at[j]
          BY <2>1, <2>2, <4>3
        <5> QED
          BY <1>1, <3>1, <4>1, <5>1 DEF n
      <4> QED
        BY <4>2, <4>3
    <3> QED
      BY <3>1
  <2>6. ASSUME NEW k \in 1 .. m
        PROVE  k \in K <=> \E j \in 1 .. n + 1 : new[j] = k
    <3>1. CASE k = m
      <4>1. n + 1 \in 1 .. n + 1
        BY <2>1
      <4> QED
        BY <1>5, <2>2, <3>1, <4>1
    <3>2. CASE k # m
      <4>1. k \in 1 .. m - 1
        BY <3>2
      <4>2. (\E j \in 1 .. n + 1 : new[j] = k) <=> (\E j \in 1 .. n : at[j] = k)
        BY <2>1, <2>2, <3>2
      <4> QED
        BY <1>1, <4>1, <4>2 DEF n
    <3> QED
      BY <3>1, <3>2
  <2>7. Takes(d, new, s, m, K)
    BY <2>2, <2>3, <2>4, <2>5, <2>6 DEF Takes
  <2> QED
    BY <1>5, <2>7 DEF d
<1> QED
  BY <1>4, <1>5

LEMMA ChosenTakes ==
  ASSUME NEW S, NEW s \in Seq(S), NEW K
  PROVE  Chosen(s, K) \in Seq(S) /\ \E at : Takes(Chosen(s, K), at, s, Len(s), K)
<1> DEFINE n == Len(s)
           step == [p \in Seq(S) \X (1 .. n) |-> IF p[2] \in K THEN Append(p[1], s[p[2]]) ELSE p[1]]
           next(t) == [k \in 0 .. n |-> IF k = 0 THEN <<>>
                                        ELSE IF k \in K THEN Append(t[k - 1], s[k]) ELSE t[k - 1]]
           taken == CHOOSE t : t = next(t)
<1>1. n \in Nat /\ \A k \in 1 .. n : s[k] \in S
  OBVIOUS
<1>2. step \in [Seq(S) \X (1 .. n) -> Seq(S)]
  <2>1. ASSUME NEW p \in Seq(S) \X (1 .. n)
        PROVE  (IF p[2] \in K THEN Append(p[1], s[p[2]]) ELSE p[1]) \in Seq(S)
    <3>1. p[1] \in Seq(S) /\ s[p[2]] \in S
      BY <1>1
    <3>2. Append(p[1], s[p[2]]) \in Seq(S)
      BY <3>1
    <3> QED
      BY <3>1, <3>2
  <2> HIDE DEF n
  <2> QED
    BY <2>1
<1>3. PICK f : Scans(f, step, <<>>, n, Seq(S))
  <2>1. <<>> \in Seq(S)
    OBVIOUS
  <2> HIDE DEF step, n
  <2> QED
    BY <1>1, <1>2, <2>1, Scan
<1>4. /\ f \in [0 .. n -> Seq(S)] /\ f[0] = <<>>
      /\ \A k \in 1 .. n : f[k] = IF k \in K THEN Append(f[k - 1], s[k]) ELSE f[k - 1]
  <2>1. /\ f \in [0 .. n -> Seq(S)] /\ f[0] = <<>>
        /\ \A k \in 1 .. n : f[k] = step[<<f[k - 1], k>>]
    <3> HIDE DEF step, n
    <3> QED
      BY <1>3 DEF Scans
  <2>2. ASSUME NEW k \in 1 .. n
        PROVE  f[k] = IF k \in K THEN Append(f[k - 1], s[k]) ELSE f[k - 1]
    <3>1. <<f[k - 1], k>> \in Seq(S) \X (1 .. n)
      BY <1>1, <2>1
    <3> QED
      BY <2>1, <3>1
  <2> QED
    BY <2>1, <2>2
<1>5. f = next(f)
  <2> HIDE DEF n
  <2>1. \A k \in 0 .. n : k # 0 => k \in 1 .. n
    OBVIOUS
  <2>2. \A k \in 0 .. n : f[k] = IF k = 0 THEN <<>>
                                 ELSE IF k \in K THEN Append(f[k - 1], s[k]) ELSE f[k - 1]
    BY <1>4, <2>1
  <2>3. f = [k \in 0 .. n |-> f[k]]
    BY <1>4
  <2> QED
    BY <2>2, <2>3
<1>6. taken = next(taken)
  <2> HIDE DEF next
  <2> QED
    BY <1>5
<1>7. Chosen(s, K) = taken[n]
  BY DEF Chosen
<1> HIDE DEF taken
<1>8. /\ taken[0] = <<>>
      /\ \A k \in 1 .. n : taken[k] = IF k \in K THEN Append(taken[k - 1], s[k]) ELSE taken[k - 1]
  <2> HIDE DEF n
  <2>1. \A k \in 0 .. n : taken[k] = IF k = 0 THEN <<>>
                          ELSE IF k \in K THEN Append(taken[k - 1], s[k]) ELSE taken[k - 1]
    BY <1>6, Zenon
  <2>2. 0 \in 0 .. n /\ \A k \in 1 .. n : k # 0 /\ k \in 0 .. n
    BY <1>1
  <2> QED
    BY <2>1, <2>2, Zenon
<1>9. taken[n] = f[n]
  <2> HIDE DEF n
  <2>1. \A k \in 1 .. n : taken[k - 1] = f[k - 1] => taken[k] = f[k]
    BY <1>4, <1>8
  <2>2. n \in Nat /\ taken[0] = f[0]
    BY <1>1, <1>4, <1>8
  <2>3. \A k \in 0 .. n : taken[k] = f[k]
    BY <2>1, <2>2, SameRun
  <2> QED
    BY <1>1, <2>3
<1> DEFINE P == {k \in 0 .. n : \E at : Takes(f[k], at, s, k, K)}
<1>10. 0 \in P
  <2>1. <<>> \in Seq(1 .. 0) /\ Len(<<>>) = 0
    OBVIOUS
  <2>2. Takes(f[0], <<>>, s, 0, K)
    BY <1>4, <2>1 DEF Takes
  <2> QED
    BY <1>1, <2>2
<1>11. ASSUME NEW k \in 1 .. n, k - 1 \in P
       PROVE  k \in P
  <2>1. PICK at : Takes(f[k - 1], at, s, k - 1, K)
    BY <1>11
  <2>2. PICK c \in Seq(S) : c = f[k - 1]
    BY <1>1, <1>4
  <2>3. PICK new : Takes(IF k \in K THEN Append(c, s[k]) ELSE c, new, s, k, K)
    BY <2>1, <2>2, TakesNext
  <2>4. Takes(f[k], new, s, k, K)
    <3>1. f[k] = IF k \in K THEN Append(c, s[k]) ELSE c
      BY <1>4, <2>2
    <3> HIDE DEF n
    <3> QED
      BY <2>3, <3>1
  <2> QED
    BY <1>1, <2>4
<1>12. n \in P
  <2> HIDE DEF P, n
  <2>1. n \in Nat
    BY <1>1
  <2>2. \A k \in 0 .. n : k \in P
    BY <2>1, <1>10, <1>11, UpTo
  <2> QED
    BY <2>1, <2>2
<1>13. f[n] \in Seq(S)
  BY <1>1, <1>4
<1> QED
  BY <1>7, <1>9, <1>12, <1>13

-----------------------------------------------------------------------------
(* Sections.                                                               *)

Section == [type : SectionTypes, text : Seq(Lines), skip : BOOLEAN]
Reading == [done : Seq(Section), type : SectionTypes, text : Seq(Lines), skip : BOOLEAN]
NothingRead == [done |-> <<>>, type |-> "generic", text |-> <<>>, skip |-> FALSE]

\* The numbers of the lines rise and are not above m.
Rising(text, m) ==
  /\ \A j \in 1 .. Len(text) : text[j].no \in 1 .. m
  /\ \A i, j \in 1 .. Len(text) : i < j => text[i].no < text[j].no

SectionOK(s, m) == s \in Section /\ s.text # <<>> /\ Rising(s.text, m)

ReadingOK(s, m) ==
  /\ s \in Reading /\ Rising(s.text, m)
  /\ \A i \in 1 .. Len(s.done) : SectionOK(s.done[i], m)

LEMMA SectionEnds ==
  ASSUME NEW s \in Reading
  PROVE  EndSection(s) \in Seq(Section)
<1>1. s.done \in Seq(Section) /\ s.type \in SectionTypes /\ s.text \in Seq(Lines) /\ s.skip \in BOOLEAN
  BY DEF Reading
<1>2. CASE s.text = <<>>
  BY <1>1, <1>2 DEF EndSection
<1>3. CASE s.text # <<>>
  <2> DEFINE new == [type |-> s.type, text |-> s.text, skip |-> s.skip \/ s.text[1].mark = "reference"]
  <2>1. (s.skip \/ s.text[1].mark = "reference") \in BOOLEAN
    OBVIOUS
  <2>2. new \in Section
    BY <1>1, <2>1 DEF Section
  <2>3. EndSection(s) = Append(s.done, new)
    BY <1>3 DEF EndSection
  <2> HIDE DEF new
  <2> QED
    BY <1>1, <2>2, <2>3
<1> QED
  BY <1>2, <1>3

LEMMA LineRead ==
  ASSUME NEW s \in Reading, NEW l \in Lines
  PROVE  ReadLine(s, l) \in Reading
<1>1. s.done \in Seq(Section) /\ s.type \in SectionTypes /\ s.text \in Seq(Lines) /\ s.skip \in BOOLEAN
  BY DEF Reading
<1>2. CASE l.opens = "none"
  <2>1. Append(s.text, l) \in Seq(Lines)
    BY <1>1
  <2>2. ReadLine(s, l) = [s EXCEPT !.text = Append(s.text, l)]
    BY <1>2 DEF ReadLine
  <2> QED
    BY <1>1, <2>1, <2>2 DEF Reading
<1>3. CASE l.opens # "none"
  <2>1. l.opens \in SectionTypes
    BY <1>3 DEF Lines
  <2>2. EndSection(s) \in Seq(Section)
    BY SectionEnds
  <2>3. <<>> \in Seq(Lines) /\ (l.mark = "reference") \in BOOLEAN
    OBVIOUS
  <2>4. ReadLine(s, l) = [done |-> EndSection(s), type |-> l.opens, text |-> <<>>,
                          skip |-> l.mark = "reference"]
    BY <1>3 DEF ReadLine
  <2> QED
    BY <2>1, <2>2, <2>3, <2>4 DEF Reading
<1> QED
  BY <1>2, <1>3

Reads(f, lines) ==
  f[0] = NothingRead /\ \A k \in 1 .. Len(lines) : f[k] = ReadLine(f[k - 1], lines[k])

LEMMA SectionsRead ==
  ASSUME NEW lines \in Seq(Lines)
  PROVE  \E f : Reads(f, lines) /\ SplitSections(lines) = EndSection(f[Len(lines)])
<1> DEFINE n == Len(lines)
           step == [p \in Reading \X (1 .. n) |-> ReadLine(p[1], lines[p[2]])]
           next(t) == [k \in 0 .. n |-> IF k = 0 THEN NothingRead ELSE ReadLine(t[k - 1], lines[k])]
           read == CHOOSE t : t = next(t)
<1>1. n \in Nat /\ \A k \in 1 .. n : lines[k] \in Lines
  OBVIOUS
<1>2. step \in [Reading \X (1 .. n) -> Reading]
  <2> HIDE DEF n
  <2> QED
    BY <1>1, LineRead
<1>3. NothingRead \in Reading
  BY DEF NothingRead, Reading, SectionTypes
<1>4. PICK f : Scans(f, step, NothingRead, n, Reading)
  <2> HIDE DEF step, n
  <2> QED
    BY <1>1, <1>2, <1>3, Scan
<1>5. f = next(f)
  <2> HIDE DEF n
  <2>1. /\ f \in [0 .. n -> Reading] /\ f[0] = NothingRead
        /\ \A k \in 1 .. n : f[k] = step[<<f[k - 1], k>>]
    <3> HIDE DEF step
    <3> QED
      BY <1>4 DEF Scans
  <2>2. ASSUME NEW k \in 1 .. n
        PROVE  f[k] = ReadLine(f[k - 1], lines[k])
    <3>1. <<f[k - 1], k>> \in Reading \X (1 .. n)
      BY <1>1, <2>1
    <3> QED
      BY <2>1, <3>1
  <2>3. \A k \in 0 .. n : k # 0 => k \in 1 .. n
    OBVIOUS
  <2>4. \A k \in 0 .. n : f[k] = IF k = 0 THEN NothingRead ELSE ReadLine(f[k - 1], lines[k])
    BY <2>1, <2>2, <2>3
  <2>5. f = [k \in 0 .. n |-> f[k]]
    BY <2>1
  <2> QED
    BY <2>4, <2>5
<1>6. read = next(read)
  <2> HIDE DEF next
  <2> QED
    BY <1>5
<1>7. SplitSections(lines) = EndSection(read[n])
  BY DEF SplitSections, NothingRead
<1> HIDE DEF read
<1>8. Reads(read, lines)
  <2>1. read[0] = NothingRead /\ \A k \in 1 .. n : read[k] = ReadLine(read[k - 1], lines[k])
    <3> HIDE DEF n
    <3>1. 0 \in 0 .. n /\ \A k \in 1 .. n : k # 0 /\ k \in 0 .. n
      BY <1>1
    <3> QED
      BY <1>6, <3>1, Zenon
  <2> QED
    BY <2>1 DEF Reads
<1> QED
  BY <1>7, <1>8

LEMMA RisesOn ==
  ASSUME NEW text \in Seq(Lines), NEW m \in Nat, Rising(text, m), NEW l \in Lines, l.no = m + 1
  PROVE  Rising(text, m + 1) /\ Rising(Append(text, l), m + 1)
<1> DEFINE new == Append(text, l)
           n == Len(text)
<1>1. n \in Nat /\ Len(new) = n + 1 /\ new[n + 1] = l /\ \A j \in 1 .. n : new[j] = text[j]
  OBVIOUS
<1>2. \A j \in 1 .. n : text[j].no \in 1 .. m
  BY DEF Rising
<1>3. \A i, j \in 1 .. n : i < j => text[i].no < text[j].no
  BY DEF Rising
<1> HIDE DEF new, n
<1>4. \A j \in 1 .. n + 1 : new[j].no \in 1 .. m + 1
  BY <1>1, <1>2
<1>5. ASSUME NEW i \in 1 .. n + 1, NEW j \in 1 .. n + 1, i < j
      PROVE  new[i].no < new[j].no
  <2>1. i \in 1 .. n /\ new[i].no = text[i].no /\ text[i].no \in 1 .. m
    BY <1>1, <1>2, <1>5
  <2>2. CASE j = n + 1
    BY <1>1, <2>1, <2>2
  <2>3. CASE j # n + 1
    BY <1>1, <1>3, <1>5, <2>1, <2>3
  <2> QED
    BY <2>2, <2>3
<1>6. Rising(new, m + 1)
  BY <1>1, <1>4, <1>5 DEF Rising
<1>7. Rising(text, m + 1)
  BY <1>2, <1>3 DEF Rising, n
<1> QED
  BY <1>6, <1>7 DEF new

LEMMA EndOK ==
  ASSUME NEW m \in Nat, NEW s, ReadingOK(s, m)
  PROVE  \A i \in 1 .. Len(EndSection(s)) : SectionOK(EndSection(s)[i], m)
<1>1. /\ s.done \in Seq(Section) /\ s.type \in SectionTypes /\ s.text \in Seq(Lines)
      /\ s.skip \in BOOLEAN /\ Rising(s.text, m)
      /\ \A i \in 1 .. Len(s.done) : SectionOK(s.done[i], m)
  BY DEF ReadingOK, Reading
<1>2. CASE s.text = <<>>
  BY <1>1, <1>2 DEF EndSection
<1>3. CASE s.text # <<>>
  <2> DEFINE new == [type |-> s.type, text |-> s.text, skip |-> s.skip \/ s.text[1].mark = "reference"]
  <2>1. (s.skip \/ s.text[1].mark = "reference") \in BOOLEAN
    OBVIOUS
  <2>2. new \in Section
    BY <1>1, <2>1 DEF Section
  <2>3. SectionOK(new, m)
    BY <1>1, <1>3, <2>2 DEF SectionOK
  <2>4. EndSection(s) = Append(s.done, new)
    BY <1>3 DEF EndSection
  <2> HIDE DEF new
  <2>5. \A i \in 1 .. Len(s.done) + 1 : Append(s.done, new)[i] = IF i = Len(s.done) + 1 THEN new ELSE s.done[i]
    BY <1>1
  <2>6. Len(EndSection(s)) = Len(s.done) + 1
    BY <1>1, <2>4
  <2>7. ASSUME NEW i \in 1 .. Len(s.done) + 1
        PROVE  SectionOK(EndSection(s)[i], m)
    <3>1. CASE i = Len(s.done) + 1
      BY <2>3, <2>4, <2>5, <3>1
    <3>2. CASE i # Len(s.done) + 1
      <4>1. i \in 1 .. Len(s.done)
        BY <1>1, <3>2
      <4> QED
        BY <1>1, <2>4, <2>5, <3>2, <4>1
    <3> QED
      BY <3>1, <3>2
  <2> QED
    BY <2>6, <2>7
<1> QED
  BY <1>2, <1>3

LEMMA ReadOn ==
  ASSUME NEW m \in Nat, NEW s, ReadingOK(s, m), NEW l \in Lines, l.no = m + 1
  PROVE  ReadingOK(ReadLine(s, l), m + 1)
<1>1. /\ s \in Reading /\ s.text \in Seq(Lines) /\ Rising(s.text, m)
  BY DEF ReadingOK, Reading
<1>2. Rising(s.text, m + 1) /\ Rising(Append(s.text, l), m + 1)
  BY <1>1, RisesOn
<1>3. ReadLine(s, l) \in Reading
  BY <1>1, LineRead
<1>4. ASSUME NEW t, SectionOK(t, m)
      PROVE  SectionOK(t, m + 1)
  BY <1>4 DEF SectionOK, Rising
<1>5. CASE l.opens = "none"
  <2>1. ReadLine(s, l).text = Append(s.text, l) /\ ReadLine(s, l).done = s.done
    BY <1>1, <1>5 DEF ReadLine, Reading
  <2>2. \A i \in 1 .. Len(s.done) : SectionOK(s.done[i], m)
    BY DEF ReadingOK
  <2> QED
    BY <1>2, <1>3, <1>4, <2>1, <2>2 DEF ReadingOK
<1>6. CASE l.opens # "none"
  <2>1. ReadLine(s, l).text = <<>> /\ ReadLine(s, l).done = EndSection(s)
    BY <1>6 DEF ReadLine
  <2>2. \A i \in 1 .. Len(EndSection(s)) : SectionOK(EndSection(s)[i], m)
    BY EndOK
  <2>3. Rising(<<>>, m + 1)
    BY DEF Rising
  <2> QED
    BY <1>3, <1>4, <2>1, <2>2, <2>3 DEF ReadingOK
<1> QED
  BY <1>5, <1>6

Numbered(lines) == \A k \in 1 .. Len(lines) : lines[k].no = k

\* A section has lines, in the order of the article.
LEMMA SectionsRight ==
  ASSUME NEW lines \in Seq(Lines), Numbered(lines)
  PROVE  /\ SplitSections(lines) \in Seq(Section)
         /\ \A i \in 1 .. Len(SplitSections(lines)) : SectionOK(SplitSections(lines)[i], Len(lines))
<1> DEFINE n == Len(lines)
<1>1. PICK f : Reads(f, lines) /\ SplitSections(lines) = EndSection(f[n])
  BY SectionsRead
<1>2. f[0] = NothingRead /\ \A k \in 1 .. n : f[k] = ReadLine(f[k - 1], lines[k])
  BY <1>1 DEF Reads
<1>3. n \in Nat /\ \A k \in 1 .. n : lines[k] \in Lines /\ lines[k].no = k
  BY DEF Numbered
<1> HIDE DEF n
<1> DEFINE P == {k \in 0 .. n : ReadingOK(f[k], k)}
<1>4. 0 \in P
  <2>1. NothingRead \in Reading
    BY DEF NothingRead, Reading, SectionTypes
  <2>2. ReadingOK(NothingRead, 0)
    <3>1. NothingRead.text = <<>> /\ NothingRead.done = <<>> /\ Len(<<>>) = 0
      BY DEF NothingRead
    <3> QED
      BY <2>1, <3>1 DEF ReadingOK, Rising
  <2> QED
    BY <1>2, <1>3, <2>2
<1>5. ASSUME NEW k \in 1 .. n, k - 1 \in P
      PROVE  k \in P
  <2>1. k - 1 \in Nat /\ k - 1 + 1 = k
    OBVIOUS
  <2>2. ReadingOK(f[k - 1], k - 1)
    BY <1>5
  <2>3. lines[k] \in Lines /\ lines[k].no = k - 1 + 1
    BY <1>3
  <2>4. ReadingOK(ReadLine(f[k - 1], lines[k]), k - 1 + 1)
    BY <2>1, <2>2, <2>3, ReadOn
  <2>5. ReadingOK(f[k], k)
    BY <1>2, <2>1, <2>4
  <2> QED
    BY <2>5
<1>6. ReadingOK(f[n], n)
  <2>1. \A k \in 0 .. n : k \in P
    <3> HIDE DEF P
    <3> QED
      BY <1>3, <1>4, <1>5, UpTo
  <2> QED
    BY <1>3, <2>1
<1>7. f[n] \in Reading
  BY <1>6 DEF ReadingOK
<1> QED
  BY <1>1, <1>3, <1>6, <1>7, SectionEnds, EndOK DEF n

-----------------------------------------------------------------------------
(* Sequences of lines.                                                     *)

Ordered(s) == \A i, j \in 1 .. Len(s) : i < j => s[i].no < s[j].no
PieceSet == [lines : Seq(Lines), extra : Nat]

LEMMA AppendFacts ==
  ASSUME NEW S, NEW s \in Seq(S), NEW x \in S
  PROVE  /\ Append(s, x) \in Seq(S) /\ Append(s, x) # <<>>
         /\ Len(Append(s, x)) = Len(s) + 1 /\ Append(s, x)[Len(s) + 1] = x
         /\ \A i \in 1 .. Len(s) : Append(s, x)[i] = s[i]
         /\ ToSet(Append(s, x)) = ToSet(s) \union {x}
<1>1. /\ Append(s, x) \in Seq(S) /\ Append(s, x) # <<>>
      /\ Len(Append(s, x)) = Len(s) + 1 /\ Append(s, x)[Len(s) + 1] = x
      /\ \A i \in 1 .. Len(s) : Append(s, x)[i] = s[i]
      /\ DOMAIN Append(s, x) = 1 .. Len(s) + 1 /\ DOMAIN s = 1 .. Len(s) /\ Len(s) \in Nat
  OBVIOUS
<1> DEFINE t == Append(s, x)
           n == Len(s)
<1> HIDE DEF t, n
<1>2. {t[i] : i \in 1 .. n + 1} = {s[i] : i \in 1 .. n} \union {x}
  <2>1. \A i \in 1 .. n + 1 : i = n + 1 \/ i \in 1 .. n
    BY <1>1 DEF n
  <2>2. n + 1 \in 1 .. n + 1 /\ \A i \in 1 .. n : i \in 1 .. n + 1
    BY <1>1 DEF n
  <2>3. t[n + 1] = x /\ \A i \in 1 .. n : t[i] = s[i]
    BY <1>1 DEF t, n
  <2> QED
    BY <2>1, <2>2, <2>3
<1>3. ToSet(t) = ToSet(s) \union {x}
  BY <1>1, <1>2 DEF ToSet, t, n
<1> QED
  BY <1>1, <1>3 DEF t

LEMMA AppendOrdered ==
  ASSUME NEW s \in Seq(Lines), Ordered(s), NEW l \in Lines, \A x \in ToSet(s) : x.no < l.no
  PROVE  Ordered(Append(s, l))
<1> DEFINE t == Append(s, l)
           n == Len(s)
<1>1. n \in Nat /\ Len(t) = n + 1 /\ t[n + 1] = l /\ \A i \in 1 .. n : t[i] = s[i]
  OBVIOUS
<1>2. \A i \in 1 .. n : s[i].no < l.no
  BY DEF ToSet
<1>3. \A i, j \in 1 .. n : i < j => s[i].no < s[j].no
  BY DEF Ordered
<1> HIDE DEF t, n
<1>4. ASSUME NEW i \in 1 .. n + 1, NEW j \in 1 .. n + 1, i < j
      PROVE  t[i].no < t[j].no
  <2>1. i \in 1 .. n /\ t[i] = s[i]
    BY <1>1, <1>4
  <2>2. CASE j = n + 1
    BY <1>1, <1>2, <2>1, <2>2
  <2>3. CASE j # n + 1
    BY <1>1, <1>3, <1>4, <2>1, <2>3
  <2> QED
    BY <2>2, <2>3
<1>5. Ordered(t)
  BY <1>1, <1>4 DEF Ordered
<1> QED
  BY <1>5 DEF t

LEMMA HeadFacts ==
  ASSUME NEW S, NEW x \in S, NEW s \in Seq(S)
  PROVE  /\ <<x>> \o s \in Seq(S) /\ <<x>> \o s # <<>>
         /\ Len(<<x>> \o s) = Len(s) + 1 /\ (<<x>> \o s)[1] = x
         /\ \A i \in 2 .. Len(s) + 1 : (<<x>> \o s)[i] = s[i - 1]
         /\ ToSet(<<x>> \o s) = {x} \union ToSet(s)
<1> DEFINE t == <<x>> \o s
           n == Len(s)
<1>1. /\ t \in Seq(S) /\ Len(t) = n + 1 /\ n \in Nat /\ t[1] = x
      /\ \A i \in 2 .. n + 1 : t[i] = s[i - 1]
      /\ DOMAIN t = 1 .. n + 1 /\ DOMAIN s = 1 .. n
  OBVIOUS
<1> HIDE DEF t, n
<1>2. t # <<>>
  BY <1>1
<1>3. {t[i] : i \in 1 .. n + 1} = {x} \union {s[i] : i \in 1 .. n}
  <2>1. \A i \in 1 .. n + 1 : i = 1 \/ (i \in 2 .. n + 1 /\ i - 1 \in 1 .. n)
    BY <1>1
  <2>2. \A i \in 1 .. n : i + 1 \in 1 .. n + 1 /\ t[i + 1] = s[i]
    BY <1>1
  <2>3. 1 \in 1 .. n + 1
    BY <1>1
  <2> QED
    BY <1>1, <2>1, <2>2, <2>3
<1>4. ToSet(t) = {x} \union ToSet(s)
  BY <1>1, <1>3 DEF ToSet
<1> QED
  BY <1>1, <1>2, <1>4 DEF t, n

-----------------------------------------------------------------------------
(* Questions and answers.                                                  *)

Question(text, k) == text[k].mark = "question"

\* The lines that belong to question j.
Mine(text, j) ==
  {k \in 1 .. Len(text) :
     \/ j <= k /\ \A i \in j + 1 .. k : ~Question(text, i)
     \/ k < j /\ \A i \in 1 .. j - 1 : ~Question(text, i)}

Answering == [out : Seq(PieceSet), q : Seq(Lines), a : Seq(Lines)]
NoAnswers == [out |-> <<>>, q |-> <<>>, a |-> <<>>]

AnswerOK(ls, text, j) ==
  /\ j \in 1 .. Len(text) /\ Question(text, j)
  /\ ls \in Seq(Lines) /\ ls # <<>> /\ ls[1] = text[j]
  /\ ToSet(ls) = {text[k] : k \in Mine(text, j)}
  /\ \A i, k \in 2 .. Len(ls) : i < k => ls[i].no < ls[k].no

AnswersOK(out, text) ==
  /\ out \in Seq(PieceSet)
  /\ \A p \in 1 .. Len(out) : \E j : AnswerOK(out[p].lines, text, j)
  /\ \A p, r \in 1 .. Len(out) : p < r => out[p].lines[1].no < out[r].lines[1].no

FaqOK(s, text, m) ==
  /\ s \in Answering /\ Ordered(s.a) /\ ToSet(s.a) \subseteq {text[k] : k \in 1 .. m}
  /\ AnswersOK(s.out, text)
  /\ \/ /\ s.q = <<>> /\ s.out = <<>> /\ \A k \in 1 .. m : ~Question(text, k)
        /\ ToSet(s.a) = {text[k] : k \in 1 .. m}
     \/ \E j \in 1 .. m :
          /\ Question(text, j) /\ \A k \in j + 1 .. m : ~Question(text, k)
          /\ s.q = <<text[j]>>
          /\ {text[j]} \union ToSet(s.a) = {text[k] : k \in Mine(text, j) \intersect (1 .. m)}
          /\ \A p \in 1 .. Len(s.out) : s.out[p].lines[1].no < text[j].no

LEMMA AnswerEnds ==
  ASSUME NEW s \in Answering, s.q = <<>> \/ \E l \in Lines : s.q = <<l>>
  PROVE  EndAnswer(s) \in Seq(PieceSet)
<1>1. s.out \in Seq(PieceSet) /\ s.q \in Seq(Lines) /\ s.a \in Seq(Lines)
  BY DEF Answering
<1>2. CASE s.q = <<>>
  BY <1>1, <1>2 DEF EndAnswer
<1>3. CASE s.q # <<>>
  <2>1. s.q \o s.a \in Seq(Lines)
    BY <1>1
  <2>2. Piece(s.q \o s.a, IF s.a = <<>> THEN 1 ELSE 2) \in PieceSet
    BY <2>1 DEF Piece, PieceSet
  <2> QED
    BY <1>1, <1>3, <2>2 DEF EndAnswer
<1> QED
  BY <1>2, <1>3

LEMMA AnswerClosed ==
  ASSUME NEW text \in Seq(Lines), NEW m \in 0 .. Len(text), NEW s, FaqOK(s, text, m),
         m = Len(text) \/ Question(text, m + 1)
  PROVE  /\ AnswersOK(EndAnswer(s), text)
         /\ Ordered(text) /\ m < Len(text)
              => \A p \in 1 .. Len(EndAnswer(s)) : EndAnswer(s)[p].lines[1].no < text[m + 1].no
<1>1. /\ s.out \in Seq(PieceSet) /\ s.q \in Seq(Lines) /\ s.a \in Seq(Lines)
      /\ AnswersOK(s.out, text) /\ Ordered(s.a)
  BY DEF FaqOK, Answering
<1>2. CASE s.q = <<>>
  <2>1. s.out = <<>> /\ EndAnswer(s) = s.out
    BY <1>2 DEF FaqOK, EndAnswer
  <2> QED
    BY <1>1, <2>1
<1>3. CASE s.q # <<>>
  <2>1. PICK j \in 1 .. m :
          /\ Question(text, j) /\ \A k \in j + 1 .. m : ~Question(text, k)
          /\ s.q = <<text[j]>>
          /\ {text[j]} \union ToSet(s.a) = {text[k] : k \in Mine(text, j) \intersect (1 .. m)}
          /\ \A p \in 1 .. Len(s.out) : s.out[p].lines[1].no < text[j].no
    BY <1>3 DEF FaqOK
  <2> DEFINE ls == <<text[j]>> \o s.a
             new == Piece(ls, IF s.a = <<>> THEN 1 ELSE 2)
             n == Len(s.out)
  <2>2. j \in 1 .. Len(text) /\ text[j] \in Lines
    OBVIOUS
  <2>3. Mine(text, j) \subseteq 1 .. m
    <3>1. ASSUME NEW k \in Mine(text, j), k > m
          PROVE  FALSE
      <4>1. k \in 1 .. Len(text) /\ m + 1 \in j + 1 .. k
        BY <3>1 DEF Mine
      <4>2. m # Len(text)
        BY <3>1, <4>1
      <4> QED
        BY <2>2, <3>1, <4>1, <4>2 DEF Mine
    <3>2. \A k \in Mine(text, j) : k \in 1 .. Len(text)
      BY DEF Mine
    <3> QED
      BY <3>1, <3>2
  <2>4. /\ ls \in Seq(Lines) /\ ls # <<>> /\ ls[1] = text[j] /\ Len(ls) = Len(s.a) + 1
        /\ \A i \in 2 .. Len(s.a) + 1 : ls[i] = s.a[i - 1]
        /\ ToSet(ls) = {text[j]} \union ToSet(s.a)
    BY <1>1, <2>2, HeadFacts
  <2> HIDE DEF ls
  <2>5. ToSet(ls) = {text[k] : k \in Mine(text, j)}
    <3>1. Mine(text, j) \intersect (1 .. m) = Mine(text, j)
      BY <2>3
    <3> QED
      BY <2>1, <2>4, <3>1
  <2>6. ASSUME NEW i \in 2 .. Len(ls), NEW k \in 2 .. Len(ls), i < k
        PROVE  ls[i].no < ls[k].no
    <3>1. /\ i - 1 \in 1 .. Len(s.a) /\ k - 1 \in 1 .. Len(s.a) /\ i - 1 < k - 1
          /\ ls[i] = s.a[i - 1] /\ ls[k] = s.a[k - 1]
      BY <1>1, <2>4, <2>6
    <3> QED
      BY <1>1, <3>1 DEF Ordered
  <2>7. AnswerOK(ls, text, j)
    BY <2>1, <2>2, <2>4, <2>5, <2>6 DEF AnswerOK
  <2>8. new \in PieceSet /\ new.lines = ls
    BY <2>4 DEF Piece, PieceSet
  <2>9. EndAnswer(s) = Append(s.out, new)
    BY <1>3, <2>1 DEF EndAnswer, ls
  <2> DEFINE e == Append(s.out, new)
  <2> HIDE DEF new
  <2>10. /\ e \in Seq(PieceSet) /\ Len(e) = n + 1 /\ n \in Nat /\ e[n + 1] = new
         /\ \A p \in 1 .. n : e[p] = s.out[p]
    BY <1>1, <2>8, AppendFacts
  <2> HIDE DEF e, n
  <2>11. \A p \in 1 .. n + 1 : p = n + 1 \/ p \in 1 .. n
    BY <2>10
  <2>12. \A p \in 1 .. n : e[p].lines[1].no < text[j].no /\ \E i : AnswerOK(e[p].lines, text, i)
    BY <1>1, <2>1, <2>10 DEF AnswersOK, n
  <2>13. \A p \in 1 .. n + 1 : \E i : AnswerOK(e[p].lines, text, i)
    BY <2>7, <2>8, <2>10, <2>11, <2>12
  <2>14. ASSUME NEW p \in 1 .. n + 1, NEW r \in 1 .. n + 1, p < r
         PROVE  e[p].lines[1].no < e[r].lines[1].no
    <3>1. p \in 1 .. n
      BY <2>10, <2>14
    <3>2. CASE r = n + 1
      BY <2>4, <2>8, <2>10, <2>12, <3>1, <3>2
    <3>3. CASE r \in 1 .. n
      BY <1>1, <2>10, <2>14, <3>1, <3>3 DEF AnswersOK, n
    <3> QED
      BY <2>11, <3>2, <3>3
  <2>15. AnswersOK(e, text)
    BY <2>10, <2>13, <2>14 DEF AnswersOK
  <2>16. ASSUME Ordered(text), m < Len(text), NEW p \in 1 .. n + 1
         PROVE  e[p].lines[1].no < text[m + 1].no
    <3>1. text[j].no < text[m + 1].no
      BY <2>16 DEF Ordered
    <3>2. CASE p = n + 1
      BY <2>4, <2>8, <2>10, <3>1, <3>2
    <3>3. CASE p \in 1 .. n
      <4>1. e[p].lines[1].no < text[j].no
        BY <2>12, <3>3
      <4>2. e[p].lines[1] \in Lines /\ text[m + 1] \in Lines
        <5>1. PICK i : AnswerOK(e[p].lines, text, i)
          BY <2>13
        <5>2. e[p].lines[1] = text[i] /\ i \in 1 .. Len(text)
          BY <5>1 DEF AnswerOK
        <5>3. m + 1 \in 1 .. Len(text)
          BY <2>16
        <5> QED
          BY <5>2, <5>3
      <4>3. e[p].lines[1].no \in Nat /\ text[m + 1].no \in Nat /\ text[j].no \in Nat
        BY <2>2, <4>2 DEF Lines
      <4> QED
        BY <3>1, <4>1, <4>3
    <3> QED
      BY <2>11, <3>2, <3>3
  <2> QED
    BY <2>9, <2>10, <2>15, <2>16 DEF e
<1> QED
  BY <1>2, <1>3

LEMMA FaqStep ==
  ASSUME NEW text \in Seq(Lines), Ordered(text), NEW m \in 0 .. Len(text) - 1,
         NEW s, FaqOK(s, text, m)
  PROVE  FaqOK(ReadFaq(s, text[m + 1]), text, m + 1)
<1> DEFINE l == text[m + 1]
           t == ReadFaq(s, l)
<1>1. /\ s \in Answering /\ s.out \in Seq(PieceSet) /\ s.q \in Seq(Lines) /\ s.a \in Seq(Lines)
      /\ AnswersOK(s.out, text) /\ Ordered(s.a) /\ ToSet(s.a) \subseteq {text[k] : k \in 1 .. m}
  BY DEF FaqOK, Answering
<1>2. m + 1 \in 1 .. Len(text) /\ l \in Lines /\ m \in Nat /\ m + 1 \in 1 .. m + 1
  OBVIOUS
<1>3. \A k \in 1 .. m : k \in 1 .. Len(text) /\ k \in 1 .. m + 1 /\ text[k].no < l.no
  BY <1>2 DEF Ordered
<1>4. \A k \in 1 .. m + 1 : k = m + 1 \/ k \in 1 .. m
  BY <1>2
<1>5. {text[k] : k \in 1 .. m + 1} = {text[k] : k \in 1 .. m} \union {l}
  BY <1>2, <1>3, <1>4
<1>6. s.q # <<>> =>
        \E j \in 1 .. m :
          /\ Question(text, j) /\ \A k \in j + 1 .. m : ~Question(text, k)
          /\ s.q = <<text[j]>>
          /\ {text[j]} \union ToSet(s.a) = {text[k] : k \in Mine(text, j) \intersect (1 .. m)}
          /\ \A p \in 1 .. Len(s.out) : s.out[p].lines[1].no < text[j].no
  BY DEF FaqOK
<1>7. s.q = <<>> => /\ s.out = <<>> /\ \A k \in 1 .. m : ~Question(text, k)
                    /\ ToSet(s.a) = {text[k] : k \in 1 .. m}
  BY DEF FaqOK
<1>8. CASE ~Question(text, m + 1)
  <2> DEFINE a == Append(s.a, l)
  <2>1. t = [s EXCEPT !.a = a]
    BY <1>8 DEF ReadFaq, Question
  <2>2. a \in Seq(Lines) /\ ToSet(a) = ToSet(s.a) \union {l}
    <3> HIDE DEF l
    <3> QED
      BY <1>1, <1>2, AppendFacts
  <2>3. Ordered(a)
    <3>1. \A x \in ToSet(s.a) : x.no < l.no
      BY <1>1, <1>3
    <3> HIDE DEF l
    <3> QED
      BY <1>1, <1>2, <3>1, AppendOrdered
  <2> HIDE DEF a
  <2>4. t \in Answering /\ t.a = a /\ t.q = s.q /\ t.out = s.out
    BY <1>1, <2>1, <2>2 DEF Answering
  <2> HIDE DEF l, t
  <2>5. ToSet(t.a) \subseteq {text[k] : k \in 1 .. m + 1}
    BY <1>1, <1>5, <2>2, <2>4
  <2>6. CASE s.q = <<>>
    <3>1. \A k \in 1 .. m + 1 : ~Question(text, k)
      BY <1>4, <1>7, <1>8, <2>6
    <3>2. ToSet(t.a) = {text[k] : k \in 1 .. m + 1}
      BY <1>5, <1>7, <2>2, <2>4, <2>6
    <3>3. t.q = <<>> /\ t.out = <<>>
      BY <1>7, <2>4, <2>6
    <3>4. FaqOK(t, text, m + 1)
      BY <1>1, <2>3, <2>4, <2>5, <3>1, <3>2, <3>3 DEF FaqOK
    <3> QED
      BY <3>4 DEF t, l
  <2>7. CASE s.q # <<>>
    <3>1. PICK j \in 1 .. m :
          /\ Question(text, j) /\ \A k \in j + 1 .. m : ~Question(text, k)
          /\ s.q = <<text[j]>>
          /\ {text[j]} \union ToSet(s.a) = {text[k] : k \in Mine(text, j) \intersect (1 .. m)}
          /\ \A p \in 1 .. Len(s.out) : s.out[p].lines[1].no < text[j].no
      BY <1>6, <2>7
    <3>2. \A k \in j + 1 .. m + 1 : ~Question(text, k)
      <4>1. \A k \in j + 1 .. m + 1 : k = m + 1 \/ k \in j + 1 .. m
        BY <1>2
      <4> QED
        BY <1>8, <3>1, <4>1
    <3>3. m + 1 \in Mine(text, j)
      BY <1>2, <3>2 DEF Mine
    <3>4. Mine(text, j) \intersect (1 .. m + 1) = (Mine(text, j) \intersect (1 .. m)) \union {m + 1}
      BY <1>2, <1>3, <1>4, <3>3
    <3>5. {text[k] : k \in Mine(text, j) \intersect (1 .. m + 1)}
            = {text[k] : k \in Mine(text, j) \intersect (1 .. m)} \union {l}
      BY <3>4 DEF l
    <3>6. {text[j]} \union ToSet(t.a) = {text[k] : k \in Mine(text, j) \intersect (1 .. m + 1)}
      BY <2>2, <2>4, <3>1, <3>5
    <3>7. j \in 1 .. m + 1
      BY <1>3
    <3>8. FaqOK(t, text, m + 1)
      BY <1>1, <2>3, <2>4, <2>5, <3>1, <3>2, <3>6, <3>7 DEF FaqOK
    <3> QED
      BY <3>8 DEF t, l
  <2> QED
    BY <2>6, <2>7 DEF t, l
<1>9. CASE Question(text, m + 1)
  <2> DEFINE a == IF s.q = <<>> THEN s.a ELSE <<>>
  <2>1. t = [out |-> EndAnswer(s), q |-> <<l>>, a |-> a]
    BY <1>9 DEF ReadFaq, Question
  <2>2. /\ AnswersOK(EndAnswer(s), text)
        /\ \A p \in 1 .. Len(EndAnswer(s)) : EndAnswer(s)[p].lines[1].no < l.no
    <3>1. m \in 0 .. Len(text) /\ m < Len(text)
      BY <1>2
    <3> QED
      BY <1>9, <3>1, AnswerClosed
  <2>3. EndAnswer(s) \in Seq(PieceSet)
    BY <2>2 DEF AnswersOK
  <2>4. a \in Seq(Lines) /\ Ordered(a) /\ ToSet(a) \subseteq {text[k] : k \in 1 .. m + 1}
    <3>1. CASE s.q = <<>>
      BY <1>1, <1>5, <3>1
    <3>2. CASE s.q # <<>>
      <4>1. a = <<>>
        BY <3>2
      <4> HIDE DEF a
      <4> QED
        BY <4>1 DEF Ordered, ToSet
    <3> QED
      BY <3>1, <3>2
  <2>5. t \in Answering /\ t.a = a /\ t.q = <<l>> /\ t.out = EndAnswer(s)
    <3>1. <<l>> \in Seq(Lines)
      BY <1>2
    <3> HIDE DEF l, a
    <3> QED
      BY <2>1, <2>3, <2>4, <3>1 DEF Answering
  <2>6. {l} \union ToSet(a) = {text[k] : k \in Mine(text, m + 1) \intersect (1 .. m + 1)}
    <3>1. m + 1 \in Mine(text, m + 1)
      <4>1. m + 1 <= m + 1 /\ m + 1 + 1 .. m + 1 = {}
        BY <1>2
      <4> QED
        BY <1>2, <4>1 DEF Mine
    <3>2. CASE s.q = <<>>
      <4>1. a = s.a /\ \A i \in 1 .. (m + 1) - 1 : ~Question(text, i)
        BY <1>2, <1>7, <3>2
      <4>2. \A k \in 1 .. m : k < m + 1 /\ k \in Mine(text, m + 1)
        BY <1>2, <1>3, <4>1 DEF Mine
      <4>3. Mine(text, m + 1) \intersect (1 .. m + 1) = 1 .. m + 1
        BY <1>4, <3>1, <4>2
      <4> HIDE DEF a, l
      <4> QED
        BY <1>5, <1>7, <3>2, <4>1, <4>3
    <3>3. CASE s.q # <<>>
      <4>1. PICK j \in 1 .. m : Question(text, j)
        BY <1>6, <3>3
      <4>2. a = <<>>
        BY <3>3
      <4>3. ASSUME NEW k \in 1 .. m
            PROVE  k \notin Mine(text, m + 1)
        <5>1. ~(m + 1 <= k) /\ j \in 1 .. (m + 1) - 1
          BY <1>2
        <5> QED
          BY <4>1, <5>1 DEF Mine
      <4>4. Mine(text, m + 1) \intersect (1 .. m + 1) = {m + 1}
        BY <1>2, <1>4, <3>1, <4>3
      <4>5. ToSet(a) = {}
        <5> HIDE DEF a
        <5> QED
          BY <4>2 DEF ToSet
      <4> HIDE DEF a
      <4> QED
        BY <4>4, <4>5
    <3> QED
      BY <3>2, <3>3
  <2>7. \A k \in (m + 1) + 1 .. m + 1 : ~Question(text, k)
    BY <1>2
  <2> DEFINE i == m + 1
  <2>8. /\ i \in 1 .. m + 1 /\ Question(text, i) /\ \A k \in i + 1 .. m + 1 : ~Question(text, k)
        /\ t.q = <<text[i]>>
        /\ {text[i]} \union ToSet(t.a) = {text[k] : k \in Mine(text, i) \intersect (1 .. m + 1)}
        /\ \A p \in 1 .. Len(t.out) : t.out[p].lines[1].no < text[i].no
    BY <1>2, <1>9, <2>2, <2>5, <2>6, <2>7
  <2> HIDE DEF l, t, a, i
  <2> QED
    BY <2>2, <2>4, <2>5, <2>8 DEF FaqOK, t, l
<1> QED
  BY <1>8, <1>9

AnswersRead(f, text) ==
  f[0] = NoAnswers /\ \A k \in 1 .. Len(text) : f[k] = ReadFaq(f[k - 1], text[k])

LEMMA FaqStart ==
  ASSUME NEW text \in Seq(Lines)
  PROVE  FaqOK(NoAnswers, text, 0)
<1>1. /\ NoAnswers.out = <<>> /\ NoAnswers.q = <<>> /\ NoAnswers.a = <<>>
      /\ NoAnswers \in Answering
  BY DEF NoAnswers, Answering
<1>2. Ordered(<<>>) /\ ToSet(<<>>) = {} /\ AnswersOK(<<>>, text)
  BY DEF Ordered, ToSet, AnswersOK
<1> QED
  BY <1>1, <1>2 DEF FaqOK

LEMMA FaqRead ==
  ASSUME NEW text \in Seq(Lines), Ordered(text)
  PROVE  \E f : AnswersRead(f, text) /\ SplitFaq(text) = EndAnswer(f[Len(text)])
<1> DEFINE n == Len(text)
           A == {s \in Answering : s.q = <<>> \/ \E l \in Lines : s.q = <<l>>}
           step == [p \in A \X (1 .. n) |-> ReadFaq(p[1], text[p[2]])]
           next(t) == [k \in 0 .. n |-> IF k = 0 THEN NoAnswers ELSE ReadFaq(t[k - 1], text[k])]
           read == CHOOSE t : t = next(t)
<1>1. n \in Nat /\ \A k \in 1 .. n : text[k] \in Lines
  OBVIOUS
<1>2. ASSUME NEW s \in A, NEW l \in Lines
      PROVE  ReadFaq(s, l) \in A
  <2>1. /\ s.out \in Seq(PieceSet) /\ s.q \in Seq(Lines) /\ s.a \in Seq(Lines)
        /\ s.q = <<>> \/ \E x \in Lines : s.q = <<x>>
    BY DEF Answering
  <2>2. CASE l.mark # "question"
    <3>1. ReadFaq(s, l) = [s EXCEPT !.a = Append(s.a, l)] /\ Append(s.a, l) \in Seq(Lines)
      BY <2>1, <2>2 DEF ReadFaq
    <3>2. ReadFaq(s, l) \in Answering /\ ReadFaq(s, l).q = s.q
      BY <2>1, <3>1 DEF Answering
    <3> QED
      BY <2>1, <3>2
  <2>3. CASE l.mark = "question"
    <3>1. EndAnswer(s) \in Seq(PieceSet)
      BY <2>1, AnswerEnds
    <3> DEFINE a == IF s.q = <<>> THEN s.a ELSE <<>>
    <3>2. ReadFaq(s, l) = [out |-> EndAnswer(s), q |-> <<l>>, a |-> a]
      BY <2>3 DEF ReadFaq
    <3>3. a \in Seq(Lines) /\ <<l>> \in Seq(Lines)
      BY <2>1
    <3> HIDE DEF a
    <3>4. ReadFaq(s, l) \in Answering /\ ReadFaq(s, l).q = <<l>>
      BY <3>1, <3>2, <3>3 DEF Answering
    <3> QED
      BY <3>4
  <2> QED
    BY <2>2, <2>3
<1>3. step \in [A \X (1 .. n) -> A]
  <2> HIDE DEF n, A
  <2> QED
    BY <1>1, <1>2
<1>4. NoAnswers \in A
  BY DEF NoAnswers, Answering
<1>5. PICK f : Scans(f, step, NoAnswers, n, A)
  <2> HIDE DEF step, n, A
  <2> QED
    BY <1>1, <1>3, <1>4, Scan
<1>6. f = next(f)
  <2> HIDE DEF n, A
  <2>1. /\ f \in [0 .. n -> A] /\ f[0] = NoAnswers
        /\ \A k \in 1 .. n : f[k] = step[<<f[k - 1], k>>]
    <3> HIDE DEF step
    <3> QED
      BY <1>5 DEF Scans
  <2>2. ASSUME NEW k \in 1 .. n
        PROVE  f[k] = ReadFaq(f[k - 1], text[k])
    <3>1. <<f[k - 1], k>> \in A \X (1 .. n)
      BY <1>1, <2>1
    <3> QED
      BY <2>1, <3>1
  <2>3. \A k \in 0 .. n : k # 0 => k \in 1 .. n
    OBVIOUS
  <2>4. \A k \in 0 .. n : f[k] = IF k = 0 THEN NoAnswers ELSE ReadFaq(f[k - 1], text[k])
    BY <2>1, <2>2, <2>3
  <2>5. f = [k \in 0 .. n |-> f[k]]
    BY <2>1
  <2> QED
    BY <2>4, <2>5
<1>7. read = next(read)
  <2> HIDE DEF next
  <2> QED
    BY <1>6
<1>8. SplitFaq(text) = EndAnswer(read[n])
  BY DEF SplitFaq, NoAnswers
<1> HIDE DEF read
<1>9. AnswersRead(read, text)
  <2>1. read[0] = NoAnswers /\ \A k \in 1 .. n : read[k] = ReadFaq(read[k - 1], text[k])
    <3> HIDE DEF n
    <3>1. 0 \in 0 .. n /\ \A k \in 1 .. n : k # 0 /\ k \in 0 .. n
      BY <1>1
    <3> QED
      BY <1>7, <3>1, Zenon
  <2> QED
    BY <2>1 DEF AnswersRead
<1> QED
  BY <1>8, <1>9

\* A piece of a FAQ is a question and what belongs to it.
LEMMA FaqRight ==
  ASSUME NEW text \in Seq(Lines), Ordered(text)
  PROVE  AnswersOK(SplitFaq(text), text)
<1> DEFINE n == Len(text)
           P(f) == {k \in 0 .. n : FaqOK(f[k], text, k)}
<1>1. PICK f : AnswersRead(f, text) /\ SplitFaq(text) = EndAnswer(f[n])
  BY FaqRead
<1>2. f[0] = NoAnswers /\ \A k \in 1 .. n : f[k] = ReadFaq(f[k - 1], text[k])
  BY <1>1 DEF AnswersRead
<1>3. n \in Nat
  OBVIOUS
<1>4. 0 \in P(f)
  BY <1>2, FaqStart
<1>5. ASSUME NEW k \in 1 .. n, k - 1 \in P(f)
      PROVE  k \in P(f)
  <2>1. k - 1 \in 0 .. Len(text) - 1 /\ k - 1 + 1 = k
    OBVIOUS
  <2>2. FaqOK(f[k - 1], text, k - 1)
    BY <1>5
  <2>3. FaqOK(ReadFaq(f[k - 1], text[k - 1 + 1]), text, k - 1 + 1)
    BY <2>1, <2>2, FaqStep
  <2> QED
    BY <1>2, <2>1, <2>3
<1>6. FaqOK(f[n], text, n)
  <2>1. \A k \in 0 .. n : k \in P(f)
    <3> HIDE DEF P, n
    <3> QED
      BY <1>3, <1>4, <1>5, UpTo
  <2> QED
    BY <1>3, <2>1
<1>7. n \in 0 .. Len(text)
  OBVIOUS
<1> QED
  BY <1>1, <1>6, <1>7, AnswerClosed

-----------------------------------------------------------------------------
(* Key points.                                                             *)

Pointing == [out : Seq(PieceSet), held : Seq(Lines)]
NoPoints == [out |-> <<>>, held |-> <<>>]

\* Pieces hold lines of the first m, in their order within and between them.
GroupsOK(out, text, m) ==
  /\ out \in Seq(PieceSet)
  /\ \A p \in 1 .. Len(out) : /\ Ordered(out[p].lines)
                              /\ ToSet(out[p].lines) \subseteq {text[k] : k \in 1 .. m}
  /\ \A p, r \in 1 .. Len(out) :
       p < r => \A x \in ToSet(out[p].lines), y \in ToSet(out[r].lines) : x.no < y.no

Grouped(out, x) == \E p \in 1 .. Len(out) : x \in ToSet(out[p].lines)

PointOK(s, text, m) ==
  /\ s \in Pointing /\ GroupsOK(s.out, text, m)
  /\ Ordered(s.held) /\ ToSet(s.held) \subseteq {text[k] : k \in 1 .. m}
  /\ \A p \in 1 .. Len(s.out) :
       \A x \in ToSet(s.out[p].lines), y \in ToSet(s.held) : x.no < y.no
  /\ \A k \in 1 .. m : text[k] \in ToSet(s.held) \/ Grouped(s.out, text[k])

LEMMA GroupAdded ==
  ASSUME NEW text, NEW m, NEW out, GroupsOK(out, text, m),
         NEW ls \in Seq(Lines), Ordered(ls), ToSet(ls) \subseteq {text[k] : k \in 1 .. m},
         \A p \in 1 .. Len(out) :
           \A x \in ToSet(out[p].lines), y \in ToSet(ls) : x.no < y.no
  PROVE  /\ GroupsOK(Append(out, Piece(ls, 0)), text, m)
         /\ \A x : Grouped(out, x) \/ x \in ToSet(ls) => Grouped(Append(out, Piece(ls, 0)), x)
<1> DEFINE new == Piece(ls, 0)
           e == Append(out, new)
           n == Len(out)
<1>1. /\ out \in Seq(PieceSet)
      /\ \A p \in 1 .. n : /\ Ordered(out[p].lines)
                           /\ ToSet(out[p].lines) \subseteq {text[k] : k \in 1 .. m}
      /\ \A p, r \in 1 .. n :
           p < r => \A x \in ToSet(out[p].lines), y \in ToSet(out[r].lines) : x.no < y.no
  BY DEF GroupsOK
<1>2. new \in PieceSet /\ new.lines = ls
  BY DEF Piece, PieceSet
<1> HIDE DEF new
<1>3. /\ e \in Seq(PieceSet) /\ Len(e) = n + 1 /\ n \in Nat /\ e[n + 1] = new
      /\ \A p \in 1 .. n : e[p] = out[p]
  BY <1>1, <1>2, AppendFacts
<1>4. \A p \in 1 .. n : \A x \in ToSet(out[p].lines), y \in ToSet(ls) : x.no < y.no
  OBVIOUS
<1> HIDE DEF e, n
<1>5. \A p \in 1 .. n + 1 : p = n + 1 \/ p \in 1 .. n
  BY <1>3
<1>6. \A p \in 1 .. n + 1 : /\ Ordered(e[p].lines)
                            /\ ToSet(e[p].lines) \subseteq {text[k] : k \in 1 .. m}
  BY <1>1, <1>2, <1>3, <1>5
<1>7. ASSUME NEW p \in 1 .. n + 1, NEW r \in 1 .. n + 1, p < r
      PROVE  \A x \in ToSet(e[p].lines), y \in ToSet(e[r].lines) : x.no < y.no
  <2>1. p \in 1 .. n
    BY <1>3, <1>7
  <2>2. CASE r = n + 1
    BY <1>2, <1>3, <1>4, <2>1, <2>2
  <2>3. CASE r \in 1 .. n
    BY <1>1, <1>3, <1>7, <2>1, <2>3
  <2> QED
    BY <1>5, <2>2, <2>3
<1>8. GroupsOK(e, text, m)
  BY <1>3, <1>6, <1>7 DEF GroupsOK
<1>9. ASSUME NEW x, Grouped(out, x) \/ x \in ToSet(ls)
      PROVE  Grouped(e, x)
  <2>1. CASE Grouped(out, x)
    <3>1. PICK p \in 1 .. n : x \in ToSet(out[p].lines)
      BY <2>1 DEF Grouped, n
    <3>2. p \in 1 .. n + 1 /\ e[p] = out[p]
      BY <1>3
    <3> QED
      BY <1>3, <3>1, <3>2 DEF Grouped
  <2>2. CASE x \in ToSet(ls)
    <3>1. n + 1 \in 1 .. n + 1
      BY <1>3
    <3> QED
      BY <1>2, <1>3, <2>2, <3>1 DEF Grouped
  <2> QED
    BY <1>9, <2>1, <2>2
<1> QED
  BY <1>8, <1>9 DEF e, new

LEMMA PointTyped ==
  ASSUME NEW s \in Pointing, NEW l \in Lines
  PROVE  ReadPoint(s, l) \in Pointing
<1> DEFINE held == Append(s.held, l)
<1>1. s.out \in Seq(PieceSet) /\ held \in Seq(Lines) /\ s.held \in Seq(Lines)
  BY DEF Pointing
<1>2. ReadPoint(s, l) = IF Words(held) >= PointWords
                        THEN [out |-> Append(s.out, Piece(held, 0)), held |-> <<>>]
                        ELSE [s EXCEPT !.held = held]
  BY DEF ReadPoint
<1> HIDE DEF held
<1>3. Append(s.out, Piece(held, 0)) \in Seq(PieceSet) /\ <<>> \in Seq(Lines)
  <2>1. Piece(held, 0) \in PieceSet
    BY <1>1 DEF Piece, PieceSet
  <2> QED
    BY <1>1, <2>1
<1>4. [out |-> Append(s.out, Piece(held, 0)), held |-> <<>>] \in Pointing
  BY <1>3 DEF Pointing
<1>5. [s EXCEPT !.held = held] \in Pointing
  BY <1>1 DEF Pointing
<1> QED
  BY <1>2, <1>4, <1>5

LEMMA PointStep ==
  ASSUME NEW text \in Seq(Lines), Ordered(text), NEW m \in 0 .. Len(text) - 1,
         NEW s, PointOK(s, text, m)
  PROVE  PointOK(ReadPoint(s, text[m + 1]), text, m + 1)
<1> DEFINE l == text[m + 1]
           held == Append(s.held, l)
           t == ReadPoint(s, l)
<1>1. /\ s \in Pointing /\ s.out \in Seq(PieceSet) /\ s.held \in Seq(Lines)
      /\ GroupsOK(s.out, text, m) /\ Ordered(s.held)
      /\ ToSet(s.held) \subseteq {text[k] : k \in 1 .. m}
      /\ \A p \in 1 .. Len(s.out) :
           \A x \in ToSet(s.out[p].lines), y \in ToSet(s.held) : x.no < y.no
      /\ \A k \in 1 .. m : text[k] \in ToSet(s.held) \/ Grouped(s.out, text[k])
  BY DEF PointOK, Pointing
<1>2. m + 1 \in 1 .. Len(text) /\ l \in Lines /\ m \in Nat /\ m + 1 \in 1 .. m + 1
  OBVIOUS
<1>3. \A k \in 1 .. m : k \in 1 .. Len(text) /\ k \in 1 .. m + 1 /\ text[k].no < l.no
  BY <1>2 DEF Ordered
<1>4. \A k \in 1 .. m + 1 : k = m + 1 \/ k \in 1 .. m
  BY <1>2
<1>5. {text[k] : k \in 1 .. m + 1} = {text[k] : k \in 1 .. m} \union {l}
  BY <1>2, <1>3, <1>4
<1>6. held \in Seq(Lines) /\ ToSet(held) = ToSet(s.held) \union {l}
  <2> HIDE DEF l
  <2> QED
    BY <1>1, <1>2, AppendFacts
<1>7. Ordered(held)
  <2>1. \A x \in ToSet(s.held) : x.no < l.no
    BY <1>1, <1>3
  <2> HIDE DEF l
  <2> QED
    BY <1>1, <1>2, <2>1, AppendOrdered
<1>8. t = IF Words(held) >= PointWords
          THEN [out |-> Append(s.out, Piece(held, 0)), held |-> <<>>]
          ELSE [s EXCEPT !.held = held]
  BY DEF ReadPoint
<1>9. t \in Pointing
  BY <1>1, <1>2, PointTyped
<1> HIDE DEF held, t
<1>10. GroupsOK(s.out, text, m + 1)
  <2>1. \A p \in 1 .. Len(s.out) : ToSet(s.out[p].lines) \subseteq {text[k] : k \in 1 .. m + 1}
    BY <1>1, <1>5 DEF GroupsOK
  <2> QED
    BY <1>1, <2>1 DEF GroupsOK
<1>11. ToSet(held) \subseteq {text[k] : k \in 1 .. m + 1}
  BY <1>1, <1>5, <1>6
<1>12. \A p \in 1 .. Len(s.out) :
         \A x \in ToSet(s.out[p].lines), y \in ToSet(held) : x.no < y.no
  <2>1. \A p \in 1 .. Len(s.out) : \A x \in ToSet(s.out[p].lines) : x.no < l.no
    BY <1>1, <1>3 DEF GroupsOK
  <2> QED
    BY <1>1, <1>6, <2>1
<1>13. \A k \in 1 .. m + 1 : text[k] \in ToSet(held) \/ Grouped(s.out, text[k])
  BY <1>1, <1>4, <1>6
<1>14. CASE Words(held) >= PointWords
  <2>1. t.out = Append(s.out, Piece(held, 0)) /\ t.held = <<>>
    BY <1>8, <1>14
  <2>2. /\ GroupsOK(t.out, text, m + 1)
        /\ \A x : Grouped(s.out, x) \/ x \in ToSet(held) => Grouped(t.out, x)
    BY <1>6, <1>7, <1>10, <1>11, <1>12, <2>1, GroupAdded
  <2>3. Ordered(t.held) /\ ToSet(t.held) = {}
    BY <2>1 DEF Ordered, ToSet
  <2>4. PointOK(t, text, m + 1)
    BY <1>9, <1>13, <2>2, <2>3 DEF PointOK
  <2> QED
    BY <2>4 DEF t
<1>15. CASE ~(Words(held) >= PointWords)
  <2>1. t.out = s.out /\ t.held = held
    BY <1>1, <1>8, <1>15 DEF Pointing
  <2>2. PointOK(t, text, m + 1)
    BY <1>7, <1>9, <1>10, <1>11, <1>12, <1>13, <2>1 DEF PointOK
  <2> QED
    BY <2>2 DEF t
<1> QED
  BY <1>14, <1>15

PointsRead(f, text) ==
  f[0] = NoPoints /\ \A k \in 1 .. Len(text) : f[k] = ReadPoint(f[k - 1], text[k])

LEMMA PointRead ==
  ASSUME NEW text \in Seq(Lines)
  PROVE  \E f : PointsRead(f, text) /\ SplitKeyPoints(text) = EndPoint(f[Len(text)])
<1> DEFINE n == Len(text)
           step == [p \in Pointing \X (1 .. n) |-> ReadPoint(p[1], text[p[2]])]
           next(t) == [k \in 0 .. n |-> IF k = 0 THEN NoPoints ELSE ReadPoint(t[k - 1], text[k])]
           read == CHOOSE t : t = next(t)
<1>1. n \in Nat /\ \A k \in 1 .. n : text[k] \in Lines
  OBVIOUS
<1>2. step \in [Pointing \X (1 .. n) -> Pointing]
  <2> HIDE DEF n
  <2> QED
    BY <1>1, PointTyped
<1>3. NoPoints \in Pointing
  BY DEF NoPoints, Pointing
<1>4. PICK f : Scans(f, step, NoPoints, n, Pointing)
  <2> HIDE DEF step, n
  <2> QED
    BY <1>1, <1>2, <1>3, Scan
<1>5. f = next(f)
  <2> HIDE DEF n
  <2>1. /\ f \in [0 .. n -> Pointing] /\ f[0] = NoPoints
        /\ \A k \in 1 .. n : f[k] = step[<<f[k - 1], k>>]
    <3> HIDE DEF step
    <3> QED
      BY <1>4 DEF Scans
  <2>2. ASSUME NEW k \in 1 .. n
        PROVE  f[k] = ReadPoint(f[k - 1], text[k])
    <3>1. <<f[k - 1], k>> \in Pointing \X (1 .. n)
      BY <1>1, <2>1
    <3> QED
      BY <2>1, <3>1
  <2>3. \A k \in 0 .. n : k # 0 => k \in 1 .. n
    OBVIOUS
  <2>4. \A k \in 0 .. n : f[k] = IF k = 0 THEN NoPoints ELSE ReadPoint(f[k - 1], text[k])
    BY <2>1, <2>2, <2>3
  <2>5. f = [k \in 0 .. n |-> f[k]]
    BY <2>1
  <2> QED
    BY <2>4, <2>5
<1>6. read = next(read)
  <2> HIDE DEF next
  <2> QED
    BY <1>5
<1>7. SplitKeyPoints(text) = EndPoint(read[n])
  BY DEF SplitKeyPoints, NoPoints
<1> HIDE DEF read
<1>8. PointsRead(read, text)
  <2>1. read[0] = NoPoints /\ \A k \in 1 .. n : read[k] = ReadPoint(read[k - 1], text[k])
    <3> HIDE DEF n
    <3>1. 0 \in 0 .. n /\ \A k \in 1 .. n : k # 0 /\ k \in 0 .. n
      BY <1>1
    <3> QED
      BY <1>6, <3>1, Zenon
  <2> QED
    BY <2>1 DEF PointsRead
<1> QED
  BY <1>7, <1>8

\* The pieces of a section of key points hold its lines in their order, each in one.
LEMMA PointsRight ==
  ASSUME NEW text \in Seq(Lines), Ordered(text)
  PROVE  /\ GroupsOK(SplitKeyPoints(text), text, Len(text))
         /\ \A k \in 1 .. Len(text) : Grouped(SplitKeyPoints(text), text[k])
<1> DEFINE n == Len(text)
           P(f) == {k \in 0 .. n : PointOK(f[k], text, k)}
<1>1. PICK f : PointsRead(f, text) /\ SplitKeyPoints(text) = EndPoint(f[n])
  BY PointRead
<1>2. f[0] = NoPoints /\ \A k \in 1 .. n : f[k] = ReadPoint(f[k - 1], text[k])
  BY <1>1 DEF PointsRead
<1>3. n \in Nat
  OBVIOUS
<1>4. 0 \in P(f)
  <2>1. NoPoints.out = <<>> /\ NoPoints.held = <<>> /\ NoPoints \in Pointing
    BY DEF NoPoints, Pointing
  <2>2. Ordered(<<>>) /\ ToSet(<<>>) = {} /\ GroupsOK(<<>>, text, 0)
    BY DEF Ordered, ToSet, GroupsOK
  <2>3. PointOK(NoPoints, text, 0)
    BY <2>1, <2>2 DEF PointOK
  <2> QED
    BY <1>2, <2>3
<1>5. ASSUME NEW k \in 1 .. n, k - 1 \in P(f)
      PROVE  k \in P(f)
  <2>1. k - 1 \in 0 .. Len(text) - 1 /\ k - 1 + 1 = k
    OBVIOUS
  <2>2. PointOK(f[k - 1], text, k - 1)
    BY <1>5
  <2>3. PointOK(ReadPoint(f[k - 1], text[k - 1 + 1]), text, k - 1 + 1)
    BY <2>1, <2>2, PointStep
  <2> QED
    BY <1>2, <2>1, <2>3
<1>6. PointOK(f[n], text, n)
  <2>1. \A k \in 0 .. n : k \in P(f)
    <3> HIDE DEF P, n
    <3> QED
      BY <1>3, <1>4, <1>5, UpTo
  <2> QED
    BY <1>3, <2>1
<1> DEFINE s == f[n]
<1> HIDE DEF s, n, P
<1>7. /\ s \in Pointing /\ s.held \in Seq(Lines) /\ GroupsOK(s.out, text, n)
      /\ Ordered(s.held) /\ ToSet(s.held) \subseteq {text[k] : k \in 1 .. n}
      /\ \A p \in 1 .. Len(s.out) :
           \A x \in ToSet(s.out[p].lines), y \in ToSet(s.held) : x.no < y.no
      /\ \A k \in 1 .. n : text[k] \in ToSet(s.held) \/ Grouped(s.out, text[k])
  BY <1>6 DEF PointOK, Pointing, s
<1>8. CASE s.held = <<>>
  <2>1. EndPoint(s) = s.out /\ ToSet(s.held) = {}
    BY <1>8 DEF EndPoint, ToSet
  <2> QED
    BY <1>1, <1>7, <2>1 DEF s, n
<1>9. CASE s.held # <<>>
  <2>1. EndPoint(s) = Append(s.out, Piece(s.held, 0))
    BY <1>9 DEF EndPoint
  <2>2. /\ GroupsOK(EndPoint(s), text, n)
        /\ \A x : Grouped(s.out, x) \/ x \in ToSet(s.held) => Grouped(EndPoint(s), x)
    BY <1>7, <2>1, GroupAdded
  <2> QED
    BY <1>1, <1>7, <2>2 DEF s, n
<1> QED
  BY <1>8, <1>9

-----------------------------------------------------------------------------
(* Cases.                                                                  *)

Opens(text, k) == Title(text, k) \/ text[k].mark = "category"

\* ls is what stands in the lines t to u.
Stretch(ls, text, t, u) ==
  /\ 1 <= t /\ t <= u /\ u <= Len(text) /\ Len(ls) = u - t + 1
  /\ \A i \in 1 .. Len(ls) : ls[i] = text[t + i - 1]

IsCase(ls, text, t, u) ==
  /\ t \in Nat /\ u \in Nat /\ ls \in Seq(Lines) /\ Stretch(ls, text, t, u)
  /\ Title(text, t) /\ \A i \in t + 1 .. u : ~Opens(text, i)

Casing == [out : Seq(PieceSet), case : Seq(Lines), intro : Seq(Lines), category : Nat]
NoCases == [out |-> <<>>, case |-> <<>>, intro |-> <<>>, category |-> 0]

CasesMade(out, text, m) ==
  /\ out \in Seq(PieceSet)
  /\ \A p \in 1 .. Len(out) : /\ out[p].extra > 0
                              /\ \E t, u \in 1 .. m : IsCase(out[p].lines, text, t, u)
  /\ \A p, r \in 1 .. Len(out) : p < r => out[p].lines[1].no < out[r].lines[1].no

\* Line k stands under the title t.
Under(text, k, t) ==
  /\ t \in 1 .. k /\ Title(text, t) /\ \A i \in t + 1 .. k : ~Opens(text, i)
Detail(text, k) == text[k].mark = "detail"

MadeOf(out, text, k, t) ==
  \E p \in 1 .. Len(out) : out[p].lines[1] = text[t] /\ text[k] \in ToSet(out[p].lines)

CaseOK(s, text, m) ==
  /\ s \in Casing /\ CasesMade(s.out, text, m)
  /\ Ordered(s.intro) /\ ToSet(s.intro) \subseteq {text[k] : k \in 1 .. m}
  /\ s.case = <<>> =>
       /\ \A t \in 1 .. m : (\A i \in t + 1 .. m : ~Opens(text, i)) => ~Title(text, t)
       /\ \A k \in 1 .. m, t \in 1 .. m : Detail(text, k) /\ Under(text, k, t) => MadeOf(s.out, text, k, t)
  /\ s.case # <<>> =>
       \E b \in 1 .. m :
         /\ IsCase(s.case, text, b, m)
         /\ \A p \in 1 .. Len(s.out) : s.out[p].lines[1].no < text[b].no
         /\ \A k \in 1 .. m, t \in 1 .. m :
              Detail(text, k) /\ Under(text, k, t) => t = b \/ MadeOf(s.out, text, k, t)

LEMMA CaseFirst ==
  ASSUME NEW text \in Seq(Lines), NEW ls, NEW t, NEW u, IsCase(ls, text, t, u)
  PROVE  /\ ls # <<>> /\ ls[1] = text[t] /\ t \in 1 .. Len(text) /\ u \in 1 .. Len(text)
         /\ \A k \in t .. u : text[k] \in ToSet(ls)
         /\ \A x \in ToSet(ls) : \E k \in t .. u : x = text[k]
<1>1. /\ t \in Nat /\ u \in Nat /\ ls \in Seq(Lines) /\ Len(text) \in Nat
      /\ 1 <= t /\ t <= u /\ u <= Len(text) /\ Len(ls) = u - t + 1
      /\ \A i \in 1 .. Len(ls) : ls[i] = text[t + i - 1]
      /\ DOMAIN ls = 1 .. Len(ls)
  BY DEF IsCase, Stretch
<1>2. 1 \in 1 .. Len(ls) /\ t + 1 - 1 = t
  BY <1>1
<1>3. ls # <<>> /\ ls[1] = text[t]
  BY <1>1, <1>2
<1>4. ASSUME NEW k \in t .. u
      PROVE  text[k] \in ToSet(ls)
  <2> DEFINE i == k - t + 1
  <2>1. i \in 1 .. Len(ls) /\ t + i - 1 = k
    BY <1>1
  <2> HIDE DEF i
  <2>2. ls[i] = text[k]
    BY <1>1, <2>1
  <2> QED
    BY <1>1, <2>1, <2>2 DEF ToSet
<1>5. ASSUME NEW x \in ToSet(ls)
      PROVE  \E k \in t .. u : x = text[k]
  <2>1. PICK i \in 1 .. Len(ls) : x = ls[i]
    BY <1>1 DEF ToSet
  <2>2. t + i - 1 \in t .. u
    BY <1>1
  <2> QED
    BY <1>1, <2>1, <2>2
<1> QED
  BY <1>1, <1>3, <1>4, <1>5

LEMMA CaseTyped ==
  ASSUME NEW s \in Casing
  PROVE  EndCase(s) \in Seq(PieceSet)
<1>1. s.out \in Seq(PieceSet) /\ s.case \in Seq(Lines) /\ s.category \in Nat
  BY DEF Casing
<1>2. Piece(s.case, IF s.category = 0 THEN 1 ELSE 2 + s.category) \in PieceSet
  BY <1>1 DEF Piece, PieceSet
<1> QED
  BY <1>1, <1>2 DEF EndCase

\* A case that ends is made a piece unless it has no detail.
LEMMA CaseClosed ==
  ASSUME NEW text \in Seq(Lines), NEW m \in 0 .. Len(text), NEW s, CaseOK(s, text, m)
  PROVE  /\ CasesMade(EndCase(s), text, m)
         /\ \A k \in 1 .. m, t \in 1 .. m :
              Detail(text, k) /\ Under(text, k, t) => MadeOf(EndCase(s), text, k, t)
<1>1. /\ s.out \in Seq(PieceSet) /\ s.case \in Seq(Lines) /\ s.category \in Nat
      /\ CasesMade(s.out, text, m)
  BY DEF CaseOK, Casing
<1>2. CASE s.case = <<>>
  <2>1. EndCase(s) = s.out
    BY <1>2 DEF EndCase
  <2> QED
    BY <1>1, <1>2, <2>1 DEF CaseOK
<1>3. CASE s.case # <<>>
  <2>1. PICK b \in 1 .. m :
         /\ IsCase(s.case, text, b, m)
         /\ \A p \in 1 .. Len(s.out) : s.out[p].lines[1].no < text[b].no
         /\ \A k \in 1 .. m, t \in 1 .. m :
              Detail(text, k) /\ Under(text, k, t) => t = b \/ MadeOf(s.out, text, k, t)
    BY <1>3 DEF CaseOK
  <2>2. /\ s.case[1] = text[b] /\ \A k \in b .. m : text[k] \in ToSet(s.case)
    BY <2>1, CaseFirst
  <2>3. CASE ~HasDetail(Tail(s.case)) /\ Len(s.case) < 4
    <3>1. EndCase(s) = s.out
      BY <2>3 DEF EndCase
    <3>2. ASSUME NEW k \in 1 .. m, Detail(text, k), Under(text, k, b)
          PROVE  FALSE
      <4>1. b \in 1 .. k /\ Title(text, b)
        BY <3>2 DEF Under
      <4>2. k # b
        BY <3>2, <4>1 DEF Title, Detail
      <4> DEFINE i == k - b
      <4>3. /\ Len(s.case) = m - b + 1 /\ \A j \in 1 .. Len(s.case) : s.case[j] = text[b + j - 1]
        BY <2>1 DEF IsCase, Stretch
      <4>4. i \in 1 .. Len(s.case) - 1 /\ i + 1 \in 1 .. Len(s.case) /\ b + (i + 1) - 1 = k
        BY <4>1, <4>2, <4>3
      <4> HIDE DEF i
      <4>5. Tail(s.case)[i] = s.case[i + 1] /\ i \in DOMAIN Tail(s.case)
        BY <1>1, <1>3, <4>4
      <4>6. s.case[i + 1] = text[k]
        BY <4>3, <4>4
      <4> QED
        BY <2>3, <3>2, <4>5, <4>6 DEF HasDetail, Detail
    <3> QED
      BY <1>1, <2>1, <3>1, <3>2
  <2>4. CASE HasDetail(Tail(s.case)) \/ ~(Len(s.case) < 4)
    <3> DEFINE new == Piece(s.case, IF s.category = 0 THEN 1 ELSE 2 + s.category)
               e == Append(s.out, new)
               n == Len(s.out)
    <3>1. EndCase(s) = e
      BY <1>3, <2>4 DEF EndCase
    <3>2. new \in PieceSet /\ new.lines = s.case /\ new.extra > 0
      BY <1>1 DEF Piece, PieceSet
    <3> HIDE DEF new
    <3>3. /\ e \in Seq(PieceSet) /\ Len(e) = n + 1 /\ n \in Nat /\ e[n + 1] = new
          /\ \A p \in 1 .. n : e[p] = s.out[p]
      BY <1>1, <3>2, AppendFacts
    <3> HIDE DEF e, n
    <3>4. \A p \in 1 .. n + 1 : p = n + 1 \/ p \in 1 .. n
      BY <3>3
    <3>5. ASSUME NEW p \in 1 .. n + 1
          PROVE  e[p].extra > 0 /\ \E t, u \in 1 .. m : IsCase(e[p].lines, text, t, u)
      <4>1. CASE p = n + 1
        <5>1. m \in 1 .. m
          OBVIOUS
        <5> QED
          BY <2>1, <3>2, <3>3, <4>1, <5>1
      <4>2. CASE p \in 1 .. n
        BY <1>1, <3>3, <4>2 DEF CasesMade, n
      <4> QED
        BY <3>4, <4>1, <4>2
    <3>6. ASSUME NEW p \in 1 .. n + 1, NEW r \in 1 .. n + 1, p < r
          PROVE  e[p].lines[1].no < e[r].lines[1].no
      <4>1. p \in 1 .. n
        BY <3>3, <3>6
      <4>2. CASE r = n + 1
        BY <2>1, <2>2, <3>2, <3>3, <4>1, <4>2 DEF n
      <4>3. CASE r \in 1 .. n
        BY <1>1, <3>3, <3>6, <4>1, <4>3 DEF CasesMade, n
      <4> QED
        BY <3>4, <4>2, <4>3
    <3>7. CasesMade(e, text, m)
      BY <3>3, <3>5, <3>6 DEF CasesMade
    <3>8. ASSUME NEW k \in 1 .. m, NEW t \in 1 .. m, Detail(text, k), Under(text, k, t)
          PROVE  MadeOf(e, text, k, t)
      <4>1. CASE t = b
        <5>1. k \in b .. m
          BY <3>8, <4>1 DEF Under
        <5>2. n + 1 \in 1 .. n + 1 /\ e[n + 1].lines[1] = text[t] /\ text[k] \in ToSet(e[n + 1].lines)
          BY <2>2, <3>2, <3>3, <4>1, <5>1
        <5> QED
          BY <3>3, <5>2 DEF MadeOf
      <4>2. CASE MadeOf(s.out, text, k, t)
        <5>1. PICK p \in 1 .. n : s.out[p].lines[1] = text[t] /\ text[k] \in ToSet(s.out[p].lines)
          BY <4>2 DEF MadeOf, n
        <5>2. p \in 1 .. n + 1 /\ e[p] = s.out[p]
          BY <3>3
        <5> QED
          BY <3>3, <5>1, <5>2 DEF MadeOf
      <4> QED
        BY <2>1, <3>8, <4>1, <4>2
    <3> QED
      BY <3>1, <3>7, <3>8
  <2> QED
    BY <2>3, <2>4
<1> QED
  BY <1>2, <1>3

LEMMA CaseStepTyped ==
  ASSUME NEW text \in Seq(Lines), NEW s \in Casing, NEW k \in 1 .. Len(text)
  PROVE  ReadCase(s, text, k) \in Casing
<1> DEFINE l == text[k]
<1>1. /\ s.out \in Seq(PieceSet) /\ s.case \in Seq(Lines) /\ s.intro \in Seq(Lines)
      /\ s.category \in Nat /\ l \in Lines /\ EndCase(s) \in Seq(PieceSet)
  BY CaseTyped DEF Casing
<1>2. /\ l.words \in Nat /\ <<l>> \in Seq(Lines) /\ <<>> \in Seq(Lines)
      /\ Append(s.case, l) \in Seq(Lines) /\ Append(s.intro, l) \in Seq(Lines)
  BY <1>1 DEF Lines
<1>3. ReadCase(s, text, k)
        = IF l.mark = "category" THEN [s EXCEPT !.out = EndCase(s), !.case = <<>>, !.category = l.words]
          ELSE IF Title(text, k) THEN [s EXCEPT !.out = EndCase(s), !.case = <<l>>]
          ELSE IF s.case # <<>> THEN [s EXCEPT !.case = Append(s.case, l)]
          ELSE [s EXCEPT !.intro = Append(s.intro, l)]
  BY DEF ReadCase
<1> HIDE DEF l
<1>4. [s EXCEPT !.out = EndCase(s), !.case = <<>>, !.category = l.words] \in Casing
  BY <1>1, <1>2 DEF Casing
<1>5. [s EXCEPT !.out = EndCase(s), !.case = <<l>>] \in Casing
  BY <1>1, <1>2 DEF Casing
<1>6. [s EXCEPT !.case = Append(s.case, l)] \in Casing
  BY <1>1, <1>2 DEF Casing
<1>7. [s EXCEPT !.intro = Append(s.intro, l)] \in Casing
  BY <1>1, <1>2 DEF Casing
<1> QED
  BY <1>3, <1>4, <1>5, <1>6, <1>7

LEMMA CasesStay ==
  ASSUME NEW text, NEW m \in Nat, NEW out, CasesMade(out, text, m)
  PROVE  CasesMade(out, text, m + 1)
<1>1. \A t \in 1 .. m : t \in 1 .. m + 1
  OBVIOUS
<1> QED
  BY <1>1 DEF CasesMade

LEMMA CaseStep ==
  ASSUME NEW text \in Seq(Lines), Ordered(text), NEW m \in 0 .. Len(text) - 1,
         NEW s, CaseOK(s, text, m)
  PROVE  CaseOK(ReadCase(s, text, m + 1), text, m + 1)
<1> DEFINE l == text[m + 1]
           t == ReadCase(s, text, m + 1)
<1>1. /\ s \in Casing /\ s.out \in Seq(PieceSet) /\ s.case \in Seq(Lines) /\ s.intro \in Seq(Lines)
      /\ CasesMade(s.out, text, m)
      /\ Ordered(s.intro) /\ ToSet(s.intro) \subseteq {text[k] : k \in 1 .. m}
  BY DEF CaseOK, Casing
<1>2. m + 1 \in 1 .. Len(text) /\ l \in Lines /\ m \in Nat /\ m + 1 \in 1 .. m + 1 /\ m \in 0 .. Len(text)
  OBVIOUS
<1>3. \A k \in 1 .. m : k \in 1 .. Len(text) /\ k \in 1 .. m + 1 /\ text[k].no < l.no
  BY <1>2 DEF Ordered
<1>4. \A k \in 1 .. m + 1 : k = m + 1 \/ k \in 1 .. m
  BY <1>2
<1>5. {text[k] : k \in 1 .. m + 1} = {text[k] : k \in 1 .. m} \union {l}
  BY <1>2, <1>3, <1>4
<1>6. t \in Casing
  BY <1>1, <1>2, CaseStepTyped
<1>7. CasesMade(s.out, text, m + 1)
  BY <1>1, <1>2, CasesStay
<1>8. /\ CasesMade(EndCase(s), text, m) /\ CasesMade(EndCase(s), text, m + 1)
      /\ \A k \in 1 .. m, b \in 1 .. m :
           Detail(text, k) /\ Under(text, k, b) => MadeOf(EndCase(s), text, k, b)
  BY <1>2, CaseClosed, CasesStay
<1>9. t = IF l.mark = "category" THEN [s EXCEPT !.out = EndCase(s), !.case = <<>>, !.category = l.words]
          ELSE IF Title(text, m + 1) THEN [s EXCEPT !.out = EndCase(s), !.case = <<l>>]
          ELSE IF s.case # <<>> THEN [s EXCEPT !.case = Append(s.case, l)]
          ELSE [s EXCEPT !.intro = Append(s.intro, l)]
  BY DEF ReadCase
<1>10. ToSet(s.intro) \subseteq {text[k] : k \in 1 .. m + 1}
  BY <1>1, <1>5
\* A title or category that opens leaves no detail at its own line.
<1>11. ASSUME Opens(text, m + 1), NEW k \in 1 .. m + 1, NEW b \in 1 .. m + 1,
              Detail(text, k), Under(text, k, b)
       PROVE  k \in 1 .. m /\ b \in 1 .. m
  <2>1. k # m + 1
    BY <1>11 DEF Opens, Title, Detail
  <2>2. k \in 1 .. m /\ b \in 1 .. k
    BY <1>4, <1>11, <2>1 DEF Under
  <2> QED
    BY <2>2
<1> HIDE DEF t
<1>12. CASE l.mark = "category"
  <2>1. t.out = EndCase(s) /\ t.case = <<>> /\ t.intro = s.intro
    BY <1>1, <1>9, <1>12 DEF Casing
  <2>2. Opens(text, m + 1) /\ ~Title(text, m + 1)
    BY <1>12 DEF Opens, Title
  <2>3. ASSUME NEW b \in 1 .. m + 1, \A i \in b + 1 .. m + 1 : ~Opens(text, i)
        PROVE  ~Title(text, b)
    <3>1. CASE b = m + 1
      BY <2>2, <3>1
    <3>2. CASE b # m + 1
      <4>1. m + 1 \in b + 1 .. m + 1
        BY <1>2, <3>2
      <4> QED
        BY <2>2, <2>3, <4>1
    <3> QED
      BY <3>1, <3>2
  <2>4. \A k \in 1 .. m + 1, b \in 1 .. m + 1 :
          Detail(text, k) /\ Under(text, k, b) => MadeOf(t.out, text, k, b)
    BY <1>8, <1>11, <2>1, <2>2
  <2>5. CaseOK(t, text, m + 1)
    BY <1>1, <1>6, <1>8, <1>10, <2>1, <2>3, <2>4 DEF CaseOK
  <2> QED
    BY <2>5 DEF t
<1>13. CASE l.mark # "category" /\ Title(text, m + 1)
  <2>1. t.out = EndCase(s) /\ t.case = <<l>> /\ t.intro = s.intro
    BY <1>1, <1>9, <1>13 DEF Casing
  <2>2. Opens(text, m + 1)
    BY <1>13 DEF Opens
  <2>3. IsCase(<<l>>, text, m + 1, m + 1)
    <3>1. <<l>> \in Seq(Lines) /\ Len(<<l>>) = 1 /\ <<l>>[1] = l
      BY <1>2
    <3>2. \A i \in (m + 1) + 1 .. m + 1 : FALSE
      BY <1>2
    <3>3. Stretch(<<l>>, text, m + 1, m + 1)
      <4>1. \A i \in 1 .. 1 : i = 1 /\ m + 1 + i - 1 = m + 1
        BY <1>2
      <4>2. 1 <= m + 1 /\ m + 1 <= Len(text) /\ 1 = m + 1 - (m + 1) + 1
        BY <1>2
      <4> HIDE DEF l
      <4> QED
        BY <3>1, <4>1, <4>2 DEF Stretch, l
    <3> HIDE DEF l
    <3> QED
      BY <1>2, <1>13, <3>1, <3>2, <3>3 DEF IsCase
  <2>4. \A p \in 1 .. Len(t.out) : t.out[p].lines[1].no < l.no
    <3>1. ASSUME NEW p \in 1 .. Len(EndCase(s))
          PROVE  EndCase(s)[p].lines[1].no < l.no
      <4>1. PICK b \in 1 .. m, u \in 1 .. m : IsCase(EndCase(s)[p].lines, text, b, u)
        BY <1>8 DEF CasesMade
      <4>2. EndCase(s)[p].lines[1] = text[b]
        BY <4>1, CaseFirst
      <4> QED
        BY <1>3, <4>2
    <3> QED
      BY <2>1, <3>1
  <2>5. \A k \in 1 .. m + 1, b \in 1 .. m + 1 :
          Detail(text, k) /\ Under(text, k, b) => MadeOf(t.out, text, k, b)
    BY <1>8, <1>11, <2>1, <2>2
  <2>6. t.case # <<>>
    BY <2>1
  <2>7. CaseOK(t, text, m + 1)
    BY <1>1, <1>2, <1>6, <1>8, <1>10, <2>1, <2>3, <2>4, <2>5, <2>6 DEF CaseOK
  <2> QED
    BY <2>7 DEF t
<1>14. CASE l.mark # "category" /\ ~Title(text, m + 1) /\ s.case # <<>>
  <2> DEFINE case == Append(s.case, l)
  <2>1. t.out = s.out /\ t.case = case /\ t.intro = s.intro
    BY <1>1, <1>9, <1>14 DEF Casing
  <2>2. PICK b \in 1 .. m :
         /\ IsCase(s.case, text, b, m)
         /\ \A p \in 1 .. Len(s.out) : s.out[p].lines[1].no < text[b].no
         /\ \A k \in 1 .. m, c \in 1 .. m :
              Detail(text, k) /\ Under(text, k, c) => c = b \/ MadeOf(s.out, text, k, c)
    BY <1>14 DEF CaseOK
  <2>3. ~Opens(text, m + 1)
    BY <1>14 DEF Opens
  <2>4. /\ Len(s.case) = m - b + 1 /\ \A i \in 1 .. Len(s.case) : s.case[i] = text[b + i - 1]
        /\ Title(text, b) /\ \A i \in b + 1 .. m : ~Opens(text, i)
    BY <2>2 DEF IsCase, Stretch
  <2>5. /\ case \in Seq(Lines) /\ case # <<>>
        /\ Len(case) = Len(s.case) + 1 /\ case[Len(s.case) + 1] = l
        /\ \A i \in 1 .. Len(s.case) : case[i] = s.case[i]
    <3> HIDE DEF l
    <3> QED
      BY <1>1, <1>2, AppendFacts
  <2> HIDE DEF case
  <2>6. IsCase(case, text, b, m + 1)
    <3>1. \A i \in b + 1 .. m + 1 : ~Opens(text, i)
      <4>1. \A i \in b + 1 .. m + 1 : i = m + 1 \/ i \in b + 1 .. m
        BY <1>2
      <4> QED
        BY <2>3, <2>4, <4>1
    <3>2. Len(case) = (m + 1) - b + 1 /\ Len(s.case) + 1 = m - b + 2
      BY <2>4, <2>5
    <3>3. ASSUME NEW i \in 1 .. Len(case)
          PROVE  case[i] = text[b + i - 1]
      <4>1. CASE i = Len(s.case) + 1
        <5>1. b + i - 1 = m + 1
          BY <3>2, <4>1
        <5> QED
          BY <2>5, <4>1, <5>1
      <4>2. CASE i # Len(s.case) + 1
        <5>1. i \in 1 .. Len(s.case)
          BY <2>4, <2>5, <4>2
        <5> QED
          BY <2>4, <2>5, <5>1
      <4> QED
        BY <4>1, <4>2
    <3>4. 1 <= b /\ b <= m + 1 /\ m + 1 <= Len(text) /\ b \in Nat /\ m + 1 \in Nat
      BY <1>2
    <3>5. Stretch(case, text, b, m + 1)
      BY <3>2, <3>3, <3>4 DEF Stretch
    <3> QED
      BY <2>4, <2>5, <3>1, <3>4, <3>5 DEF IsCase
  <2>7. ASSUME NEW k \in 1 .. m + 1, NEW c \in 1 .. m + 1, Detail(text, k), Under(text, k, c)
        PROVE  c = b \/ MadeOf(t.out, text, k, c)
    <3>1. c \in 1 .. k /\ Title(text, c) /\ \A i \in c + 1 .. k : ~Opens(text, i)
      BY <2>7 DEF Under
    <3>2. CASE k = m + 1
      <4>1. c # m + 1
        BY <1>14, <3>1
      <4>2. c \in 1 .. m
        BY <1>4, <4>1
      <4>3. ~(c < b)
        <5>1. ASSUME c < b
              PROVE  FALSE
          <6>1. b \in c + 1 .. k
            BY <3>2, <4>2, <5>1
          <6> QED
            BY <2>4, <3>1, <6>1 DEF Opens
        <5> QED
          BY <5>1
      <4>4. ~(c > b)
        <5>1. ASSUME c > b
              PROVE  FALSE
          <6>1. c \in b + 1 .. m
            BY <4>2, <5>1
          <6> QED
            BY <2>4, <3>1, <6>1 DEF Opens
        <5> QED
          BY <5>1
      <4> QED
        BY <4>2, <4>3, <4>4
    <3>3. CASE k \in 1 .. m
      <4>1. c \in 1 .. m
        BY <3>1, <3>3
      <4> QED
        BY <2>1, <2>2, <2>7, <3>3, <4>1
    <3> QED
      BY <1>4, <3>2, <3>3
  <2>8. b \in 1 .. m + 1
    BY <1>3
  <2>9. CaseOK(t, text, m + 1)
    BY <1>1, <1>6, <1>7, <1>10, <2>1, <2>2, <2>5, <2>6, <2>7, <2>8 DEF CaseOK
  <2> QED
    BY <2>9 DEF t
<1>15. CASE l.mark # "category" /\ ~Title(text, m + 1) /\ s.case = <<>>
  <2> DEFINE intro == Append(s.intro, l)
  <2>1. t.out = s.out /\ t.case = <<>> /\ t.intro = intro
    BY <1>1, <1>9, <1>15 DEF Casing
  <2>2. intro \in Seq(Lines) /\ ToSet(intro) = ToSet(s.intro) \union {l}
    <3> HIDE DEF l
    <3> QED
      BY <1>1, <1>2, AppendFacts
  <2>3. Ordered(intro)
    <3>1. \A x \in ToSet(s.intro) : x.no < l.no
      BY <1>1, <1>3
    <3> HIDE DEF l
    <3> QED
      BY <1>1, <1>2, <3>1, AppendOrdered
  <2> HIDE DEF intro
  <2>4. ToSet(intro) \subseteq {text[k] : k \in 1 .. m + 1}
    BY <1>1, <1>5, <2>2
  <2>5. /\ \A b \in 1 .. m : (\A i \in b + 1 .. m : ~Opens(text, i)) => ~Title(text, b)
        /\ \A k \in 1 .. m, b \in 1 .. m : Detail(text, k) /\ Under(text, k, b) => MadeOf(s.out, text, k, b)
    BY <1>15 DEF CaseOK
  <2>6. ASSUME NEW b \in 1 .. m + 1, \A i \in b + 1 .. m + 1 : ~Opens(text, i)
        PROVE  ~Title(text, b)
    <3>1. CASE b = m + 1
      BY <1>15, <3>1
    <3>2. CASE b # m + 1
      <4>1. b \in 1 .. m /\ \A i \in b + 1 .. m : i \in b + 1 .. m + 1
        BY <1>4, <3>2
      <4> QED
        BY <2>5, <2>6, <4>1
    <3> QED
      BY <3>1, <3>2
  <2>7. ASSUME NEW k \in 1 .. m + 1, NEW b \in 1 .. m + 1, Detail(text, k), Under(text, k, b)
        PROVE  MadeOf(t.out, text, k, b)
    <3>1. b \in 1 .. k /\ Title(text, b) /\ \A i \in b + 1 .. k : ~Opens(text, i)
      BY <2>7 DEF Under
    <3>2. k # m + 1
      BY <2>6, <3>1
    <3>3. k \in 1 .. m /\ b \in 1 .. m
      BY <1>4, <3>1, <3>2
    <3> QED
      BY <2>1, <2>5, <2>7, <3>3
  <2>8. CaseOK(t, text, m + 1)
    BY <1>6, <1>7, <2>1, <2>3, <2>4, <2>6, <2>7 DEF CaseOK
  <2> QED
    BY <2>8 DEF t
<1> QED
  BY <1>12, <1>13, <1>14, <1>15

-----------------------------------------------------------------------------
(* Cases are not split again: a piece has a title at its first line only.  *)

LEMMA Unflattened ==
  ASSUME NEW S, NEW q \in Seq(S)
  PROVE  FlattenSeq([k \in DOMAIN q |-> <<q[k]>>]) = q
<1> DEFINE n == Len(q)
           ss == [k \in 1 .. n |-> <<q[k]>>]
           g == [i \in 1 .. n |-> SubSeq(q, 1, i)]
           next(f) == [i \in 1 .. n |-> IF i = 1 THEN ss[i] ELSE f[i - 1] \o ss[i]]
           fl == CHOOSE f : f = next(f)
<1>1. n \in Nat /\ Len(ss) = n /\ DOMAIN q = 1 .. n
  OBVIOUS
<1>2. FlattenSeq([k \in DOMAIN q |-> <<q[k]>>]) = IF n = 0 THEN ss ELSE fl[n]
  <2>1. FlattenSeq(ss) = IF n = 0 THEN ss ELSE fl[n]
    BY <1>1 DEF FlattenSeq
  <2> QED
    BY <1>1, <2>1
<1>3. CASE n = 0
  BY <1>2, <1>3
<1>4. CASE n # 0
  <2>1. ASSUME NEW i \in 2 .. n
        PROVE  SubSeq(q, 1, i) = SubSeq(q, 1, i - 1) \o <<q[i]>>
    OBVIOUS
  <2>2. g = next(g)
    <3>1. ASSUME NEW i \in 1 .. n
          PROVE  g[i] = IF i = 1 THEN ss[i] ELSE g[i - 1] \o ss[i]
      <4>1. CASE i = 1
        <5>1. SubSeq(q, 1, 1) \in Seq(S) /\ Len(SubSeq(q, 1, 1)) = 1 /\ SubSeq(q, 1, 1)[1] = q[1]
          BY <1>1, <1>4
        <5>2. PICK t \in Seq(S), x \in S : t = SubSeq(q, 1, 1) /\ x = q[1]
          <6>1. q[1] \in S
            BY <1>1, <1>4
          <6> QED
            BY <5>1, <6>1
        <5>3. Len(t) = 1 /\ t[1] = x
          BY <5>1, <5>2
        <5>4. t = <<x>>
          BY <5>3
        <5> QED
          BY <4>1, <5>2, <5>4
      <4>2. CASE i # 1
        <5>1. i \in 2 .. n /\ i - 1 \in 1 .. n
          BY <4>2
        <5> QED
          BY <2>1, <4>2, <5>1
      <4> QED
        BY <4>1, <4>2
    <3>2. g = [i \in 1 .. n |-> g[i]]
      OBVIOUS
    <3> HIDE DEF g, ss, n
    <3> QED
      BY <3>1, <3>2
  <2>3. fl = next(fl)
    <3> HIDE DEF next
    <3> QED
      BY <2>2
  <2> HIDE DEF fl
  <2>4. \A i \in 1 .. n : fl[i] = IF i = 1 THEN ss[i] ELSE fl[i - 1] \o ss[i]
    <3> HIDE DEF ss, n
    <3> QED
      BY <2>3, Zenon
  <2> DEFINE P == {k \in 0 .. n : k = 0 \/ fl[k] = g[k]}
  <2>5. 0 \in P
    OBVIOUS
  <2>6. ASSUME NEW k \in 1 .. n, k - 1 \in P
        PROVE  k \in P
    <3>1. g[k] = IF k = 1 THEN ss[k] ELSE g[k - 1] \o ss[k]
      <4> HIDE DEF g, ss, n
      <4> QED
        BY <2>2, Zenon
    <3>2. fl[k] = IF k = 1 THEN ss[k] ELSE fl[k - 1] \o ss[k]
      BY <2>4
    <3>3. k # 1 => fl[k - 1] = g[k - 1]
      BY <2>6
    <3> HIDE DEF g, ss
    <3> QED
      BY <3>1, <3>2, <3>3
  <2>7. \A k \in 0 .. n : k \in P
    <3> HIDE DEF P, n
    <3> QED
      BY <1>1, <2>5, <2>6, UpTo
  <2>8. fl[n] = g[n]
    <3>1. n \in P
      <4> HIDE DEF P, n
      <4> QED
        BY <1>1, <2>7
    <3> HIDE DEF g
    <3> QED
      BY <1>4, <3>1
  <2>9. g[n] = q
    BY <1>1, <1>4
  <2> HIDE DEF g
  <2> QED
    BY <1>2, <1>4, <2>8, <2>9
<1> QED
  BY <1>3, <1>4

\* Chosen keeps a sequence of one element that is to be kept.
LEMMA ChosenOne ==
  ASSUME NEW S, NEW x \in S, NEW K, 1 \in K
  PROVE  Chosen(<<x>>, K) = <<x>>
<1> DEFINE c == Chosen(<<x>>, K)
<1>1. <<x>> \in Seq(S) /\ Len(<<x>>) = 1 /\ <<x>>[1] = x
  OBVIOUS
<1>2. c \in Seq(S) /\ \E at : Takes(c, at, <<x>>, 1, K)
  BY <1>1, ChosenTakes
<1>3. PICK at : Takes(c, at, <<x>>, 1, K)
  BY <1>2
<1> HIDE DEF c
<1>4. /\ at \in Seq(1 .. 1) /\ Len(c) = Len(at)
      /\ \A j \in 1 .. Len(at) : c[j] = <<x>>[at[j]]
      /\ \A i, j \in 1 .. Len(at) : i < j => at[i] < at[j]
      /\ \A k \in 1 .. 1 : k \in K <=> \E j \in 1 .. Len(at) : at[j] = k
  BY <1>3 DEF Takes
<1>5. \A j \in 1 .. Len(at) : at[j] = 1
  BY <1>4
<1>6. Len(at) = 1
  <2>1. Len(at) \in Nat /\ Len(at) # 0
    <3>1. \E j \in 1 .. Len(at) : at[j] = 1
      BY <1>4
    <3> QED
      BY <1>4, <3>1
  <2>2. ASSUME Len(at) > 1
        PROVE  FALSE
    <3>1. 1 \in 1 .. Len(at) /\ 2 \in 1 .. Len(at)
      BY <2>1, <2>2
    <3> QED
      BY <1>4, <1>5, <3>1
  <2>3. PICK m \in Nat : m = Len(at)
    BY <2>1
  <2> QED
    BY <2>1, <2>2, <2>3
<1>7. Len(c) = 1 /\ c[1] = x
  BY <1>1, <1>4, <1>5, <1>6
<1>8. c = <<x>>
  BY <1>2, <1>7
<1> QED
  BY <1>8 DEF c

LEMMA EmbeddedOn ==
  ASSUME NEW p, NEW k, NEW cur, NEW cased \in BOOLEAN,
         ~(Title(p.lines, k) /\ ~(k = 1 /\ p.extra > 0))
  PROVE  ReadEmbedded([out |-> <<>>, cur |-> cur, cased |-> cased], p, k)
           = [out |-> <<>>, cur |-> Append(cur, p.lines[k]), cased |-> cased \/ (k = 1 /\ p.extra > 0)]
<1> DEFINE s == [out |-> <<>>, cur |-> cur, cased |-> cased]
           next == Append(cur, p.lines[k])
           found == k = 1 /\ p.extra > 0
           then == s.cased \/ found
<1>1. ReadEmbedded(s, p, k) = [s EXCEPT !.cur = Append(s.cur, p.lines[k]), !.cased = then]
  BY DEF ReadEmbedded
<1>2. Append(s.cur, p.lines[k]) = next /\ then = (cased \/ found)
  OBVIOUS
<1> HIDE DEF then, next
<1> DEFINE t == [s EXCEPT !.cur = next, !.cased = then]
<1>3. t \in [out : {<<>>}, cur : {next}, cased : {then}]
  OBVIOUS
<1> HIDE DEF t
<1>4. t = [out |-> <<>>, cur |-> next, cased |-> then]
  BY <1>3
<1> QED
  BY <1>1, <1>2, <1>4 DEF next, t

LEMMA EmbeddedWhole ==
  ASSUME NEW p \in PieceSet, \A k \in 2 .. Len(p.lines) : ~Title(p.lines, k),
         p.extra > 0 \/ ~Title(p.lines, 1)
  PROVE  SplitEmbedded(p) = <<p>>
<1> DEFINE n == Len(p.lines)
           base == [out |-> <<>>, cur |-> <<>>, cased |-> FALSE]
           next(f) == [k \in 0 .. n |-> IF k = 0 THEN base ELSE ReadEmbedded(f[k - 1], p, k)]
           read == CHOOSE f : f = next(f)
           all == EndEmbedded(read[n], p)
           g == [k \in 0 .. n |-> [out |-> <<>>, cur |-> SubSeq(p.lines, 1, k),
                                   cased |-> k > 0 /\ p.extra > 0]]
<1>1. /\ p.lines \in Seq(Lines) /\ p.extra \in Nat /\ n \in Nat
      /\ p = [lines |-> p.lines, extra |-> p.extra]
  BY DEF PieceSet
<1>2. CASE n + (IF p.extra > 1 THEN 1 ELSE 0) <= 4
  BY <1>2 DEF SplitEmbedded
<1>3. CASE ~(n + (IF p.extra > 1 THEN 1 ELSE 0) <= 4)
  <2>1. SplitEmbedded(p) = Chosen(all, {k \in DOMAIN all : Words(all[k].lines) + all[k].extra >= 4})
    BY <1>3 DEF SplitEmbedded
  <2>2. n >= 4
    BY <1>1, <1>3
  <2>3. ASSUME NEW k \in 1 .. n
        PROVE  ReadEmbedded(g[k - 1], p, k) = g[k]
    <3>1. g[k - 1] = [out |-> <<>>, cur |-> SubSeq(p.lines, 1, k - 1), cased |-> k - 1 > 0 /\ p.extra > 0]
      OBVIOUS
    <3>2. ~(Title(p.lines, k) /\ ~(k = 1 /\ p.extra > 0))
      BY <1>1
    <3>4. Append(SubSeq(p.lines, 1, k - 1), p.lines[k]) = SubSeq(p.lines, 1, k)
      BY <1>1
    <3>5. ((k - 1 > 0 /\ p.extra > 0) \/ (k = 1 /\ p.extra > 0)) = (k > 0 /\ p.extra > 0)
      BY <1>1
    <3>6. g[k] = [out |-> <<>>, cur |-> SubSeq(p.lines, 1, k), cased |-> k > 0 /\ p.extra > 0]
      OBVIOUS
    <3> HIDE DEF g
    <3>7. ReadEmbedded(g[k - 1], p, k)
            = [out |-> <<>>, cur |-> Append(SubSeq(p.lines, 1, k - 1), p.lines[k]),
               cased |-> (k - 1 > 0 /\ p.extra > 0) \/ (k = 1 /\ p.extra > 0)]
      <4> HIDE DEF g
      <4> QED
        BY <3>1, <3>2, EmbeddedOn
    <3> QED
      BY <3>4, <3>5, <3>6, <3>7
  <2>4. g[0] = base
    <3>1. SubSeq(p.lines, 1, 0) = <<>> /\ 0 \in 0 .. n
      BY <1>1
    <3>2. (0 > 0 /\ p.extra > 0) = FALSE
      OBVIOUS
    <3> QED
      BY <3>1, <3>2
  <2>5. g = next(g)
    <3>1. \A k \in 0 .. n : k # 0 => k \in 1 .. n
      OBVIOUS
    <3>2. g = [k \in 0 .. n |-> g[k]]
      OBVIOUS
    <3> HIDE DEF g, n, base
    <3>3. \A k \in 0 .. n : g[k] = IF k = 0 THEN base ELSE ReadEmbedded(g[k - 1], p, k)
      BY <2>3, <2>4, <3>1
    <3> QED
      BY <3>2, <3>3
  <2>6. read = next(read)
    <3> HIDE DEF next
    <3> QED
      BY <2>5
  <2> HIDE DEF read
  <2>7. /\ read[0] = base
        /\ \A k \in 1 .. n : read[k] = ReadEmbedded(read[k - 1], p, k)
    <3> HIDE DEF n, base
    <3>1. 0 \in 0 .. n /\ \A k \in 1 .. n : k # 0 /\ k \in 0 .. n
      BY <1>1 DEF n
    <3> QED
      BY <2>6, <3>1, Zenon
  <2>8. read[n] = g[n]
    <3> HIDE DEF n, g, base
    <3>1. \A k \in 1 .. n : read[k - 1] = g[k - 1] => read[k] = g[k]
      BY <2>3, <2>7
    <3>2. n \in Nat /\ read[0] = g[0]
      BY <1>1, <2>4, <2>7 DEF n
    <3>3. \A k \in 0 .. n : read[k] = g[k]
      BY <3>1, <3>2, SameRun
    <3> QED
      BY <3>2, <3>3
  <2>9. g[n] = [out |-> <<>>, cur |-> p.lines, cased |-> p.extra > 0]
    <3>1. SubSeq(p.lines, 1, n) = p.lines /\ n \in 0 .. n
      BY <1>1
    <3>2. (n > 0 /\ p.extra > 0) = (p.extra > 0)
      BY <2>2
    <3> HIDE DEF n
    <3> QED
      BY <3>1, <3>2
  <2>10. all = <<p>>
    <3>1. (IF p.extra > 0 THEN p.extra ELSE 0) = p.extra
      BY <1>1
    <3> HIDE DEF g
    <3>2. all = Append(<<>>, Piece(p.lines, p.extra))
      <4>1. read[n].out = <<>> /\ read[n].cur = p.lines /\ read[n].cased = (p.extra > 0)
        BY <2>8, <2>9
      <4> QED
        BY <3>1, <4>1 DEF EndEmbedded
    <3>3. Piece(p.lines, p.extra) = p
      BY <1>1 DEF Piece
    <3> HIDE DEF all
    <3> QED
      BY <3>2, <3>3
  <2> HIDE DEF all
  <2>11. 1 \in {k \in DOMAIN all : Words(all[k].lines) + all[k].extra >= 4}
    <3>1. all[1] = p /\ 1 \in DOMAIN all
      BY <2>10
    <3>2. Words(p.lines) \in Nat /\ Words(p.lines) >= n
      BY <1>1, WordsBounds
    <3>3. Words(p.lines) + p.extra >= 4
      BY <1>1, <2>2, <3>2
    <3> QED
      BY <3>1, <3>3
  <2> QED
    BY <2>1, <2>10, <2>11, ChosenOne
<1> QED
  BY <1>2, <1>3

LEMMA ChosenFacts ==
  ASSUME NEW s \in Seq(Lines), Ordered(s), NEW K
  PROVE  /\ Chosen(s, K) \in Seq(Lines) /\ Ordered(Chosen(s, K))
         /\ \A x \in ToSet(Chosen(s, K)) : \E k \in 1 .. Len(s) : k \in K /\ x = s[k]
         /\ \A k \in 1 .. Len(s) : k \in K => s[k] \in ToSet(Chosen(s, K))
<1> DEFINE c == Chosen(s, K)
<1>1. c \in Seq(Lines) /\ \E at : Takes(c, at, s, Len(s), K)
  BY ChosenTakes
<1>2. PICK at : Takes(c, at, s, Len(s), K)
  BY <1>1
<1> HIDE DEF c
<1>3. /\ at \in Seq(1 .. Len(s)) /\ Len(c) = Len(at)
      /\ \A j \in 1 .. Len(at) : c[j] = s[at[j]]
      /\ \A i, j \in 1 .. Len(at) : i < j => at[i] < at[j]
      /\ \A k \in 1 .. Len(s) : k \in K <=> \E j \in 1 .. Len(at) : at[j] = k
  BY <1>2 DEF Takes
<1>4. \A j \in 1 .. Len(at) : at[j] \in 1 .. Len(s)
  BY <1>3
<1>5. Ordered(c)
  <2>1. ASSUME NEW i \in 1 .. Len(c), NEW j \in 1 .. Len(c), i < j
        PROVE  c[i].no < c[j].no
    <3>1. at[i] < at[j] /\ at[i] \in 1 .. Len(s) /\ at[j] \in 1 .. Len(s)
      BY <1>3, <1>4, <2>1
    <3>2. s[at[i]].no < s[at[j]].no
      BY <3>1 DEF Ordered
    <3> QED
      BY <1>3, <3>2
  <2> QED
    BY <2>1 DEF Ordered
<1>6. DOMAIN c = 1 .. Len(c)
  BY <1>1
<1>7. ASSUME NEW x \in ToSet(c)
      PROVE  \E k \in 1 .. Len(s) : k \in K /\ x = s[k]
  <2>1. PICK j \in 1 .. Len(c) : x = c[j]
    BY <1>6 DEF ToSet
  <2>2. at[j] \in 1 .. Len(s) /\ at[j] \in K
    BY <1>3, <1>4
  <2> QED
    BY <1>3, <2>1, <2>2
<1>8. ASSUME NEW k \in 1 .. Len(s), k \in K
      PROVE  s[k] \in ToSet(c)
  <2>1. PICK j \in 1 .. Len(at) : at[j] = k
    BY <1>3, <1>8
  <2>2. j \in DOMAIN c /\ c[j] = s[k]
    BY <1>3, <1>6, <2>1
  <2> QED
    BY <2>2 DEF ToSet
<1> QED
  BY <1>1, <1>5, <1>7, <1>8 DEF c

CasesRead(f, text) ==
  f[0] = NoCases /\ \A k \in 1 .. Len(text) : f[k] = ReadCase(f[k - 1], text, k)

Intro(end) == Chosen(end.intro, {k \in DOMAIN end.intro : end.intro[k].mark # "detail"
                                                            /\ ~Title(<<end.intro[k]>>, 1)})
AllCases(end) ==
  (IF Words(Intro(end)) >= 8 THEN <<Piece(Intro(end), 0)>> ELSE <<>>) \o EndCase(end)

LEMMA CaseRead ==
  ASSUME NEW text \in Seq(Lines)
  PROVE  \E f : /\ CasesRead(f, text)
                /\ SplitBusinessCases(text)
                     = FlattenSeq([k \in DOMAIN AllCases(f[Len(text)]) |->
                                     SplitEmbedded(AllCases(f[Len(text)])[k])])
<1> DEFINE n == Len(text)
           step == [p \in Casing \X (1 .. n) |-> ReadCase(p[1], text, p[2])]
           next(t) == [k \in 0 .. n |-> IF k = 0 THEN NoCases ELSE ReadCase(t[k - 1], text, k)]
           read == CHOOSE t : t = next(t)
<1>1. n \in Nat
  OBVIOUS
<1>2. step \in [Casing \X (1 .. n) -> Casing]
  BY CaseStepTyped
<1>3. NoCases \in Casing
  BY DEF NoCases, Casing
<1>4. PICK f : Scans(f, step, NoCases, n, Casing)
  <2> HIDE DEF step, n
  <2> QED
    BY <1>1, <1>2, <1>3, Scan
<1>5. f = next(f)
  <2> HIDE DEF n
  <2>1. /\ f \in [0 .. n -> Casing] /\ f[0] = NoCases
        /\ \A k \in 1 .. n : f[k] = step[<<f[k - 1], k>>]
    <3> HIDE DEF step
    <3> QED
      BY <1>4 DEF Scans
  <2>2. ASSUME NEW k \in 1 .. n
        PROVE  f[k] = ReadCase(f[k - 1], text, k)
    <3>1. <<f[k - 1], k>> \in Casing \X (1 .. n)
      BY <1>1, <2>1
    <3> QED
      BY <2>1, <3>1
  <2>3. \A k \in 0 .. n : k # 0 => k \in 1 .. n
    OBVIOUS
  <2>4. \A k \in 0 .. n : f[k] = IF k = 0 THEN NoCases ELSE ReadCase(f[k - 1], text, k)
    BY <2>1, <2>2, <2>3
  <2>5. f = [k \in 0 .. n |-> f[k]]
    BY <2>1
  <2> QED
    BY <2>4, <2>5
<1>6. read = next(read)
  <2> HIDE DEF next
  <2> QED
    BY <1>5
<1>7. SplitBusinessCases(text)
        = FlattenSeq([k \in DOMAIN AllCases(read[n]) |-> SplitEmbedded(AllCases(read[n])[k])])
  BY DEF SplitBusinessCases, AllCases, Intro, NoCases
<1> HIDE DEF read
<1>8. CasesRead(read, text)
  <2>1. read[0] = NoCases /\ \A k \in 1 .. n : read[k] = ReadCase(read[k - 1], text, k)
    <3> HIDE DEF n
    <3>1. 0 \in 0 .. n /\ \A k \in 1 .. n : k # 0 /\ k \in 0 .. n
      BY <1>1
    <3> QED
      BY <1>6, <3>1, Zenon
  <2> QED
    BY <2>1 DEF CasesRead
<1> QED
  BY <1>7, <1>8

LEMMA CasesAllRead ==
  ASSUME NEW text \in Seq(Lines), Ordered(text), NEW f, CasesRead(f, text)
  PROVE  CaseOK(f[Len(text)], text, Len(text))
<1> DEFINE n == Len(text)
           P == {k \in 0 .. n : CaseOK(f[k], text, k)}
<1>1. f[0] = NoCases /\ \A k \in 1 .. n : f[k] = ReadCase(f[k - 1], text, k)
  BY DEF CasesRead
<1>2. n \in Nat
  OBVIOUS
<1>3. 0 \in P
  <2>1. /\ NoCases.out = <<>> /\ NoCases.case = <<>> /\ NoCases.intro = <<>>
        /\ NoCases \in Casing
    BY DEF NoCases, Casing
  <2>2. Ordered(<<>>) /\ ToSet(<<>>) = {} /\ CasesMade(<<>>, text, 0)
    BY DEF Ordered, ToSet, CasesMade
  <2>3. CaseOK(NoCases, text, 0)
    BY <2>1, <2>2 DEF CaseOK
  <2> QED
    BY <1>1, <2>3
<1>4. ASSUME NEW k \in 1 .. n, k - 1 \in P
      PROVE  k \in P
  <2>1. k - 1 \in 0 .. Len(text) - 1 /\ k - 1 + 1 = k
    OBVIOUS
  <2>2. CaseOK(f[k - 1], text, k - 1)
    BY <1>4
  <2>3. CaseOK(ReadCase(f[k - 1], text, k - 1 + 1), text, k - 1 + 1)
    BY <2>1, <2>2, CaseStep
  <2> QED
    BY <1>1, <2>1, <2>3
<1>5. \A k \in 0 .. n : k \in P
  <2> HIDE DEF P, n
  <2> QED
    BY <1>2, <1>3, <1>4, UpTo
<1> QED
  BY <1>2, <1>5

PieceRight(p, text) ==
  /\ p \in PieceSet /\ Ordered(p.lines) /\ ToSet(p.lines) \subseteq ToSet(text)
  /\ \/ \A x \in ToSet(p.lines) : x.mark # "detail"
     \/ p.extra > 0 /\ \E t, u \in 1 .. Len(text) : IsCase(p.lines, text, t, u)

\* The pieces of a procedure: a detail is in one only, and in one if it stands
\* under a title.
CasesOK(out, text) ==
  /\ out \in Seq(PieceSet)
  /\ \A p \in 1 .. Len(out) : PieceRight(out[p], text)
  /\ \A p, r \in 1 .. Len(out) :
       p < r => \A x \in ToSet(out[p].lines) \intersect ToSet(out[r].lines) : x.mark # "detail"
  /\ \A k, t \in 1 .. Len(text) : Detail(text, k) /\ Under(text, k, t) => MadeOf(out, text, k, t)

LEMMA SameLine ==
  ASSUME NEW text \in Seq(Lines), Ordered(text), NEW i \in 1 .. Len(text), NEW j \in 1 .. Len(text),
         text[i] = text[j]
  PROVE  i = j
<1>1. text[i] \in Lines
  OBVIOUS
<1>0. text[i].no \in Nat
  BY <1>1 DEF Lines
<1>2. ~(i < j) /\ ~(j < i)
  BY <1>0 DEF Ordered
<1> QED
  BY <1>2

\* A detail of a case stands under the case's title.
LEMMA CaseUnder ==
  ASSUME NEW text \in Seq(Lines), Ordered(text), NEW ls, NEW t, NEW u, IsCase(ls, text, t, u),
         NEW k \in 1 .. Len(text), text[k] \in ToSet(ls)
  PROVE  k \in t .. u /\ Under(text, k, t)
<1>1. PICK i \in t .. u : text[k] = text[i]
  BY CaseFirst
<1>2. t \in 1 .. Len(text) /\ u \in 1 .. Len(text)
  BY CaseFirst
<1>3. i = k
  BY <1>1, <1>2, SameLine
<1> QED
  BY <1>1, <1>2, <1>3 DEF Under, IsCase

LEMMA OneTitle ==
  ASSUME NEW text, NEW k \in Nat, NEW t, NEW u, Under(text, k, t), Under(text, k, u)
  PROVE  t = u
<1>1. ASSUME NEW a \in 1 .. k, NEW b \in 1 .. k, a < b, Under(text, k, a), Under(text, k, b)
      PROVE  FALSE
  <2>1. b \in a + 1 .. k /\ Title(text, b)
    BY <1>1 DEF Under
  <2> QED
    BY <1>1, <2>1 DEF Under, Opens
<1>2. t \in 1 .. k /\ u \in 1 .. k
  BY DEF Under
<1> QED
  BY <1>1, <1>2

\* A case is a piece that is not split again.
LEMMA CaseWhole ==
  ASSUME NEW text \in Seq(Lines), NEW p \in PieceSet, p.extra > 0,
         NEW t \in 1 .. Len(text), NEW u \in 1 .. Len(text), IsCase(p.lines, text, t, u)
  PROVE  SplitEmbedded(p) = <<p>>
<1> DEFINE ls == p.lines
<1>1. /\ t <= u /\ u <= Len(text) /\ Len(ls) = u - t + 1
      /\ \A i \in 1 .. Len(ls) : ls[i] = text[t + i - 1]
      /\ \A i \in t + 1 .. u : ~Opens(text, i)
  BY DEF IsCase, Stretch
<1>2. ASSUME NEW k \in 2 .. Len(ls), Title(ls, k)
      PROVE  FALSE
  <2> DEFINE i == t + k - 1
  <2>1. i \in t + 1 .. u /\ k \in 1 .. Len(ls)
    BY <1>1
  <2>2. ls[k] = text[i] /\ ~Title(text, i)
    BY <1>1, <2>1 DEF Opens
  <2>3. k < Len(ls) /\ ls[k + 1].mark = "detail"
    <3>1. ls[k].mark # "starter"
      BY <1>2, <2>2 DEF Title
    <3> QED
      BY <1>2, <3>1 DEF Title
  <2>4. k + 1 \in 1 .. Len(ls) /\ t + (k + 1) - 1 = i + 1 /\ i < Len(text)
    <3>1. /\ t \in Nat /\ u \in Nat /\ Len(text) \in Nat /\ k \in Nat /\ 2 <= k
          /\ Len(ls) = u - t + 1 /\ u <= Len(text) /\ k < Len(ls)
      BY <1>1, <2>3
    <3> HIDE DEF ls
    <3> QED
      BY <3>1
  <2>5. text[i + 1].mark = "detail"
    <3>1. ls[k + 1] = text[t + (k + 1) - 1]
      BY <1>1, <2>4
    <3> HIDE DEF i, ls
    <3> QED
      BY <2>3, <2>4, <3>1
  <2> HIDE DEF i, ls
  <2> QED
    BY <1>2, <2>2, <2>4, <2>5 DEF Title
<1> QED
  BY <1>2, EmbeddedWhole

\* Neither is an introduction.
LEMMA IntroWhole ==
  ASSUME NEW p \in PieceSet, p.lines # <<>>,
         \A x \in ToSet(p.lines) : x.mark # "detail" /\ ~Title(<<x>>, 1)
  PROVE  SplitEmbedded(p) = <<p>>
<1>1. p.lines \in Seq(Lines) /\ DOMAIN p.lines = 1 .. Len(p.lines) /\ 1 \in 1 .. Len(p.lines)
  BY DEF PieceSet
<1>2. \A k \in 1 .. Len(p.lines) : p.lines[k].mark # "detail" /\ ~Title(<<p.lines[k]>>, 1)
  BY <1>1 DEF ToSet
<1>3. ASSUME NEW k \in 1 .. Len(p.lines)
      PROVE  ~Title(p.lines, k)
  <2>1. k < Len(p.lines) => k + 1 \in 1 .. Len(p.lines)
    BY <1>1
  <2>2. ~(k < Len(p.lines) /\ p.lines[k + 1].mark = "detail")
    BY <1>2, <2>1
  <2>3. Title(<<p.lines[k]>>, 1) \/ p.lines[k].mark \in {"category", "step", "detail"}
          \/ p.lines[k].words \notin 2 .. 28 \/ p.lines[k].mark # "starter"
    <3>1. PICK l : l = p.lines[k]
      OBVIOUS
    <3>2. <<l>>[1] = l
      OBVIOUS
    <3> QED
      BY <3>1, <3>2, Zenon DEF Title
  <2> QED
    BY <1>2, <2>2, <2>3, Zenon DEF Title
<1>4. \A k \in 2 .. Len(p.lines) : k \in 1 .. Len(p.lines)
  OBVIOUS
<1> QED
  BY <1>1, <1>3, <1>4, EmbeddedWhole

LEMMA CaseOrdered ==
  ASSUME NEW text \in Seq(Lines), Ordered(text), NEW ls, NEW t, NEW u, IsCase(ls, text, t, u)
  PROVE  Ordered(ls) /\ ToSet(ls) \subseteq ToSet(text)
<1>1. /\ t \in Nat /\ u \in Nat /\ ls \in Seq(Lines) /\ Len(text) \in Nat
      /\ 1 <= t /\ t <= u /\ u <= Len(text) /\ Len(ls) = u - t + 1
      /\ \A i \in 1 .. Len(ls) : ls[i] = text[t + i - 1]
  BY DEF IsCase, Stretch
<1>2. ASSUME NEW i \in 1 .. Len(ls), NEW j \in 1 .. Len(ls), i < j
      PROVE  ls[i].no < ls[j].no
  <2>1. /\ t + i - 1 \in 1 .. Len(text) /\ t + j - 1 \in 1 .. Len(text)
        /\ t + i - 1 < t + j - 1
    BY <1>1, <1>2
  <2> QED
    BY <1>1, <2>1 DEF Ordered
<1>3. \A x \in ToSet(ls) : \E k \in t .. u : x = text[k]
  BY CaseFirst
<1>4. \A k \in t .. u : k \in DOMAIN text
  BY <1>1
<1>5. ToSet(ls) \subseteq ToSet(text)
  BY <1>3, <1>4 DEF ToSet
<1> QED
  BY <1>2, <1>5 DEF Ordered

LEMMA CasesRight ==
  ASSUME NEW text \in Seq(Lines), Ordered(text)
  PROVE  CasesOK(SplitBusinessCases(text), text)
<1> DEFINE n == Len(text)
<1>1. PICK f : /\ CasesRead(f, text)
               /\ SplitBusinessCases(text)
                     = FlattenSeq([k \in DOMAIN AllCases(f[n]) |-> SplitEmbedded(AllCases(f[n])[k])])
  BY CaseRead
<1>2. PICK s : s = f[n]
  OBVIOUS
<1>3. CaseOK(s, text, n)
  BY <1>1, <1>2, CasesAllRead
<1>4. /\ s.intro \in Seq(Lines) /\ Ordered(s.intro) /\ ToSet(s.intro) \subseteq {text[k] : k \in 1 .. n}
      /\ DOMAIN s.intro = 1 .. Len(s.intro) /\ DOMAIN text = 1 .. n /\ n \in Nat /\ n \in 0 .. Len(text)
  BY <1>3 DEF CaseOK, Casing
<1> DEFINE intro == Intro(s)
           first == Piece(intro, 0)
           cases == EndCase(s)
           all == AllCases(s)
<1>5. /\ intro \in Seq(Lines) /\ Ordered(intro) /\ ToSet(intro) \subseteq ToSet(text)
      /\ \A x \in ToSet(intro) : x.mark # "detail" /\ ~Title(<<x>>, 1)
  <2> DEFINE K == {k \in DOMAIN s.intro : s.intro[k].mark # "detail" /\ ~Title(<<s.intro[k]>>, 1)}
  <2>1. intro = Chosen(s.intro, K)
    BY DEF Intro
  <2>2. \A k \in K : s.intro[k].mark # "detail" /\ ~Title(<<s.intro[k]>>, 1)
    OBVIOUS
  <2> HIDE DEF intro, K
  <2>3. /\ intro \in Seq(Lines) /\ Ordered(intro)
        /\ \A x \in ToSet(intro) : \E k \in 1 .. Len(s.intro) : k \in K /\ x = s.intro[k]
    BY <1>4, <2>1, ChosenFacts
  <2>4. \A k \in 1 .. Len(s.intro) : s.intro[k] \in ToSet(text)
    BY <1>4 DEF ToSet
  <2> QED
    BY <2>2, <2>3, <2>4
<1>6. /\ CasesMade(cases, text, n)
      /\ \A k, t \in 1 .. n : Detail(text, k) /\ Under(text, k, t) => MadeOf(cases, text, k, t)
  BY <1>3, <1>4, CaseClosed
<1>7. /\ cases \in Seq(PieceSet)
      /\ \A p \in 1 .. Len(cases) : /\ cases[p].extra > 0
                                    /\ \E t, u \in 1 .. n : IsCase(cases[p].lines, text, t, u)
      /\ \A p, r \in 1 .. Len(cases) : p < r => cases[p].lines[1].no < cases[r].lines[1].no
  BY <1>6 DEF CasesMade
<1>8. all = IF Words(intro) >= 8 THEN <<first>> \o cases ELSE <<>> \o cases
  BY DEF AllCases
<1>9. first \in PieceSet /\ first.lines = intro
  BY <1>5 DEF Piece, PieceSet
<1> HIDE DEF intro, first, cases, all, n
<1>10. ASSUME NEW p \in 1 .. Len(cases)
       PROVE  PieceRight(cases[p], text) /\ SplitEmbedded(cases[p]) = <<cases[p]>>
  <2>1. PICK t \in 1 .. n, u \in 1 .. n : IsCase(cases[p].lines, text, t, u)
    BY <1>7
  <2>2. cases[p] \in PieceSet /\ cases[p].extra > 0
    BY <1>7
  <2>3. Ordered(cases[p].lines) /\ ToSet(cases[p].lines) \subseteq ToSet(text)
    BY <2>1, CaseOrdered
  <2>4. SplitEmbedded(cases[p]) = <<cases[p]>>
    BY <2>1, <2>2, CaseWhole DEF n
  <2> QED
    BY <2>1, <2>2, <2>3, <2>4 DEF PieceRight, n
<1>11. ASSUME NEW p \in 1 .. Len(cases), NEW r \in 1 .. Len(cases), p < r,
              NEW x \in ToSet(cases[p].lines) \intersect ToSet(cases[r].lines), x.mark = "detail"
       PROVE  FALSE
  <2>1. PICK t \in 1 .. n, u \in 1 .. n : IsCase(cases[p].lines, text, t, u)
    BY <1>7
  <2>2. PICK v \in 1 .. n, w \in 1 .. n : IsCase(cases[r].lines, text, v, w)
    BY <1>7
  <2>3. PICK k \in 1 .. n : x = text[k]
    <3>1. ToSet(cases[p].lines) \subseteq ToSet(text)
      BY <2>1, CaseOrdered
    <3> QED
      BY <1>4, <1>11, <3>1 DEF ToSet
  <2>4. Under(text, k, t) /\ Under(text, k, v)
    BY <1>11, <2>1, <2>2, <2>3, CaseUnder DEF n
  <2>5. t = v
    BY <2>4, OneTitle
  <2>6. cases[p].lines[1] = text[t] /\ cases[r].lines[1] = text[t]
    BY <2>1, <2>2, <2>5, CaseFirst
  <2>7. text[t].no \in Nat
    <3>1. text[t] \in Lines
      BY <1>4
    <3> QED
      BY <3>1 DEF Lines
  <2>8. cases[p].lines[1].no < cases[r].lines[1].no
    BY <1>7, <1>11
  <2>9. text[t].no < text[t].no
    BY <2>6, <2>8
  <2> QED
    BY <2>7, <2>9
<1>12. CasesOK(cases, text)
  BY <1>6, <1>7, <1>10, <1>11 DEF CasesOK, n
<1>13. CasesOK(all, text) /\ \A k \in DOMAIN all : SplitEmbedded(all[k]) = <<all[k]>>
  <2>1. CASE ~(Words(intro) >= 8)
    <3>1. all = cases
      BY <1>7, <1>8, <2>1
    <3>2. DOMAIN cases = 1 .. Len(cases)
      BY <1>7
    <3> QED
      BY <1>10, <1>12, <3>1, <3>2
  <2>2. CASE Words(intro) >= 8
    <3>1. /\ all \in Seq(PieceSet) /\ Len(all) = Len(cases) + 1 /\ all[1] = first
          /\ \A i \in 2 .. Len(cases) + 1 : all[i] = cases[i - 1]
      BY <1>7, <1>8, <1>9, <2>2, HeadFacts
    <3>2. DOMAIN all = 1 .. Len(cases) + 1 /\ Len(cases) \in Nat
      BY <1>7, <3>1
    <3>3. \A i \in 1 .. Len(cases) + 1 : i = 1 \/ (i \in 2 .. Len(cases) + 1 /\ i - 1 \in 1 .. Len(cases))
      BY <3>2
    <3>4. intro # <<>>
      <4>1. ASSUME intro = <<>>
            PROVE  FALSE
        <5>1. Words(<<>>) = 0
          <6>1. <<>> \in Seq(Lines) /\ Len(<<>>) = 0
            OBVIOUS
          <6>2. PICK g : Counts(g, <<>>) /\ Words(<<>>) = g[Len(<<>>)]
            BY <6>1, WordsCounted
          <6> QED
            BY <6>1, <6>2 DEF Counts
        <5> QED
          BY <2>2, <4>1, <5>1
      <4> QED
        BY <4>1
    <3>5. PieceRight(first, text) /\ SplitEmbedded(first) = <<first>>
      BY <1>5, <1>9, <3>4, IntroWhole DEF PieceRight
    <3>6. ASSUME NEW i \in 1 .. Len(cases) + 1
          PROVE  PieceRight(all[i], text) /\ SplitEmbedded(all[i]) = <<all[i]>>
      BY <1>10, <3>1, <3>3, <3>5
    <3>7. ASSUME NEW p \in 1 .. Len(cases) + 1, NEW r \in 1 .. Len(cases) + 1, p < r,
                 NEW x \in ToSet(all[p].lines) \intersect ToSet(all[r].lines), x.mark = "detail"
          PROVE  FALSE
      <4>1. r # 1
        BY <3>7
      <4>2. CASE p = 1
        BY <1>5, <1>9, <3>1, <3>7, <4>2
      <4>3. CASE p # 1
        <5>1. /\ p - 1 \in 1 .. Len(cases) /\ r - 1 \in 1 .. Len(cases) /\ p - 1 < r - 1
              /\ all[p] = cases[p - 1] /\ all[r] = cases[r - 1]
          BY <3>1, <3>3, <3>7, <4>1, <4>3
        <5> QED
          BY <1>11, <3>7, <5>1
      <4> QED
        BY <4>2, <4>3
    <3>8. ASSUME NEW k \in 1 .. n, NEW t \in 1 .. n, Detail(text, k), Under(text, k, t)
          PROVE  MadeOf(all, text, k, t)
      <4>1. PICK p \in 1 .. Len(cases) : cases[p].lines[1] = text[t] /\ text[k] \in ToSet(cases[p].lines)
        BY <1>6, <3>8 DEF MadeOf
      <4>2. p + 1 \in 2 .. Len(cases) + 1 /\ p + 1 \in 1 .. Len(all) /\ p + 1 - 1 = p
        BY <3>1, <3>2
      <4>3. all[p + 1] = cases[p]
        BY <3>1, <4>2
      <4> QED
        BY <4>1, <4>2, <4>3 DEF MadeOf
    <3>9. CasesOK(all, text)
      BY <3>1, <3>6, <3>7, <3>8 DEF CasesOK, n
    <3> QED
      BY <3>2, <3>6, <3>9
  <2> QED
    BY <2>1, <2>2
<1>14. SplitBusinessCases(text) = all
  <2>1. SplitBusinessCases(text) = FlattenSeq([k \in DOMAIN all |-> SplitEmbedded(all[k])])
    BY <1>1, <1>2 DEF all, n
  <2>2. [k \in DOMAIN all |-> SplitEmbedded(all[k])] = [k \in DOMAIN all |-> <<all[k]>>]
    BY <1>13
  <2>3. all \in Seq(PieceSet)
    BY <1>13 DEF CasesOK
  <2> QED
    BY <2>1, <2>2, <2>3, Unflattened
<1> QED
  BY <1>13, <1>14

-----------------------------------------------------------------------------
(* The chunks of a section are its pieces of four words or more.           *)

Chunk == [section : Nat, lines : Seq(Nat), from : Nat, to : Nat]
Place(cs, i) == {c \in DOMAIN cs : cs[c].section = i}
Long(p) == Words(p.lines) + p.extra >= 4

\* g[c] is the piece chunk c was made from.
Matches(g, cs, i, pieces) ==
  /\ g \in [Place(cs, i) -> 1 .. Len(pieces)]
  /\ \A c \in Place(cs, i) : cs[c].lines = Numbers(pieces[g[c]].lines) /\ Long(pieces[g[c]])
  /\ \A c, d \in Place(cs, i) : g[c] = g[d] => c = d
  /\ \A k \in 1 .. Len(pieces) : Long(pieces[k]) => \E c \in Place(cs, i) : g[c] = k
Block(cs, i, pieces) == \E g : Matches(g, cs, i, pieces)

LEMMA GreatestOf ==
  ASSUME NEW n \in Nat, NEW S \in SUBSET (0 .. n), S # {}
  PROVE  Max(S) \in S /\ \A x \in S : x <= Max(S)
<1> DEFINE D == {n - x : x \in S}
<1>0. \A x \in S : x \in 0 .. n
  OBVIOUS
<1>1. D \in SUBSET Nat /\ D # {}
  <2>1. \A x \in S : n - x \in Nat
    BY <1>0
  <2> QED
    BY <2>1
<1>2. PICK d \in D : \A e \in D : d <= e
  <2> HIDE DEF D
  <2> QED
    BY <1>1, LeastOf
<1>3. PICK x \in S : d = n - x
  OBVIOUS
<1>4. ASSUME NEW y \in S
      PROVE  x >= y
  <2>1. n - y \in D
    OBVIOUS
  <2>2. n - x <= n - y
    BY <1>2, <1>3, <2>1
  <2>3. x \in 0 .. n /\ y \in 0 .. n
    BY <1>0
  <2> QED
    BY <2>2, <2>3
<1>5. \E z \in S : \A y \in S : z >= y
  BY <1>4
<1>6. Max(S) \in S /\ \A y \in S : Max(S) >= y
  BY <1>5 DEF Max
<1> QED
  BY <1>6

LEMMA SmallestOf ==
  ASSUME NEW S \in SUBSET Nat, S # {}
  PROVE  Min(S) \in S /\ \A x \in S : Min(S) <= x
<1>1. \E z \in S : \A y \in S : z <= y
  BY LeastOf
<1> QED
  BY <1>1 DEF Min

LEMMA NumbersFacts ==
  ASSUME NEW ls \in Seq(Lines)
  PROVE  /\ Numbers(ls) \in Seq(Nat) /\ Len(Numbers(ls)) = Len(ls)
         /\ \A j \in 1 .. Len(ls) : Numbers(ls)[j] = ls[j].no
         /\ \A n : n \in ToSet(Numbers(ls)) <=> \E x \in ToSet(ls) : x.no = n
<1>1. \A j \in 1 .. Len(ls) : ls[j].no \in Nat
  <2>1. \A j \in 1 .. Len(ls) : ls[j] \in Lines
    OBVIOUS
  <2> QED
    BY <2>1 DEF Lines
<1>2. Numbers(ls) = [j \in 1 .. Len(ls) |-> ls[j].no] /\ DOMAIN ls = 1 .. Len(ls)
  BY DEF Numbers
<1>3. Numbers(ls) \in Seq(Nat) /\ Len(Numbers(ls)) = Len(ls) /\ DOMAIN Numbers(ls) = 1 .. Len(ls)
  BY <1>1, <1>2
<1>4. \A j \in 1 .. Len(ls) : Numbers(ls)[j] = ls[j].no
  BY <1>2
<1>5. \A n : n \in ToSet(Numbers(ls)) <=> \E x \in ToSet(ls) : x.no = n
  BY <1>2, <1>3, <1>4 DEF ToSet
<1> QED
  BY <1>3, <1>4, <1>5

\* The number of a line of a section names that line.
LEMMA HeldLine ==
  ASSUME NEW text \in Seq(Lines), Ordered(text), NEW ls \in Seq(Lines),
         ToSet(ls) \subseteq ToSet(text), NEW k \in 1 .. Len(text)
  PROVE  text[k].no \in ToSet(Numbers(ls)) <=> text[k] \in ToSet(ls)
<1>1. ASSUME NEW x \in ToSet(ls), x.no = text[k].no
      PROVE  x = text[k]
  <2>1. PICK j \in 1 .. Len(text) : x = text[j]
    BY DEF ToSet
  <2>2. text[k] \in Lines
    OBVIOUS
  <2>3. text[k].no \in Nat
    BY <2>2 DEF Lines
  <2>4. ~(j < k) /\ ~(k < j)
    BY <1>1, <2>1, <2>3 DEF Ordered
  <2>5. j = k
    BY <2>4
  <2> QED
    BY <2>1, <2>5
<1> QED
  BY <1>1, NumbersFacts

\* The pieces are made of lines of the section.
Cover(pieces, text) ==
  /\ pieces \in Seq(PieceSet)
  /\ \A p \in 1 .. Len(pieces) : ToSet(pieces[p].lines) \subseteq ToSet(text)

\* A line is in the chunks made from the pieces that hold it.
LEMMA HeldChunk ==
  ASSUME NEW text \in Seq(Lines), Ordered(text), NEW pieces, Cover(pieces, text),
         NEW cs, NEW i, NEW g, Matches(g, cs, i, pieces),
         NEW c \in Place(cs, i), NEW k \in 1 .. Len(text)
  PROVE  text[k].no \in ToSet(cs[c].lines) <=> text[k] \in ToSet(pieces[g[c]].lines)
<1>1. g[c] \in 1 .. Len(pieces) /\ cs[c].lines = Numbers(pieces[g[c]].lines)
  BY DEF Matches
<1>2. pieces[g[c]] \in PieceSet /\ ToSet(pieces[g[c]].lines) \subseteq ToSet(text)
  BY <1>1 DEF Cover
<1>3. pieces[g[c]].lines \in Seq(Lines)
  BY <1>2 DEF PieceSet
<1> QED
  BY <1>1, <1>2, <1>3, HeldLine

\* A line that is in one long piece only is in one chunk only.
LEMMA HeldOnce ==
  ASSUME NEW text \in Seq(Lines), Ordered(text), NEW pieces, Cover(pieces, text),
         NEW cs, NEW i, NEW g, Matches(g, cs, i, pieces), NEW k \in 1 .. Len(text),
         NEW p \in 1 .. Len(pieces), Long(pieces[p]), text[k] \in ToSet(pieces[p].lines),
         \A r \in 1 .. Len(pieces) : text[k] \in ToSet(pieces[r].lines) => r = p
  PROVE  \E c \in Place(cs, i) : /\ g[c] = p
                                 /\ {d \in Place(cs, i) : text[k].no \in ToSet(cs[d].lines)} = {c}
<1>1. PICK c \in Place(cs, i) : g[c] = p
  BY DEF Matches
<1>2. text[k].no \in ToSet(cs[c].lines)
  BY <1>1, HeldChunk
<1>3. ASSUME NEW d \in Place(cs, i), text[k].no \in ToSet(cs[d].lines)
      PROVE  d = c
  <2>1. text[k] \in ToSet(pieces[g[d]].lines)
    BY <1>3, HeldChunk
  <2>2. g[d] \in 1 .. Len(pieces)
    BY DEF Matches
  <2> QED
    BY <1>1, <2>1, <2>2 DEF Matches
<1> QED
  BY <1>1, <1>2, <1>3

-----------------------------------------------------------------------------
(* What the pieces are, the chunks show.                                   *)

\* The four statements of TextKept, of section i and its text.
OpenersTo(text, k) == {j \in 1 .. k : Opens(text, j)}
DetailsFor(cs, i, text) ==
  \A k \in 1 .. Len(text) :
    Detail(text, k) /\ OpenersTo(text, k) # {} /\ text[Max(OpenersTo(text, k))].mark # "category" =>
      \E c \in Place(cs, i) :
        /\ {d \in Place(cs, i) : text[k].no \in ToSet(cs[d].lines)} = {c}
        /\ cs[c].lines[1] = text[Max(OpenersTo(text, k))].no

LEMMA DetailsKept ==
  ASSUME NEW text \in Seq(Lines), Ordered(text), NEW pieces, CasesOK(pieces, text),
         NEW cs, NEW i, Block(cs, i, pieces)
  PROVE  DetailsFor(cs, i, text)
<1>1. PICK g : Matches(g, cs, i, pieces)
  BY DEF Block
<1>2. /\ pieces \in Seq(PieceSet)
      /\ \A p \in 1 .. Len(pieces) : PieceRight(pieces[p], text)
      /\ \A p, r \in 1 .. Len(pieces) :
           p < r => \A x \in ToSet(pieces[p].lines) \intersect ToSet(pieces[r].lines) : x.mark # "detail"
  BY DEF CasesOK
<1>3. Cover(pieces, text)
  BY <1>2 DEF Cover, PieceRight
<1>4. ASSUME NEW k \in 1 .. Len(text), Detail(text, k), OpenersTo(text, k) # {},
             text[Max(OpenersTo(text, k))].mark # "category"
      PROVE  \E c \in Place(cs, i) :
               /\ {d \in Place(cs, i) : text[k].no \in ToSet(cs[d].lines)} = {c}
               /\ cs[c].lines[1] = text[Max(OpenersTo(text, k))].no
  <2>1. PICK t : t = Max(OpenersTo(text, k))
    OBVIOUS
  <2>2. t \in OpenersTo(text, k) /\ \A x \in OpenersTo(text, k) : x <= t
    <3>1. OpenersTo(text, k) \in SUBSET (0 .. k) /\ k \in Nat
      BY DEF OpenersTo
    <3> QED
      BY <1>4, <2>1, <3>1, GreatestOf
  <2>3. t \in 1 .. k /\ Title(text, t)
    BY <1>4, <2>1, <2>2 DEF OpenersTo, Opens
  <2>4. Under(text, k, t)
    <3>1. ASSUME NEW j \in t + 1 .. k, Opens(text, j)
          PROVE  FALSE
      <4>1. j \in 1 .. k /\ j > t
        BY <2>3
      <4>2. j \in OpenersTo(text, k)
        BY <3>1, <4>1 DEF OpenersTo
      <4> QED
        BY <2>2, <2>3, <4>1, <4>2
    <3> QED
      BY <2>3, <3>1 DEF Under
  <2>5. PICK p \in 1 .. Len(pieces) : pieces[p].lines[1] = text[t] /\ text[k] \in ToSet(pieces[p].lines)
    <3>1. MadeOf(pieces, text, k, t)
      <4>1. t \in 1 .. Len(text)
        BY <2>3
      <4> QED
        BY <1>4, <2>4, <4>1 DEF CasesOK
    <3> QED
      BY <3>1 DEF MadeOf
  <2> DEFINE ls == pieces[p].lines
             x == text[k]
  <2>6. x.mark = "detail"
    BY <1>4 DEF Detail
  <2>7. /\ pieces[p] \in PieceSet /\ pieces[p].extra > 0
        /\ \E u, v \in 1 .. Len(text) : IsCase(ls, text, u, v)
    BY <1>2, <2>5, <2>6 DEF PieceRight
  <2>8. ls \in Seq(Lines) /\ pieces[p].extra \in Nat
    BY <2>7 DEF PieceSet
  <2>9. Long(pieces[p])
    <3>1. k # t
      BY <2>3, <2>6 DEF Title
    <3>2. PICK j \in 1 .. Len(ls) : ls[j] = text[k]
      BY <2>5, <2>8 DEF ToSet
    <3>3. j # 1
      <4>1. t \in 1 .. Len(text)
        BY <2>3
      <4> QED
        BY <2>5, <3>1, <3>2, <4>1, SameLine
    <3>4. Len(ls) >= 2 /\ Len(ls) \in Nat /\ ls # <<>>
      BY <2>8, <3>2, <3>3
    <3>5. PICK f \in 2 .. 28 : f = ls[1].words
      <4>1. text[t].words \in 2 .. 28
        BY <2>3 DEF Title
      <4> QED
        BY <2>5, <4>1
    <3>6. Words(ls) \in Nat /\ Words(ls) >= ls[1].words + Len(ls) - 1
      BY <2>8, <3>4, WordsBounds
    <3> HIDE DEF ls
    <3>7. Words(ls) + pieces[p].extra >= 4
      <4>1. PICK w \in Nat, e \in Nat, n \in Nat :
              w = Words(ls) /\ e = pieces[p].extra /\ n = Len(ls)
        BY <2>8, <3>4, <3>6
      <4>2. f >= 2 /\ n >= 2 /\ w >= f + n - 1 /\ e > 0
        <5>1. n >= 2
          BY <3>4, <4>1
        <5>2. w >= f + n - 1
          BY <3>5, <3>6, <4>1
        <5>3. e > 0
          BY <2>7, <4>1
        <5> QED
          BY <5>1, <5>2, <5>3
      <4>3. w + e >= 4
        BY <4>2
      <4> QED
        BY <4>1, <4>3
    <3> QED
      BY <3>7 DEF Long, ls
  <2>10. \A r \in 1 .. Len(pieces) : text[k] \in ToSet(pieces[r].lines) => r = p
    <3>1. ASSUME NEW r \in 1 .. Len(pieces), text[k] \in ToSet(pieces[r].lines)
          PROVE  ~(r < p) /\ ~(p < r)
      BY <1>2, <2>5, <2>6, <3>1
    <3> QED
      BY <3>1
  <2>11. PICK c \in Place(cs, i) : /\ g[c] = p
                                  /\ {d \in Place(cs, i) : text[k].no \in ToSet(cs[d].lines)} = {c}
    BY <1>1, <1>3, <2>5, <2>9, <2>10, HeldOnce
  <2>12. cs[c].lines[1] = text[t].no
    <3>1. cs[c].lines = Numbers(ls)
      BY <1>1, <2>11 DEF Matches
    <3>2. 1 \in 1 .. Len(ls)
      <4>1. PICK j \in 1 .. Len(ls) : ls[j] = text[k]
        BY <2>5, <2>8 DEF ToSet
      <4> QED
        BY <2>8, <4>1
    <3>3. Numbers(ls)[1] = ls[1].no
      BY <2>8, <3>2, NumbersFacts
    <3> QED
      BY <2>5, <3>1, <3>3
  <2> QED
    BY <2>1, <2>11, <2>12
<1> QED
  BY <1>4 DEF DetailsFor

Askers(text) == {j \in 1 .. Len(text) : Question(text, j)}
Asked(text, k) == {j \in Askers(text) : j < k}
Asker(text, k) == IF Asked(text, k) = {} THEN Min(Askers(text)) ELSE Max(Asked(text, k))
AnswersFor(cs, i, text) ==
  \A k \in 1 .. Len(text) : ~Question(text, k) /\ Askers(text) # {} =>
    \A c \in {d \in Place(cs, i) : \/ text[k].no \in ToSet(cs[d].lines)
                                   \/ text[Asker(text, k)].no \in ToSet(cs[d].lines)} :
      /\ {d \in Place(cs, i) : text[k].no \in ToSet(cs[d].lines)} = {c}
      /\ cs[c].lines[1] = text[Asker(text, k)].no

\* A line that is no question belongs to one question.
LEMMA AskerRight ==
  ASSUME NEW text \in Seq(Lines), NEW k \in 1 .. Len(text), ~Question(text, k), Askers(text) # {}
  PROVE  /\ Asker(text, k) \in Askers(text) /\ k \in Mine(text, Asker(text, k))
         /\ \A j \in Askers(text) : k \in Mine(text, j) => j = Asker(text, k)
         /\ \A j \in Askers(text) : Asker(text, k) \in Mine(text, j) => j = Asker(text, k)
<1> DEFINE q == Asker(text, k)
           Q == Askers(text)
<1>1. Q \in SUBSET Nat /\ \A j \in Q : j \in 1 .. Len(text) /\ Question(text, j)
  BY DEF Askers
<1>2. /\ q \in Q
      /\ \/ q < k /\ \A j \in Q : j < k => j <= q
         \/ k < q /\ \A j \in Q : q <= j
  <2>1. CASE Asked(text, k) = {}
    <3>1. q = Min(Q)
      BY <2>1 DEF Asker
    <3>2. q \in Q /\ \A j \in Q : q <= j
      <4> HIDE DEF q, Q
      <4> QED
        BY <1>1, <3>1, SmallestOf DEF Q
    <3>3. ~(q < k) /\ q # k
      BY <1>1, <2>1, <3>2 DEF Asked
    <3> QED
      BY <1>1, <3>2, <3>3
  <2>2. CASE Asked(text, k) # {}
    <3>1. q = Max(Asked(text, k))
      BY <2>2 DEF Asker
    <3>2. Asked(text, k) \in SUBSET (0 .. k) /\ k \in Nat
      BY <1>1 DEF Asked
    <3>3. q \in Asked(text, k) /\ \A x \in Asked(text, k) : x <= q
      <4> HIDE DEF q
      <4> QED
        BY <2>2, <3>1, <3>2, GreatestOf
    <3> HIDE DEF q
    <3> QED
      BY <3>3 DEF Asked
  <2> QED
    BY <2>1, <2>2
<1> HIDE DEF q, Q
<1>3. \A j \in 1 .. Len(text) : Question(text, j) <=> j \in Q
  BY DEF Q, Askers
<1>4. k \in Mine(text, q)
  <2>1. CASE q < k
    <3>1. ASSUME NEW i \in q + 1 .. k, Question(text, i)
          PROVE  FALSE
      <4>1. i \in 1 .. Len(text) /\ i > q
        BY <1>1, <1>2, <3>1
      <4>2. i < k
        <5>1. i # k
          BY <3>1
        <5>2. q \in Nat /\ i \in q + 1 .. k
          BY <1>1, <1>2, <3>1
        <5> QED
          BY <5>1, <5>2
      <4> QED
        BY <1>1, <1>2, <1>3, <3>1, <4>1, <4>2
    <3> QED
      BY <1>1, <1>2, <2>1, <3>1 DEF Mine
  <2>2. CASE ~(q < k)
    <3>1. ASSUME NEW i \in 1 .. q - 1, Question(text, i)
          PROVE  FALSE
      <4>1. i \in 1 .. Len(text) /\ i < q
        BY <1>1, <1>2
      <4> QED
        BY <1>1, <1>2, <1>3, <2>2, <3>1, <4>1
    <3> QED
      BY <1>1, <1>2, <2>2, <3>1 DEF Mine
  <2> QED
    BY <2>1, <2>2
<1>5. ASSUME NEW j \in Q, k \in Mine(text, j)
      PROVE  j = q
  <2>1. j \in 1 .. Len(text) /\ q \in 1 .. Len(text) /\ Question(text, j) /\ Question(text, q)
    BY <1>1, <1>2
  <2>2. j # k
    BY <2>1
  <2>3. CASE j < k
    <3>1. \A i \in j + 1 .. k : ~Question(text, i)
      BY <1>5, <2>1, <2>3 DEF Mine
    <3>2. q < k
      BY <1>2, <2>1, <2>3
    <3>3. ~(j < q)
      BY <2>1, <3>1, <3>2
    <3> QED
      BY <1>2, <2>1, <2>3, <3>2, <3>3
  <2>4. CASE k < j
    <3>1. \A i \in 1 .. j - 1 : ~Question(text, i)
      BY <1>5, <2>1, <2>4 DEF Mine
    <3>2. ~(q < j)
      BY <2>1, <3>1
    <3> QED
      BY <1>2, <2>1, <2>4, <3>2
  <2> QED
    BY <2>1, <2>2, <2>3, <2>4
<1>6. ASSUME NEW j \in Q, q \in Mine(text, j)
      PROVE  j = q
  <2>1. j \in 1 .. Len(text) /\ q \in 1 .. Len(text) /\ Question(text, q)
    BY <1>1, <1>2
  <2> QED
    BY <1>6, <2>1 DEF Mine
<1> QED
  BY <1>2, <1>4, <1>5, <1>6 DEF q, Q

LEMMA AnswersKept ==
  ASSUME NEW text \in Seq(Lines), Ordered(text), NEW pieces, AnswersOK(pieces, text),
         NEW cs, NEW i, Block(cs, i, pieces)
  PROVE  AnswersFor(cs, i, text)
<1>1. PICK g : Matches(g, cs, i, pieces)
  BY DEF Block
<1>2. /\ pieces \in Seq(PieceSet)
      /\ \A p \in 1 .. Len(pieces) : \E j : AnswerOK(pieces[p].lines, text, j)
      /\ \A p, r \in 1 .. Len(pieces) : p < r => pieces[p].lines[1].no < pieces[r].lines[1].no
  BY DEF AnswersOK
<1>3. Cover(pieces, text)
  <2>1. ASSUME NEW p \in 1 .. Len(pieces)
        PROVE  ToSet(pieces[p].lines) \subseteq ToSet(text)
    <3>1. PICK j : AnswerOK(pieces[p].lines, text, j)
      BY <1>2
    <3>2. ToSet(pieces[p].lines) = {text[k] : k \in Mine(text, j)}
      BY <3>1 DEF AnswerOK
    <3>3. Mine(text, j) \subseteq DOMAIN text
      BY DEF Mine
    <3> QED
      BY <3>2, <3>3 DEF ToSet
  <2> QED
    BY <1>2, <2>1 DEF Cover
<1>4. ASSUME NEW k \in 1 .. Len(text), ~Question(text, k), Askers(text) # {},
             NEW c \in Place(cs, i),
             \/ text[k].no \in ToSet(cs[c].lines)
             \/ text[Asker(text, k)].no \in ToSet(cs[c].lines)
      PROVE  /\ {d \in Place(cs, i) : text[k].no \in ToSet(cs[d].lines)} = {c}
             /\ cs[c].lines[1] = text[Asker(text, k)].no
  <2>1. PICK q : q = Asker(text, k)
    OBVIOUS
  <2>2. /\ q \in Askers(text) /\ k \in Mine(text, q)
        /\ \A j \in Askers(text) : k \in Mine(text, j) => j = q
        /\ \A j \in Askers(text) : q \in Mine(text, j) => j = q
    BY <1>4, <2>1, AskerRight
  <2>3. q \in 1 .. Len(text)
    BY <2>2 DEF Askers
  <2>4. ASSUME NEW d \in Place(cs, i), NEW m \in {k, q}, text[m].no \in ToSet(cs[d].lines)
        PROVE  /\ g[d] \in 1 .. Len(pieces) /\ pieces[g[d]].lines[1] = text[q]
               /\ text[k] \in ToSet(pieces[g[d]].lines)
               /\ cs[d].lines[1] = text[q].no
    <3>1. m \in 1 .. Len(text)
      BY <2>3
    <3>2. text[m] \in ToSet(pieces[g[d]].lines)
      BY <1>1, <1>3, <2>4, <3>1, HeldChunk
    <3>3. g[d] \in 1 .. Len(pieces) /\ cs[d].lines = Numbers(pieces[g[d]].lines)
      BY <1>1 DEF Matches
    <3>4. PICK j : AnswerOK(pieces[g[d]].lines, text, j)
      BY <1>2, <3>3
    <3> DEFINE ls == pieces[g[d]].lines
    <3>5. /\ j \in 1 .. Len(text) /\ Question(text, j) /\ ls \in Seq(Lines) /\ ls # <<>>
          /\ ls[1] = text[j] /\ ToSet(ls) = {text[n] : n \in Mine(text, j)}
      BY <3>4 DEF AnswerOK
    <3>6. PICK n \in Mine(text, j) : text[m] = text[n]
      BY <3>2, <3>5
    <3>7. n = m
      <4>1. n \in 1 .. Len(text)
        BY DEF Mine
      <4> QED
        BY <3>1, <3>6, <4>1, SameLine
    <3>8. j = q
      <4>1. j \in Askers(text)
        BY <3>5 DEF Askers
      <4> QED
        BY <2>2, <3>7, <4>1
    <3>9. cs[d].lines[1] = text[q].no
      <4>1. 1 \in 1 .. Len(ls)
        BY <3>5
      <4>2. Numbers(ls)[1] = ls[1].no
        BY <3>5, <4>1, NumbersFacts
      <4> QED
        BY <3>3, <3>5, <3>8, <4>2
    <3> QED
      BY <2>2, <3>3, <3>5, <3>8, <3>9
  <2>5. k \in {k, q} /\ q \in {k, q}
    OBVIOUS
  <2>6. /\ g[c] \in 1 .. Len(pieces) /\ pieces[g[c]].lines[1] = text[q]
        /\ text[k] \in ToSet(pieces[g[c]].lines)
        /\ cs[c].lines[1] = text[q].no
    BY <1>4, <2>1, <2>4, <2>5
  <2>7. text[k].no \in ToSet(cs[c].lines)
    BY <1>1, <1>3, <2>6, HeldChunk
  <2>8. ASSUME NEW d \in Place(cs, i), text[k].no \in ToSet(cs[d].lines)
        PROVE  d = c
    <3>1. g[d] \in 1 .. Len(pieces) /\ pieces[g[d]].lines[1] = text[q]
      BY <2>4, <2>5, <2>8
    <3>2. text[q].no \in Nat
      <4>1. text[q] \in Lines
        BY <2>3
      <4> QED
        BY <4>1 DEF Lines
    <3>3. ~(g[d] < g[c]) /\ ~(g[c] < g[d])
      <4>1. pieces[g[c]].lines[1].no = text[q].no /\ pieces[g[d]].lines[1].no = text[q].no
        BY <2>6, <3>1
      <4>2. ~(text[q].no < text[q].no)
        BY <3>2
      <4> QED
        BY <1>2, <2>6, <3>1, <4>1, <4>2
    <3>4. g[d] = g[c]
      BY <2>6, <3>1, <3>3
    <3> QED
      BY <1>1, <3>4 DEF Matches
  <2> QED
    BY <2>1, <2>6, <2>7, <2>8
<1> QED
  BY <1>4 DEF AnswersFor

First(type) == IF type = "faq" THEN 2 ELSE 1
PieceOK(p, type, text) ==
  /\ p \in PieceSet /\ ToSet(p.lines) \subseteq ToSet(text)
  /\ \A i, j \in First(type) .. Len(p.lines) : i < j => p.lines[i].no < p.lines[j].no
PiecesOK(pieces, type, text) ==
  pieces \in Seq(PieceSet) /\ \A p \in 1 .. Len(pieces) : PieceOK(pieces[p], type, text)

\* The lines chosen one by one are pieces.
LEMMA SinglyRight ==
  ASSUME NEW text \in Seq(Lines), Ordered(text), NEW K
  PROVE  PiecesOK(Singly(Chosen(text, K)), "rules", text)
<1> DEFINE c == Chosen(text, K)
           out == Singly(c)
<1>1. /\ c \in Seq(Lines)
      /\ \A x \in ToSet(c) : \E k \in 1 .. Len(text) : k \in K /\ x = text[k]
  BY ChosenFacts
<1> HIDE DEF c
<1>2. /\ out = [k \in 1 .. Len(c) |-> Piece(<<c[k]>>, 0)] /\ Len(c) \in Nat /\ DOMAIN c = 1 .. Len(c)
  BY <1>1 DEF Singly
<1>3. ASSUME NEW k \in 1 .. Len(c)
      PROVE  PieceOK(Piece(<<c[k]>>, 0), "rules", text)
  <2>1. c[k] \in Lines /\ c[k] \in ToSet(c)
    BY <1>1, <1>2 DEF ToSet
  <2>2. c[k] \in ToSet(text)
    <3>1. DOMAIN text = 1 .. Len(text)
      OBVIOUS
    <3> QED
      BY <1>1, <2>1, <3>1 DEF ToSet
  <2>3. PICK x \in Lines : x = c[k]
    BY <2>1
  <2>4. <<x>> \in Seq(Lines) /\ Len(<<x>>) = 1 /\ ToSet(<<x>>) = {x}
    BY DEF ToSet
  <2>5. Piece(<<x>>, 0) \in PieceSet /\ Piece(<<x>>, 0).lines = <<x>>
    BY <2>4 DEF Piece, PieceSet
  <2>6. \A i, j \in 1 .. Len(<<x>>) : ~(i < j)
    BY <2>4
  <2> QED
    BY <2>2, <2>3, <2>4, <2>5, <2>6 DEF PieceOK, First
<1>4. \A k \in 1 .. Len(c) : Piece(<<c[k]>>, 0) \in PieceSet
  BY <1>3 DEF PieceOK
<1>5. /\ out \in Seq(PieceSet) /\ Len(out) = Len(c)
      /\ \A k \in 1 .. Len(c) : out[k] = Piece(<<c[k]>>, 0)
  BY <1>2, <1>4
<1> HIDE DEF out
<1>6. PiecesOK(out, "rules", text)
  BY <1>3, <1>5 DEF PiecesOK
<1> QED
  BY <1>6 DEF out, c

LEMMA PiecesRight ==
  ASSUME NEW s \in Section, Ordered(s.text), s.type # "generic"
  PROVE  PiecesOK(Pieces(s), s.type, s.text)
<1>1. s.text \in Seq(Lines) /\ s.type \in {"rules", "faq", "questions", "key_points", "procedure"}
  BY DEF Section, SectionTypes
<1>2. CASE s.type = "rules"
  <2>1. Pieces(s) = SplitRules(s.text)
    BY <1>2 DEF Pieces
  <2> QED
    BY <1>1, <1>2, <2>1, SinglyRight DEF SplitRules
<1>3. CASE s.type = "questions"
  <2>1. Pieces(s) = SplitQuestions(s.text)
    BY <1>3 DEF Pieces
  <2>2. PiecesOK(SplitQuestions(s.text), "rules", s.text)
    BY <1>1, SinglyRight DEF SplitQuestions
  <2>3. First("questions") = First("rules")
    BY DEF First
  <2> QED
    BY <1>3, <2>1, <2>2, <2>3 DEF PiecesOK, PieceOK
<1>4. CASE s.type = "faq"
  <2>1. Pieces(s) = SplitFaq(s.text)
    BY <1>4 DEF Pieces
  <2>2. AnswersOK(SplitFaq(s.text), s.text)
    BY <1>1, FaqRight
  <2>3. ASSUME NEW p \in 1 .. Len(SplitFaq(s.text))
        PROVE  PieceOK(SplitFaq(s.text)[p], "faq", s.text)
    <3>1. PICK j : AnswerOK(SplitFaq(s.text)[p].lines, s.text, j)
      BY <2>2 DEF AnswersOK
    <3>2. SplitFaq(s.text)[p] \in PieceSet
      BY <2>2 DEF AnswersOK
    <3>3. ToSet(SplitFaq(s.text)[p].lines) \subseteq ToSet(s.text)
      <4>1. Mine(s.text, j) \subseteq DOMAIN s.text
        BY <1>1 DEF Mine
      <4> QED
        BY <3>1, <4>1 DEF AnswerOK, ToSet
    <3>4. First("faq") = 2
      BY DEF First
    <3> QED
      BY <3>1, <3>2, <3>3, <3>4 DEF PieceOK, AnswerOK
  <2> QED
    BY <1>4, <2>1, <2>2, <2>3 DEF PiecesOK, AnswersOK
<1>5. CASE s.type = "key_points"
  <2>1. Pieces(s) = SplitKeyPoints(s.text)
    BY <1>5 DEF Pieces
  <2>2. GroupsOK(SplitKeyPoints(s.text), s.text, Len(s.text))
    BY <1>1, PointsRight
  <2>3. First("key_points") = 1 /\ DOMAIN s.text = 1 .. Len(s.text)
    BY <1>1 DEF First
  <2>4. {s.text[k] : k \in 1 .. Len(s.text)} = ToSet(s.text)
    BY <2>3 DEF ToSet
  <2>5. ASSUME NEW p \in 1 .. Len(SplitKeyPoints(s.text))
        PROVE  PieceOK(SplitKeyPoints(s.text)[p], "key_points", s.text)
    <3>1. PICK q : q = SplitKeyPoints(s.text)[p]
      OBVIOUS
    <3>2. q \in PieceSet /\ Ordered(q.lines) /\ ToSet(q.lines) \subseteq ToSet(s.text)
      BY <2>2, <2>4, <3>1 DEF GroupsOK
    <3>3. PieceOK(q, "key_points", s.text)
      BY <2>3, <3>2 DEF PieceOK, Ordered
    <3> QED
      BY <3>1, <3>3
  <2> QED
    BY <1>5, <2>1, <2>2, <2>5 DEF PiecesOK, GroupsOK
<1>6. CASE s.type = "procedure"
  <2>1. Pieces(s) = SplitBusinessCases(s.text)
    BY <1>6 DEF Pieces
  <2>2. CasesOK(SplitBusinessCases(s.text), s.text)
    BY <1>1, CasesRight
  <2>3. First("procedure") = 1
    BY DEF First
  <2>4. ASSUME NEW p \in 1 .. Len(SplitBusinessCases(s.text))
        PROVE  PieceOK(SplitBusinessCases(s.text)[p], "procedure", s.text)
    BY <2>2, <2>3 DEF PieceOK, CasesOK, PieceRight, Ordered
  <2> QED
    BY <1>6, <2>1, <2>2, <2>4 DEF PiecesOK, CasesOK
<1> QED
  BY <1>1, <1>2, <1>3, <1>4, <1>5, <1>6

\* Key points: every line is in one piece, and in its chunk unless that is short.
PointsFor(cs, i, text) ==
  \A k \in 1 .. Len(text) :
    LET holding == {c \in Place(cs, i) : text[k].no \in ToSet(cs[c].lines)}
    IN  (\E c \in Place(cs, i) : holding = {c}) \/ (holding = {} /\ text[k].words < 4)

LEMMA PointsKept ==
  ASSUME NEW text \in Seq(Lines), Ordered(text), NEW cs, NEW i,
         Block(cs, i, SplitKeyPoints(text))
  PROVE  PointsFor(cs, i, text)
<1> DEFINE pieces == SplitKeyPoints(text)
<1>1. PICK g : Matches(g, cs, i, pieces)
  BY DEF Block
<1>2. GroupsOK(pieces, text, Len(text)) /\ \A k \in 1 .. Len(text) : Grouped(pieces, text[k])
  BY PointsRight
<1> HIDE DEF pieces
<1>3. Cover(pieces, text)
  <2>1. {text[k] : k \in 1 .. Len(text)} = ToSet(text)
    BY DEF ToSet
  <2> QED
    BY <1>2, <2>1 DEF GroupsOK, Cover
<1>4. ASSUME NEW k \in 1 .. Len(text)
      PROVE  LET holding == {c \in Place(cs, i) : text[k].no \in ToSet(cs[c].lines)}
             IN  (\E c \in Place(cs, i) : holding = {c}) \/ (holding = {} /\ text[k].words < 4)
  <2>1. PICK p \in 1 .. Len(pieces) : text[k] \in ToSet(pieces[p].lines)
    BY <1>2 DEF Grouped
  <2>2. text[k] \in Lines
    OBVIOUS
  <2>3. text[k].no \in Nat /\ text[k].words \in Nat
    BY <2>2 DEF Lines
  <2>4. ASSUME NEW r \in 1 .. Len(pieces), text[k] \in ToSet(pieces[r].lines)
        PROVE  r = p
    <3>1. ~(r < p) /\ ~(p < r)
      <4>1. ~(text[k].no < text[k].no)
        BY <2>3
      <4> QED
        BY <1>2, <2>1, <2>4, <4>1 DEF GroupsOK
    <3> QED
      BY <3>1
  <2>5. CASE Long(pieces[p])
    <3>1. PICK c \in Place(cs, i) : {d \in Place(cs, i) : text[k].no \in ToSet(cs[d].lines)} = {c}
      BY <1>1, <1>3, <2>1, <2>4, <2>5, HeldOnce
    <3> QED
      BY <3>1
  <2>6. CASE ~Long(pieces[p])
    <3>1. ASSUME NEW c \in Place(cs, i), text[k].no \in ToSet(cs[c].lines)
          PROVE  FALSE
      <4>1. text[k] \in ToSet(pieces[g[c]].lines)
        BY <1>1, <1>3, <3>1, HeldChunk
      <4>2. g[c] \in 1 .. Len(pieces) /\ Long(pieces[g[c]])
        BY <1>1 DEF Matches
      <4> QED
        BY <2>4, <2>6, <4>1, <4>2
    <3>2. text[k].words < 4
      <4>1. pieces[p] \in PieceSet
        BY <1>3 DEF Cover
      <4>2. pieces[p].lines \in Seq(Lines) /\ pieces[p].extra \in Nat
        BY <4>1 DEF PieceSet
      <4>3. PICK j \in 1 .. Len(pieces[p].lines) : pieces[p].lines[j] = text[k]
        BY <2>1, <4>2 DEF ToSet
      <4>4. Words(pieces[p].lines) \in Nat /\ Words(pieces[p].lines) >= text[k].words
        BY <4>2, <4>3, WordsBounds
      <4> QED
        BY <2>3, <2>6, <4>2, <4>4 DEF Long
    <3> QED
      BY <3>1, <3>2
  <2> QED
    BY <2>5, <2>6
<1> QED
  BY <1>4 DEF PointsFor

-----------------------------------------------------------------------------
(* The chunks of the sections that are done stay as they are.              *)

\* The words of a section up to `upto' are in its cuts.
CutsOK(cs, i, total, upto) ==
  /\ \A c \in Place(cs, i) :
       /\ cs[c].lines = <<>> /\ cs[c].to - cs[c].from < MaxWords /\ cs[c].to <= upto
       /\ cs[c].to < upto => c + 1 \in Place(cs, i) /\ cs[c + 1].from = cs[c].to - Overlap + 1
  /\ total >= 4 => /\ \E c \in Place(cs, i) : cs[c].from = 1
                   /\ \E c \in Place(cs, i) : cs[c].to = upto

MadeRight(cs, i, s) ==
  IF s.type = "generic" THEN CutsOK(cs, i, Words(s.text), Words(s.text))
  ELSE Block(cs, i, Pieces(s))

Joined(cs, more) == cs \o more
OfSection(cs, i) == \A k \in 1 .. Len(cs) : cs[k].section = i

LEMMA PlaceStays ==
  ASSUME NEW cs \in Seq(Chunk), NEW more \in Seq(Chunk), NEW v, OfSection(more, v),
         NEW i, i # v, NEW ds, ds = Joined(cs, more)
  PROVE  Place(ds, i) = Place(cs, i) /\ \A c \in Place(cs, i) : ds[c] = cs[c]
<1> DEFINE m == Len(cs)
           n == Len(more)
<1>1. /\ m \in Nat /\ n \in Nat /\ DOMAIN cs = 1 .. m /\ DOMAIN ds = 1 .. m + n
      /\ \A c \in 1 .. m : ds[c] = cs[c]
      /\ \A c \in m + 1 .. m + n : ds[c] = more[c - m]
  BY DEF Joined
<1> HIDE DEF m
<1>2. \A c \in m + 1 .. m + n : ds[c].section = v
  <2>1. \A c \in m + 1 .. m + n : c - m \in 1 .. n
    BY <1>1
  <2> QED
    BY <1>1, <2>1 DEF OfSection, n
<1>3. \A c \in 1 .. m + n : c \in 1 .. m \/ c \in m + 1 .. m + n
  BY <1>1
<1>4. \A c \in 1 .. m : c \in 1 .. m + n
  BY <1>1
<1> HIDE DEF n
<1>5. Place(ds, i) = Place(cs, i)
  BY <1>1, <1>2, <1>3, <1>4 DEF Place
<1>6. \A c \in Place(cs, i) : ds[c] = cs[c]
  BY <1>1 DEF Place
<1> QED
  BY <1>5, <1>6

LEMMA MadeStays ==
  ASSUME NEW cs \in Seq(Chunk), NEW more \in Seq(Chunk), NEW v, OfSection(more, v),
         NEW i, i # v, NEW s, MadeRight(cs, i, s)
  PROVE  MadeRight(Joined(cs, more), i, s)
<1>1. PICK ds : ds = Joined(cs, more)
  OBVIOUS
<1>2. Place(ds, i) = Place(cs, i) /\ \A c \in Place(cs, i) : ds[c] = cs[c]
  BY <1>1, PlaceStays
<1>3. CASE s.type = "generic"
  <2>1. CutsOK(cs, i, Words(s.text), Words(s.text))
    BY <1>3 DEF MadeRight
  <2>2. CutsOK(ds, i, Words(s.text), Words(s.text))
    BY <1>2, <2>1 DEF CutsOK
  <2> QED
    BY <1>1, <1>3, <2>2 DEF MadeRight
<1>4. CASE s.type # "generic"
  <2>1. PICK g : Matches(g, cs, i, Pieces(s))
    BY <1>4 DEF MadeRight, Block
  <2>2. Matches(g, ds, i, Pieces(s))
    BY <1>2, <2>1 DEF Matches
  <2> QED
    BY <1>1, <1>4, <2>2 DEF MadeRight, Block
<1> QED
  BY <1>3, <1>4

LEMMA KeptBlock ==
  ASSUME NEW pieces \in Seq(PieceSet), section \in Nat, NEW cs \in Seq(Chunk), Place(cs, section) = {}
  PROVE  /\ Kept(pieces) \in Seq(Chunk)
         /\ OfSection(Kept(pieces), section)
         /\ Block(Joined(cs, Kept(pieces)), section, pieces)
<1> DEFINE K == {k \in DOMAIN pieces : Words(pieces[k].lines) + pieces[k].extra >= 4}
           kept == Kept(pieces)
           n == Len(pieces)
           m == Len(cs)
<1>1. PICK long : long = Chosen(pieces, K)
  OBVIOUS
<1>2. PICK v : v = section
  OBVIOUS
<1>3. kept = [k \in DOMAIN long |-> [section |-> v, lines |-> Numbers(long[k].lines), from |-> 0, to |-> 0]]
  BY <1>1, <1>2 DEF Kept
<1>4. DOMAIN pieces = 1 .. n /\ n \in Nat /\ \A k \in 1 .. n : k \in K <=> Long(pieces[k])
  BY DEF Long
<1> HIDE DEF K, kept
<1>5. long \in Seq(PieceSet) /\ \E at : Takes(long, at, pieces, n, K)
  BY <1>1, ChosenTakes
<1>6. PICK at : Takes(long, at, pieces, n, K)
  BY <1>5
<1>7. /\ at \in Seq(1 .. n) /\ Len(long) = Len(at)
      /\ \A j \in 1 .. Len(at) : long[j] = pieces[at[j]]
      /\ \A i, j \in 1 .. Len(at) : i < j => at[i] < at[j]
      /\ \A k \in 1 .. n : k \in K <=> \E j \in 1 .. Len(at) : at[j] = k
  BY <1>6 DEF Takes
<1> DEFINE l == Len(at)
<1>8. l \in Nat /\ DOMAIN long = 1 .. l /\ \A j \in 1 .. l : at[j] \in 1 .. n
  BY <1>5, <1>7
<1> HIDE DEF l
<1>9. ASSUME NEW j \in 1 .. l
      PROVE  [section |-> v, lines |-> Numbers(long[j].lines), from |-> 0, to |-> 0] \in Chunk
  <2>1. long[j] \in PieceSet
    BY <1>5, <1>8
  <2>2. long[j].lines \in Seq(Lines)
    BY <2>1 DEF PieceSet
  <2>3. Numbers(long[j].lines) \in Seq(Nat)
    BY <2>2, NumbersFacts
  <2> QED
    BY <1>2, <2>3 DEF Chunk
<1>10. /\ kept \in Seq(Chunk) /\ Len(kept) = l
       /\ \A j \in 1 .. l : kept[j] = [section |-> v, lines |-> Numbers(long[j].lines), from |-> 0, to |-> 0]
  BY <1>3, <1>8, <1>9
<1>11. \A j \in 1 .. l : kept[j].section = v /\ kept[j].lines = Numbers(pieces[at[j]].lines)
  <2>1. \A j \in 1 .. l : long[j] = pieces[at[j]]
    BY <1>7 DEF l
  <2> QED
    BY <1>10, <2>1
<1> DEFINE ds == cs \o kept
<1>12. /\ m \in Nat /\ DOMAIN cs = 1 .. m /\ DOMAIN ds = 1 .. m + l
       /\ \A c \in 1 .. m : ds[c] = cs[c]
       /\ \A c \in m + 1 .. m + l : ds[c] = kept[c - m]
  <2>1. /\ m \in Nat /\ DOMAIN cs = 1 .. m /\ DOMAIN ds = 1 .. m + Len(kept)
        /\ \A c \in 1 .. m : ds[c] = cs[c]
        /\ \A c \in m + 1 .. m + Len(kept) : ds[c] = kept[c - m]
    <3>1. kept \in Seq(Chunk) /\ Len(kept) \in Nat
      BY <1>10
    <3> QED
      BY <3>1
  <2> HIDE DEF ds, m
  <2> QED
    BY <1>10, <2>1
<1> HIDE DEF ds, m, n
<1>13. \A c \in m + 1 .. m + l : c - m \in 1 .. l
  BY <1>8, <1>12
<1>14. \A c \in 1 .. m + l : c \in 1 .. m \/ c \in m + 1 .. m + l
  BY <1>8, <1>12
<1>15. \A c \in m + 1 .. m + l : c \in 1 .. m + l
  BY <1>8, <1>12
<1>16. Place(ds, v) = m + 1 .. m + l
  <2>1. \A c \in 1 .. m : ds[c].section # v
    BY <1>2, <1>12 DEF Place
  <2>2. \A c \in m + 1 .. m + l : ds[c].section = v
    BY <1>11, <1>12, <1>13
  <2> QED
    BY <1>12, <1>14, <1>15, <2>1, <2>2 DEF Place
<1> DEFINE g == [c \in m + 1 .. m + l |-> at[c - m]]
<1>17. \A c \in m + 1 .. m + l : g[c] = at[c - m] /\ g[c] \in 1 .. n /\ c - m \in 1 .. l
  BY <1>8, <1>13
<1>18. g \in [m + 1 .. m + l -> 1 .. n]
  BY <1>17
<1> HIDE DEF g
<1>19. \A c \in m + 1 .. m + l : ds[c].lines = Numbers(pieces[g[c]].lines) /\ Long(pieces[g[c]])
  <2>1. \A j \in 1 .. l : Long(pieces[at[j]])
    BY <1>4, <1>7, <1>8 DEF l, n
  <2> QED
    BY <1>11, <1>12, <1>17, <2>1
<1>20. ASSUME NEW c \in m + 1 .. m + l, NEW d \in m + 1 .. m + l, g[c] = g[d]
       PROVE  c = d
  <2>1. at[c - m] = at[d - m] /\ c - m \in 1 .. l /\ d - m \in 1 .. l
    BY <1>17, <1>20
  <2>2. ~(c - m < d - m) /\ ~(d - m < c - m)
    <3>1. at[c - m] \in Nat
      BY <1>8, <2>1
    <3>2. ~(at[c - m] < at[c - m])
      BY <3>1
    <3> QED
      BY <1>7, <2>1, <3>2 DEF l
  <2> QED
    BY <1>8, <1>12, <2>2
<1>21. ASSUME NEW k \in 1 .. n, Long(pieces[k])
       PROVE  \E c \in m + 1 .. m + l : g[c] = k
  <2>1. PICK j \in 1 .. l : at[j] = k
    BY <1>4, <1>7, <1>21 DEF l, n
  <2> DEFINE c == m + j
  <2>2. c \in m + 1 .. m + l /\ c - m = j
    BY <1>8, <1>12
  <2> HIDE DEF c
  <2>3. g[c] = k
    BY <1>17, <2>1, <2>2
  <2> QED
    BY <2>2, <2>3
<1>22. Matches(g, ds, v, pieces)
  BY <1>16, <1>18, <1>19, <1>20, <1>21 DEF Matches, n
<1> QED
  BY <1>2, <1>10, <1>11, <1>22 DEF Block, ds, kept, OfSection, Joined

-----------------------------------------------------------------------------
(* Cutting by size.                                                        *)

\* The section is cut up to upto = st + Overlap, by the last of the chunks.
Underway(cs, i, st, total) ==
  /\ st > 0 /\ st + Overlap < total /\ total >= 4 /\ CutsOK(cs, i, total, st + Overlap)
  /\ \A c \in Place(cs, i) : cs[c].to = st + Overlap => c = Len(cs)

CutEnd(st, total) == IF st + MaxWords <= total THEN st + MaxWords ELSE total
Cut(i, st, total) == [section |-> i, lines |-> <<>>, from |-> st + 1, to |-> CutEnd(st, total)]

LEMMA CutEnds ==
  ASSUME NEW st \in Nat, NEW total \in Nat, st <= total
  PROVE  /\ CutEnd(st, total) \in Nat /\ CutEnd(st, total) <= total /\ CutEnd(st, total) - st <= MaxWords
         /\ CutEnd(st, total) # total => CutEnd(st, total) = st + MaxWords /\ st + MaxWords < total
         /\ st + Overlap < total => CutEnd(st, total) - st >= 4 /\ st + Overlap < CutEnd(st, total)
         /\ CutEnd(st, total) - st < 4 => CutEnd(st, total) = total
BY ChunkingAssumption DEF CutEnd

LEMMA CutAdded ==
  ASSUME NEW cs \in Seq(Chunk), NEW i \in Nat, NEW st \in Nat, NEW total \in Nat, st <= total,
         \/ st = 0 /\ Place(cs, i) = {}
         \/ Underway(cs, i, st, total),
         CutEnd(st, total) - st >= 4,
         NEW ds, ds = Joined(cs, <<Cut(i, st, total)>>)
  PROVE  /\ CutsOK(ds, i, total, CutEnd(st, total))
         /\ \A c \in Place(ds, i) : ds[c].to = CutEnd(st, total) => c = Len(ds)
<1> DEFINE cut == Cut(i, st, total)
           end == CutEnd(st, total)
           m == Len(cs)
<1>1. /\ end \in Nat /\ end <= total /\ end - st <= MaxWords
      /\ st + Overlap < total => st + Overlap < end
  BY CutEnds
<1>2. /\ MaxWords \in Nat /\ Overlap \in Nat /\ MaxWords >= 4 /\ Overlap >= 3 /\ Overlap < MaxWords
  BY ChunkingAssumption
<1>3. /\ cut \in Chunk /\ cut.section = i /\ cut.lines = <<>> /\ cut.from = st + 1 /\ cut.to = end
  <2>1. <<>> \in Seq(Nat)
    OBVIOUS
  <2> QED
    BY <1>1, <2>1 DEF Cut, Chunk
<1> HIDE DEF cut, end
<1>4. /\ Len(ds) = m + 1 /\ m \in Nat /\ DOMAIN ds = 1 .. m + 1 /\ DOMAIN cs = 1 .. m
      /\ ds[m + 1] = cut /\ \A c \in 1 .. m : ds[c] = cs[c]
  BY <1>3 DEF Joined, cut
<1> HIDE DEF m
<1>5. \A c \in 1 .. m + 1 : c = m + 1 \/ c \in 1 .. m
  BY <1>4
<1>6. m + 1 \in 1 .. m + 1 /\ \A c \in 1 .. m : c \in 1 .. m + 1 /\ c # m + 1
  BY <1>4
<1>7. Place(ds, i) = Place(cs, i) \union {m + 1} /\ \A c \in Place(cs, i) : c \in 1 .. m
  BY <1>3, <1>4, <1>5, <1>6 DEF Place
<1>8. \A c \in Place(cs, i) : ds[c] = cs[c]
  BY <1>4, <1>7
<1>9. cut.to - cut.from < MaxWords
  BY <1>1, <1>2, <1>3
<1>10. CASE st = 0 /\ Place(cs, i) = {}
  <2>1. Place(ds, i) = {m + 1} /\ ds[m + 1].from = 1
    BY <1>3, <1>4, <1>7, <1>10
  <2>2. ~(end < end) /\ end <= end
    BY <1>1
  <2> QED
    BY <1>3, <1>4, <1>9, <2>1, <2>2 DEF CutsOK, end
<1>11. CASE Underway(cs, i, st, total)
  <2> DEFINE upto == st + Overlap
  <2>1. /\ st > 0 /\ upto < total /\ total >= 4
        /\ \A c \in Place(cs, i) : cs[c].to = upto => c = m
        /\ \A c \in Place(cs, i) :
             /\ cs[c].lines = <<>> /\ cs[c].to - cs[c].from < MaxWords /\ cs[c].to <= upto
             /\ cs[c].to < upto => c + 1 \in Place(cs, i) /\ cs[c + 1].from = cs[c].to - Overlap + 1
        /\ \E c \in Place(cs, i) : cs[c].from = 1
    BY <1>11 DEF Underway, CutsOK, m
  <2>2. upto \in Nat /\ upto < end /\ upto - Overlap + 1 = st + 1
    BY <1>1, <1>2, <2>1
  <2> HIDE DEF upto
  <2>3. \A c \in Place(cs, i) : cs[c].to \in Nat
    <3>1. \A c \in 1 .. m : cs[c] \in Chunk
      BY <1>4
    <3> QED
      BY <1>7, <3>1 DEF Chunk
  <2>4. ASSUME NEW c \in Place(ds, i)
        PROVE  /\ ds[c].lines = <<>> /\ ds[c].to - ds[c].from < MaxWords /\ ds[c].to <= end
               /\ ds[c].to < end => c + 1 \in Place(ds, i) /\ ds[c + 1].from = ds[c].to - Overlap + 1
               /\ ds[c].to = end => c = m + 1
    <3>1. CASE c = m + 1
      <4>1. ~(end < end) /\ end <= end
        BY <1>1
      <4> QED
        BY <1>3, <1>4, <1>9, <3>1, <4>1
    <3>2. CASE c \in Place(cs, i)
      <4>1. ds[c] = cs[c] /\ cs[c].to \in Nat /\ cs[c].to <= upto
        BY <1>8, <2>1, <2>3, <3>2
      <4>2. cs[c].to <= end /\ cs[c].to # end
        BY <1>1, <2>2, <4>1
      <4>3. CASE cs[c].to = upto
        <5>1. c = m /\ ds[m + 1].from = st + 1 /\ m + 1 \in Place(ds, i)
          BY <1>3, <1>4, <1>7, <2>1, <3>2, <4>3
        <5>2. ds[c + 1].from = ds[c].to - Overlap + 1
          BY <2>2, <4>1, <4>3, <5>1
        <5> QED
          BY <2>1, <3>2, <4>1, <4>2, <5>1, <5>2
      <4>4. CASE cs[c].to # upto
        <5>1. cs[c].to < upto
          BY <2>2, <4>1, <4>4
        <5>2. c + 1 \in Place(cs, i) /\ cs[c + 1].from = cs[c].to - Overlap + 1
          BY <2>1, <3>2, <5>1
        <5> QED
          BY <1>7, <1>8, <2>1, <3>2, <4>1, <4>2, <5>2
      <4> QED
        BY <4>3, <4>4
    <3> QED
      BY <1>7, <3>1, <3>2
  <2>5. \E c \in Place(ds, i) : ds[c].from = 1
    BY <1>7, <1>8, <2>1
  <2>6. \E c \in Place(ds, i) : ds[c].to = end
    BY <1>3, <1>4, <1>7
  <2> QED
    BY <1>4, <2>4, <2>5, <2>6 DEF CutsOK, end
<1> QED
  BY <1>10, <1>11

-----------------------------------------------------------------------------
(* The states of ChunkSpec.                                                *)

Here(i, ss, n, st) == i \in 1 .. Len(ss) /\ ~ss[i].skip /\ (i < n \/ (i = n /\ st > 0))

ChunkState(a, ss, n, st, cs) ==
  /\ a \in Seq(Lines) /\ ss \in Seq(Section)
  /\ \A i \in 1 .. Len(ss) : SectionOK(ss[i], Len(a))
  /\ n \in 1 .. Len(ss) + 1 /\ st \in Nat /\ cs \in Seq(Chunk)
  /\ \A c \in 1 .. Len(cs) : Here(cs[c].section, ss, n, st)
  /\ \A i \in 1 .. n - 1 : ~ss[i].skip => MadeRight(cs, i, ss[i])
  /\ st > 0 => n <= Len(ss) /\ ~ss[n].skip /\ ss[n].type = "generic"
               /\ Underway(cs, n, st, Words(ss[n].text))

ChunkIInv == ChunkState(article, sections, section, start, chunks)

\* A section that is not begun has no chunks.
LEMMA NotBegun ==
  ASSUME NEW a, NEW ss, NEW n, NEW cs, ChunkState(a, ss, n, 0, cs)
  PROVE  Place(cs, n) = {}
<1>1. \A c \in DOMAIN cs : c \in 1 .. Len(cs)
  BY DEF ChunkState
<1>2. n \in Nat
  BY DEF ChunkState
<1>3. \A c \in 1 .. Len(cs) : cs[c].section < n
  BY DEF ChunkState, Here
<1> QED
  BY <1>1, <1>2, <1>3 DEF Place

LEMMA SectionFacts ==
  ASSUME NEW a, NEW ss, NEW n, NEW st, NEW cs, ChunkState(a, ss, n, st, cs), NEW i \in 1 .. Len(ss)
  PROVE  /\ ss[i] \in Section /\ ss[i].text \in Seq(Lines) /\ ss[i].text # <<>> /\ Ordered(ss[i].text)
         /\ \A k \in 1 .. Len(ss[i].text) : ss[i].text[k].no \in 1 .. Len(a)
         /\ Words(ss[i].text) \in Nat /\ Words(ss[i].text) > 0
<1>1. SectionOK(ss[i], Len(a))
  BY DEF ChunkState
<1>2. /\ ss[i] \in Section /\ ss[i].text \in Seq(Lines) /\ ss[i].text # <<>> /\ Ordered(ss[i].text)
      /\ \A k \in 1 .. Len(ss[i].text) : ss[i].text[k].no \in 1 .. Len(a)
  BY <1>1 DEF SectionOK, Rising, Ordered, Section
<1>3. Words(ss[i].text) \in Nat /\ Words(ss[i].text) >= Len(ss[i].text)
  BY <1>2, WordsBounds
<1>4. Len(ss[i].text) \in Nat /\ Len(ss[i].text) # 0
  BY <1>2
<1> QED
  BY <1>2, <1>3, <1>4

\* Section n is done, with the chunks more.
LEMMA SectionDone ==
  ASSUME NEW a, NEW ss, NEW n, NEW st, NEW cs, ChunkState(a, ss, n, st, cs), n <= Len(ss),
         NEW more \in Seq(Chunk), OfSection(more, n), more # <<>> \/ st > 0 => ~ss[n].skip,
         NEW ds, ds = Joined(cs, more), ~ss[n].skip => MadeRight(ds, n, ss[n])
  PROVE  ChunkState(a, ss, n + 1, 0, ds)
<1>1. /\ a \in Seq(Lines) /\ ss \in Seq(Section)
      /\ \A i \in 1 .. Len(ss) : SectionOK(ss[i], Len(a))
      /\ n \in 1 .. Len(ss) + 1 /\ st \in Nat /\ cs \in Seq(Chunk)
      /\ \A c \in 1 .. Len(cs) : Here(cs[c].section, ss, n, st)
      /\ \A i \in 1 .. n - 1 : ~ss[i].skip => MadeRight(cs, i, ss[i])
  BY DEF ChunkState
<1>2. n + 1 \in 1 .. Len(ss) + 1 /\ n \in 1 .. Len(ss) /\ 0 \in Nat
  BY <1>1
<1> DEFINE l == Len(cs)
           k == Len(more)
<1>3. /\ ds \in Seq(Chunk) /\ Len(ds) = l + k /\ l \in Nat /\ k \in Nat
      /\ \A c \in 1 .. l : ds[c] = cs[c]
      /\ \A c \in l + 1 .. l + k : ds[c] = more[c - l]
  BY <1>1 DEF Joined
<1> HIDE DEF l, k
<1>4. ASSUME NEW c \in 1 .. l + k
      PROVE  Here(ds[c].section, ss, n + 1, 0)
  <2>1. CASE c \in 1 .. l
    <3>1. Here(cs[c].section, ss, n, st) /\ ds[c] = cs[c]
      BY <1>1, <1>3, <2>1 DEF l
    <3> QED
      BY <1>2, <3>1 DEF Here
  <2>2. CASE c \notin 1 .. l
    <3>1. c \in l + 1 .. l + k /\ c - l \in 1 .. k
      BY <1>3, <2>2
    <3>2. ds[c].section = n
      BY <1>3, <3>1 DEF OfSection, k
    <3>3. more # <<>>
      BY <3>1 DEF k
    <3> QED
      BY <1>2, <3>2, <3>3 DEF Here
  <2> QED
    BY <2>1, <2>2
<1>5. ASSUME NEW i \in 1 .. (n + 1) - 1, ~ss[i].skip
      PROVE  MadeRight(ds, i, ss[i])
  <2>1. CASE i = n
    BY <1>5, <2>1
  <2>2. CASE i # n
    <3>1. i \in 1 .. n - 1
      BY <1>2, <2>2
    <3>2. MadeRight(cs, i, ss[i])
      BY <1>1, <1>5, <3>1
    <3> QED
      BY <1>1, <2>2, <3>2, MadeStays
  <2> QED
    BY <2>1, <2>2
<1> QED
  BY <1>1, <1>2, <1>3, <1>4, <1>5 DEF ChunkState

\* A turn of chunk_by_size that is not the last.
LEMMA SectionBegun ==
  ASSUME NEW a, NEW ss, NEW n, NEW st, NEW cs, ChunkState(a, ss, n, st, cs), n <= Len(ss),
         ~ss[n].skip, ss[n].type = "generic", NEW x \in Chunk, x.section = n, NEW new \in Nat,
         NEW ds, ds = Joined(cs, <<x>>), Underway(ds, n, new, Words(ss[n].text))
  PROVE  ChunkState(a, ss, n, new, ds)
<1>1. /\ a \in Seq(Lines) /\ ss \in Seq(Section)
      /\ \A i \in 1 .. Len(ss) : SectionOK(ss[i], Len(a))
      /\ n \in 1 .. Len(ss) + 1 /\ st \in Nat /\ cs \in Seq(Chunk)
      /\ \A c \in 1 .. Len(cs) : Here(cs[c].section, ss, n, st)
      /\ \A i \in 1 .. n - 1 : ~ss[i].skip => MadeRight(cs, i, ss[i])
  BY DEF ChunkState
<1>2. new > 0 /\ n \in 1 .. Len(ss)
  BY <1>1 DEF Underway
<1> DEFINE l == Len(cs)
<1>3. /\ ds \in Seq(Chunk) /\ Len(ds) = l + 1 /\ l \in Nat /\ ds[l + 1] = x
      /\ \A c \in 1 .. l : ds[c] = cs[c]
      /\ <<x>> \in Seq(Chunk) /\ OfSection(<<x>>, n)
  BY <1>1 DEF Joined, OfSection
<1> HIDE DEF l
<1>4. ASSUME NEW c \in 1 .. l + 1
      PROVE  Here(ds[c].section, ss, n, new)
  <2>1. CASE c \in 1 .. l
    <3>1. Here(cs[c].section, ss, n, st) /\ ds[c] = cs[c]
      BY <1>1, <1>3, <2>1 DEF l
    <3> QED
      BY <1>2, <3>1 DEF Here
  <2>2. CASE c = l + 1
    BY <1>2, <1>3, <2>2 DEF Here
  <2> QED
    BY <1>3, <2>1, <2>2
<1>5. ASSUME NEW i \in 1 .. n - 1, ~ss[i].skip
      PROVE  MadeRight(ds, i, ss[i])
  <2>1. i # n /\ MadeRight(cs, i, ss[i])
    BY <1>1, <1>5
  <2> QED
    BY <1>1, <1>3, <2>1, MadeStays
<1> QED
  BY <1>1, <1>2, <1>3, <1>4, <1>5 DEF ChunkState

LEMMA ChunkStarts ==
  ASSUME ChunkInit
  PROVE  ChunkIInv
<1>1. PICK a \in Articles : article = [n \in DOMAIN a |-> Line(a, n)]
  BY DEF ChunkInit
<1>2. PICK b : b = article
  OBVIOUS
<1> DEFINE Raw == [opens : SectionTypes \union {"none"}, mark : Marks, words : Nat \ {0}]
<1>0. Articles \subseteq Seq(Raw)
  BY ArticlesAssumption
<1> HIDE DEF Raw
<1>3. a \in Seq(Raw) /\ DOMAIN a = 1 .. Len(a) /\ Len(a) \in Nat
  <2>1. a \in Seq(Raw)
    BY <1>0
  <2> QED
    BY <2>1
<1>4. \A n \in 1 .. Len(a) : Line(a, n) \in Lines /\ Line(a, n).no = n
  <2>1. \A n \in 1 .. Len(a) : a[n] \in Raw
    BY <1>3
  <2> QED
    BY <1>3, <2>1 DEF Line, Lines, Raw
<1>5. b = [n \in 1 .. Len(a) |-> Line(a, n)]
  BY <1>1, <1>2, <1>3
<1>6. b \in Seq(Lines) /\ Len(b) = Len(a)
  BY <1>3, <1>4, <1>5
<1>7. Numbered(b)
  BY <1>4, <1>5, <1>6 DEF Numbered
<1>8. PICK ss : ss = SplitSections(b)
  OBVIOUS
<1>9. ss \in Seq(Section) /\ \A i \in 1 .. Len(ss) : SectionOK(ss[i], Len(b))
  BY <1>6, <1>7, <1>8, SectionsRight
<1>10. article = b /\ sections = ss /\ section = 1 /\ start = 0 /\ chunks = <<>>
  BY <1>2, <1>8 DEF ChunkInit
<1>11. ChunkState(b, ss, 1, 0, <<>>)
  <2>1. <<>> \in Seq(Chunk) /\ Len(<<>>) = 0 /\ 1 \in 1 .. Len(ss) + 1
    BY <1>9
  <2> QED
    BY <1>6, <1>9, <2>1 DEF ChunkState
<1> QED
  BY <1>10, <1>11 DEF ChunkIInv

LEMMA SkipsOn ==
  ASSUME ChunkIInv, SkipSection
  PROVE  ChunkIInv'
<1>1. PICK a, ss, n, st, cs :
        a = article /\ ss = sections /\ n = section /\ st = start /\ cs = chunks
  OBVIOUS
<1>2. ChunkState(a, ss, n, st, cs) /\ n <= Len(ss) /\ ss[n].skip
  BY <1>1 DEF ChunkIInv, SkipSection
<1>3. cs \in Seq(Chunk) /\ st \in Nat /\ ~(st > 0)
  BY <1>2 DEF ChunkState
<1>4. st = 0
  BY <1>3
<1>5. <<>> \in Seq(Chunk) /\ OfSection(<<>>, n) /\ Joined(cs, <<>>) = cs
  BY <1>3 DEF OfSection, Joined
<1>6. ChunkState(a, ss, n + 1, 0, cs)
  BY <1>2, <1>3, <1>5, SectionDone
<1>7. /\ article' = a /\ sections' = ss /\ section' = n + 1 /\ start' = 0 /\ chunks' = cs
  BY <1>1, <1>4 DEF SkipSection
<1> QED
  BY <1>6, <1>7 DEF ChunkIInv

LEMMA SplitsOn ==
  ASSUME ChunkIInv, SplitSection
  PROVE  ChunkIInv'
<1>1. PICK a, ss, n, st, cs, pieces :
        /\ a = article /\ ss = sections /\ n = section /\ st = start /\ cs = chunks
        /\ pieces = Pieces(ss[n])
  OBVIOUS
<1>2. ChunkState(a, ss, n, st, cs) /\ n <= Len(ss) /\ ~ss[n].skip /\ ss[n].type # "generic"
  BY <1>1 DEF ChunkIInv, SplitSection
<1>3. cs \in Seq(Chunk) /\ st \in Nat /\ n \in 1 .. Len(ss) + 1 /\ ~(st > 0) /\ Len(ss) \in Nat
  BY <1>2 DEF ChunkState
<1>4. st = 0 /\ n \in 1 .. Len(ss) /\ section \in Nat
  BY <1>1, <1>2, <1>3
<1>5. Place(cs, n) = {}
  BY <1>2, <1>4, NotBegun
<1>6. pieces \in Seq(PieceSet)
  <2>1. ss[n] \in Section /\ Ordered(ss[n].text)
    BY <1>2, <1>4, SectionFacts
  <2>2. PiecesOK(Pieces(ss[n]), ss[n].type, ss[n].text)
    BY <1>2, <2>1, PiecesRight
  <2> QED
    BY <1>1, <2>2 DEF PiecesOK
<1>7. PICK kept : kept = Kept(pieces)
  OBVIOUS
<1>8. kept \in Seq(Chunk) /\ OfSection(kept, n) /\ Block(Joined(cs, kept), n, pieces)
  BY <1>1, <1>3, <1>4, <1>5, <1>6, <1>7, KeptBlock
<1>9. PICK ds : ds = Joined(cs, kept)
  OBVIOUS
<1>10. MadeRight(ds, n, ss[n])
  BY <1>1, <1>2, <1>8, <1>9 DEF MadeRight
<1>11. ChunkState(a, ss, n + 1, 0, ds)
  BY <1>2, <1>8, <1>9, <1>10, SectionDone
<1>12. /\ article' = a /\ sections' = ss /\ section' = n + 1 /\ start' = 0 /\ chunks' = ds
  BY <1>1, <1>4, <1>7, <1>9 DEF SplitSection, Joined
<1> QED
  BY <1>11, <1>12 DEF ChunkIInv

LEMMA CutsOn ==
  ASSUME ChunkIInv, CutBySize
  PROVE  ChunkIInv'
<1>1. PICK a, ss, n, st, cs, total :
        /\ a = article /\ ss = sections /\ n = section /\ st = start /\ cs = chunks
        /\ total = Words(ss[n].text)
  OBVIOUS
<1>2. ChunkState(a, ss, n, st, cs) /\ n <= Len(ss) /\ ~ss[n].skip /\ ss[n].type = "generic"
  BY <1>1 DEF ChunkIInv, CutBySize
<1>3. cs \in Seq(Chunk) /\ st \in Nat /\ n \in 1 .. Len(ss) + 1 /\ Len(ss) \in Nat
  BY <1>2 DEF ChunkState
<1>4. n \in 1 .. Len(ss) /\ n \in Nat
  BY <1>2, <1>3
<1>5. total \in Nat /\ total > 0
  BY <1>1, <1>2, <1>4, SectionFacts
<1>6. (st = 0 /\ Place(cs, n) = {}) \/ Underway(cs, n, st, total)
  <2>1. CASE st = 0
    BY <1>2, <2>1, NotBegun
  <2>2. CASE st # 0
    <3>1. st > 0
      BY <1>3, <2>2
    <3> QED
      BY <1>1, <1>2, <3>1 DEF ChunkState
  <2> QED
    BY <2>1, <2>2
<1>7. MaxWords \in Nat /\ Overlap \in Nat /\ MaxWords >= 4 /\ Overlap < MaxWords
  BY ChunkingAssumption
<1>8. st <= total /\ (st # 0 => st + Overlap < total)
  <2>1. Underway(cs, n, st, total) => st + Overlap < total
    BY DEF Underway
  <2> QED
    BY <1>3, <1>5, <1>6, <1>7, <2>1
<1>9. PICK end, cut : end = CutEnd(st, total) /\ cut = Cut(n, st, total)
  OBVIOUS
<1>10. /\ end \in Nat /\ end <= total
       /\ end # total => end = st + MaxWords /\ st + MaxWords < total
       /\ st + Overlap < total => end - st >= 4
       /\ end - st < 4 => end = total
  BY <1>3, <1>5, <1>8, <1>9, CutEnds
<1>11. cut \in Chunk /\ cut.section = n
  <2>1. <<>> \in Seq(Nat)
    OBVIOUS
  <2> QED
    BY <1>3, <1>4, <1>9, <1>10, <2>1 DEF Cut, Chunk
<1>12. /\ article' = a /\ sections' = ss
       /\ chunks' = IF end - st < 4 THEN cs ELSE Append(cs, cut)
       /\ start' = IF end = total THEN 0 ELSE st + (MaxWords - Overlap)
       /\ section' = IF end = total THEN n + 1 ELSE n
  <2>1. Min({start + MaxWords, Words(sections[section].text)}) = CutEnd(st, total)
    <3>1. st + MaxWords \in Int /\ total \in Int
      BY <1>3, <1>5, <1>7
    <3>2. Min({st + MaxWords, total}) = CutEnd(st, total)
      BY <3>1, MinOfTwo DEF CutEnd
    <3> QED
      BY <1>1, <3>2
  <2>2. [section |-> section, lines |-> <<>>, from |-> start + 1,
         to |-> Min({start + MaxWords, Words(sections[section].text)})] = cut
    BY <1>1, <1>9, <2>1 DEF Cut
  <2> QED
    BY <1>1, <1>9, <2>1, <2>2 DEF CutBySize
<1>13. CASE end - st < 4
  <2>1. end = total /\ st = 0 /\ total < 4
    <3>1. ~(st + Overlap < total)
      BY <1>3, <1>5, <1>7, <1>10, <1>13
    <3> QED
      BY <1>3, <1>5, <1>8, <1>10, <1>13, <3>1
  <2>2. MadeRight(cs, n, ss[n])
    <3>1. Place(cs, n) = {}
      BY <1>2, <2>1, NotBegun
    <3> QED
      BY <1>1, <1>2, <1>5, <2>1, <3>1 DEF MadeRight, CutsOK
  <2>3. <<>> \in Seq(Chunk) /\ OfSection(<<>>, n) /\ Joined(cs, <<>>) = cs
    BY <1>3 DEF OfSection, Joined
  <2>4. ChunkState(a, ss, n + 1, 0, cs)
    BY <1>2, <2>2, <2>3, SectionDone
  <2>5. chunks' = cs /\ start' = 0 /\ section' = n + 1
    BY <1>12, <1>13, <2>1
  <2> QED
    BY <1>12, <2>4, <2>5 DEF ChunkIInv
<1>14. CASE ~(end - st < 4)
  <2>1. PICK ds : ds = Joined(cs, <<cut>>)
    OBVIOUS
  <2>2. end - st >= 4
    BY <1>3, <1>10, <1>14
  <2>3. /\ CutsOK(ds, n, total, end)
        /\ \A c \in Place(ds, n) : ds[c].to = end => c = Len(ds)
    BY <1>3, <1>4, <1>5, <1>6, <1>8, <1>9, <2>1, <2>2, CutAdded
  <2>4. chunks' = ds
    <3>1. Append(cs, cut) = ds
      BY <1>3, <1>11, <2>1 DEF Joined
    <3> QED
      BY <1>12, <1>14, <3>1
  <2>5. CASE end = total
    <3>1. MadeRight(ds, n, ss[n])
      BY <1>1, <1>2, <2>3, <2>5 DEF MadeRight
    <3>2. <<cut>> \in Seq(Chunk) /\ OfSection(<<cut>>, n)
      BY <1>11 DEF OfSection
    <3>3. ChunkState(a, ss, n + 1, 0, ds)
      BY <1>2, <2>1, <3>1, <3>2, SectionDone
    <3>4. start' = 0 /\ section' = n + 1
      BY <1>12, <2>5
    <3> QED
      BY <1>12, <2>4, <3>3, <3>4 DEF ChunkIInv
  <2>6. CASE end # total
    <3>1. PICK new : new = st + (MaxWords - Overlap)
      OBVIOUS
    <3>2. new \in Nat /\ new > 0 /\ new + Overlap = end /\ end < total /\ total >= 4
      BY <1>3, <1>5, <1>7, <1>10, <2>6, <3>1
    <3>3. Underway(ds, n, new, total)
      BY <2>3, <3>2 DEF Underway
    <3>4. ChunkState(a, ss, n, new, ds)
      BY <1>1, <1>2, <1>11, <2>1, <3>2, <3>3, SectionBegun
    <3>5. start' = new /\ section' = n
      BY <1>12, <2>6, <3>1
    <3> QED
      BY <1>12, <2>4, <3>4, <3>5 DEF ChunkIInv
  <2> QED
    BY <2>5, <2>6
<1> QED
  BY <1>13, <1>14

LEMMA ChunkStep ==
  ASSUME ChunkIInv, [ChunkNext]_chunkVars
  PROVE  ChunkIInv'
<1>1. CASE SkipSection
  BY <1>1, SkipsOn
<1>2. CASE SplitSection
  BY <1>2, SplitsOn
<1>3. CASE CutBySize
  BY <1>3, CutsOn
<1>4. CASE UNCHANGED chunkVars
  BY <1>4 DEF chunkVars, ChunkIInv
<1> QED
  BY <1>1, <1>2, <1>3, <1>4 DEF ChunkNext

LEMMA ChunkInvariance == ChunkSpec => []ChunkIInv
<1>1. ChunkInit => ChunkIInv
  BY ChunkStarts
<1>2. ChunkIInv /\ [ChunkNext]_chunkVars => ChunkIInv'
  BY ChunkStep
<1> QED
  BY <1>1, <1>2, PTL DEF ChunkSpec

\* A chunk has the lines of a piece of its section, or it is a cut.
LEMMA ChunkLines ==
  ASSUME NEW a, NEW ss, NEW n, NEW st, NEW cs, ChunkState(a, ss, n, st, cs),
         NEW c \in 1 .. Len(cs), NEW i, i = cs[c].section
  PROVE  /\ i \in 1 .. Len(ss)
         /\ \/ cs[c].lines = <<>>
            \/ \E p : PieceOK(p, ss[i].type, ss[i].text) /\ cs[c].lines = Numbers(p.lines)
<1>1. Here(i, ss, n, st) /\ cs \in Seq(Chunk) /\ n \in 1 .. Len(ss) + 1 /\ st \in Nat
  BY DEF ChunkState
<1>2. i \in 1 .. Len(ss) /\ ~ss[i].skip /\ (i < n \/ (i = n /\ st > 0))
  BY <1>1 DEF Here
<1>3. c \in Place(cs, i)
  <2>1. c \in DOMAIN cs
    BY <1>1
  <2> QED
    BY <2>1 DEF Place
<1>4. CASE i = n /\ st > 0
  BY <1>3, <1>4 DEF ChunkState, Underway, CutsOK
<1>5. CASE i < n
  <2>1. MadeRight(cs, i, ss[i])
    <3>1. i \in 1 .. n - 1
      BY <1>1, <1>2, <1>5
    <3> QED
      BY <1>2, <3>1 DEF ChunkState
  <2>2. CASE ss[i].type = "generic"
    BY <1>2, <1>3, <2>1, <2>2 DEF MadeRight, CutsOK
  <2>3. CASE ss[i].type # "generic"
    <3>1. PICK g : Matches(g, cs, i, Pieces(ss[i]))
      BY <2>1, <2>3 DEF MadeRight, Block
    <3>2. PiecesOK(Pieces(ss[i]), ss[i].type, ss[i].text)
      BY <1>2, <2>3, SectionFacts, PiecesRight
    <3>3. /\ g[c] \in 1 .. Len(Pieces(ss[i]))
          /\ cs[c].lines = Numbers(Pieces(ss[i])[g[c]].lines)
      BY <1>3, <3>1 DEF Matches
    <3> QED
      BY <1>2, <3>2, <3>3 DEF PiecesOK
  <2> QED
    BY <1>2, <2>2, <2>3
<1> QED
  BY <1>2, <1>4, <1>5

LEMMA ChunkTyped ==
  ASSUME ChunkIInv
  PROVE  ChunkTypeOK
<1>1. PICK a, ss, n, st, cs :
        a = article /\ ss = sections /\ n = section /\ st = start /\ cs = chunks
  OBVIOUS
<1>2. ChunkState(a, ss, n, st, cs)
  BY <1>1 DEF ChunkIInv
<1>3. /\ a \in Seq(Lines) /\ n \in 1 .. Len(ss) + 1 /\ st \in Nat /\ cs \in Seq(Chunk)
      /\ \A c \in 1 .. Len(cs) : Here(cs[c].section, ss, n, st)
  BY <1>2 DEF ChunkState
<1>4. DOMAIN cs = 1 .. Len(cs) /\ DOMAIN a = 1 .. Len(a)
  BY <1>3
<1>5. ASSUME NEW c \in 1 .. Len(cs)
      PROVE  ToSet(cs[c].lines) \subseteq DOMAIN a
  <2>1. PICK i : i = cs[c].section
    OBVIOUS
  <2>2. /\ i \in 1 .. Len(ss)
        /\ \/ cs[c].lines = <<>>
           \/ \E p : PieceOK(p, ss[i].type, ss[i].text) /\ cs[c].lines = Numbers(p.lines)
    BY <1>2, <2>1, ChunkLines
  <2>3. CASE cs[c].lines = <<>>
    BY <2>3 DEF ToSet
  <2>4. ASSUME NEW p, PieceOK(p, ss[i].type, ss[i].text), cs[c].lines = Numbers(p.lines)
        PROVE  ToSet(cs[c].lines) \subseteq DOMAIN a
    <3>1. p.lines \in Seq(Lines) /\ ToSet(p.lines) \subseteq ToSet(ss[i].text)
      BY <2>4 DEF PieceOK, PieceSet
    <3>2. /\ ss[i].text \in Seq(Lines)
          /\ \A k \in 1 .. Len(ss[i].text) : ss[i].text[k].no \in 1 .. Len(a)
      BY <1>2, <2>2, SectionFacts
    <3>3. \A x \in ToSet(ss[i].text) : x.no \in 1 .. Len(a)
      BY <3>2 DEF ToSet
    <3>4. \A m \in ToSet(Numbers(p.lines)) : \E x \in ToSet(p.lines) : x.no = m
      BY <3>1, NumbersFacts
    <3> QED
      BY <1>4, <2>4, <3>1, <3>3, <3>4
  <2> QED
    BY <2>2, <2>3, <2>4
<1> QED
  BY <1>1, <1>3, <1>4, <1>5 DEF ChunkTypeOK, Here

\* The sections that are done.
LEMMA DoneMade ==
  ASSUME NEW a, NEW ss, NEW n, NEW st, NEW cs, ChunkState(a, ss, n, st, cs),
         NEW i \in 1 .. Len(ss), n > i, ~ss[i].skip
  PROVE  MadeRight(cs, i, ss[i])
<1>1. n \in 1 .. Len(ss) + 1 /\ i \in 1 .. n - 1
  BY DEF ChunkState
<1> QED
  BY <1>1 DEF ChunkState

LEMMA DetailsKeep ==
  ASSUME ChunkIInv
  PROVE  DetailsKeepTheirCase
<1>1. PICK a, ss, n, st, cs :
        a = article /\ ss = sections /\ n = section /\ st = start /\ cs = chunks
  OBVIOUS
<1>2. ChunkState(a, ss, n, st, cs)
  BY <1>1 DEF ChunkIInv
<1>3. ss \in Seq(Section) /\ DOMAIN ss = 1 .. Len(ss)
  BY <1>2 DEF ChunkState
<1>4. ASSUME NEW i \in 1 .. Len(ss), n > i, ~ss[i].skip, ss[i].type = "procedure"
      PROVE  DetailsFor(cs, i, ss[i].text) /\ DOMAIN ss[i].text = 1 .. Len(ss[i].text)
  <2>1. ss[i].text \in Seq(Lines) /\ Ordered(ss[i].text)
    BY <1>2, SectionFacts
  <2>2. Block(cs, i, SplitBusinessCases(ss[i].text))
    <3>1. Pieces(ss[i]) = SplitBusinessCases(ss[i].text)
      BY <1>4 DEF Pieces
    <3> QED
      BY <1>2, <1>4, <3>1, DoneMade DEF MadeRight
  <2> QED
    BY <2>1, <2>2, CasesRight, DetailsKept
<1>5. ASSUME NEW i \in DOMAIN sections, Done(i), sections[i].type = "procedure"
      PROVE  LET text == sections[i].text
                 opens(k) == Title(text, k) \/ text[k].mark = "category"
             IN  \A k \in DOMAIN text :
                   LET before == {j \in 1 .. k : opens(j)}
                   IN  text[k].mark = "detail" /\ before # {} /\ text[Max(before)].mark # "category" =>
                         \E c \in ChunksOf(i) : /\ Holding(i, text[k].no) = {c}
                                                /\ chunks[c].lines[1] = text[Max(before)].no
  <2> DEFINE text == sections[i].text
             before(k) == {j \in 1 .. k : Title(text, j) \/ text[j].mark = "category"}
  <2>1. i \in 1 .. Len(ss) /\ n > i /\ ~ss[i].skip /\ ss[i].type = "procedure" /\ text = ss[i].text
    BY <1>1, <1>3, <1>5 DEF Done
  <2>2. DetailsFor(cs, i, text) /\ DOMAIN text = 1 .. Len(text)
    <3> HIDE DEF text
    <3> QED
      BY <1>4, <2>1
  <2>3. ChunksOf(i) = Place(cs, i)
    BY <1>1 DEF ChunksOf, Place
  <2>4. \A m : Holding(i, m) = {d \in Place(cs, i) : m \in ToSet(cs[d].lines)}
    BY <1>1, <2>3 DEF Holding
  <2>5. \A k : before(k) = OpenersTo(text, k)
    BY DEF OpenersTo, Opens
  <2>6. ASSUME NEW k \in DOMAIN text, text[k].mark = "detail", before(k) # {},
               text[Max(before(k))].mark # "category"
        PROVE  \E c \in ChunksOf(i) : /\ Holding(i, text[k].no) = {c}
                                      /\ chunks[c].lines[1] = text[Max(before(k))].no
    <3> HIDE DEF text, before
    <3>1. k \in 1 .. Len(text) /\ Detail(text, k)
      BY <2>2, <2>6 DEF Detail
    <3>2. \E c \in Place(cs, i) :
            /\ {d \in Place(cs, i) : text[k].no \in ToSet(cs[d].lines)} = {c}
            /\ cs[c].lines[1] = text[Max(OpenersTo(text, k))].no
      BY <2>2, <2>5, <2>6, <3>1 DEF DetailsFor
    <3> QED
      BY <1>1, <2>3, <2>4, <2>5, <3>2
  <2> QED
    BY <2>6
<1> QED
  BY <1>5 DEF DetailsKeepTheirCase

LEMMA AnswersKeep ==
  ASSUME ChunkIInv
  PROVE  AnswersKeepTheirQuestion
<1>1. PICK a, ss, n, st, cs :
        a = article /\ ss = sections /\ n = section /\ st = start /\ cs = chunks
  OBVIOUS
<1>2. ChunkState(a, ss, n, st, cs)
  BY <1>1 DEF ChunkIInv
<1>3. ss \in Seq(Section) /\ DOMAIN ss = 1 .. Len(ss)
  BY <1>2 DEF ChunkState
<1>4. ASSUME NEW i \in 1 .. Len(ss), n > i, ~ss[i].skip, ss[i].type = "faq"
      PROVE  AnswersFor(cs, i, ss[i].text) /\ DOMAIN ss[i].text = 1 .. Len(ss[i].text)
  <2>1. ss[i].text \in Seq(Lines) /\ Ordered(ss[i].text)
    BY <1>2, SectionFacts
  <2>2. Block(cs, i, SplitFaq(ss[i].text))
    <3>1. Pieces(ss[i]) = SplitFaq(ss[i].text)
      BY <1>4 DEF Pieces
    <3> QED
      BY <1>2, <1>4, <3>1, DoneMade DEF MadeRight
  <2> QED
    BY <2>1, <2>2, FaqRight, AnswersKept
<1>5. ASSUME NEW i \in DOMAIN sections, Done(i), sections[i].type = "faq"
      PROVE  LET text == sections[i].text
                 questions == {j \in DOMAIN text : text[j].mark = "question"}
             IN  \A k \in DOMAIN text \ questions :
                   LET before == {j \in questions : j < k}
                       mine == IF before = {} THEN Min(questions) ELSE Max(before)
                   IN  questions # {} =>
                         \A c \in Holding(i, text[k].no) \union Holding(i, text[mine].no) :
                           /\ Holding(i, text[k].no) = {c}
                           /\ chunks[c].lines[1] = text[mine].no
  <2> DEFINE text == sections[i].text
             questions == {j \in DOMAIN text : text[j].mark = "question"}
             before(k) == {j \in questions : j < k}
             mine(k) == IF before(k) = {} THEN Min(questions) ELSE Max(before(k))
  <2>1. i \in 1 .. Len(ss) /\ n > i /\ ~ss[i].skip /\ ss[i].type = "faq" /\ text = ss[i].text
    BY <1>1, <1>3, <1>5 DEF Done
  <2>2. AnswersFor(cs, i, text) /\ DOMAIN text = 1 .. Len(text)
    <3> HIDE DEF text
    <3> QED
      BY <1>4, <2>1
  <2>3. \A m : Holding(i, m) = {d \in Place(cs, i) : m \in ToSet(cs[d].lines)}
    BY <1>1 DEF Holding, ChunksOf, Place
  <2>4. questions = Askers(text)
    BY <2>2 DEF Askers, Question
  <2>5. \A k : mine(k) = Asker(text, k)
    <3> HIDE DEF questions, text
    <3>1. \A k : before(k) = Asked(text, k)
      BY <2>4 DEF Asked
    <3> HIDE DEF before
    <3> QED
      BY <2>4, <3>1 DEF Asker
  <2>6. ASSUME NEW k \in DOMAIN text \ questions, questions # {},
               NEW c \in Holding(i, text[k].no) \union Holding(i, text[mine(k)].no)
        PROVE  /\ Holding(i, text[k].no) = {c}
               /\ chunks[c].lines[1] = text[mine(k)].no
    <3> HIDE DEF text, questions, mine
    <3>1. k \in 1 .. Len(text) /\ ~Question(text, k) /\ Askers(text) # {}
      BY <2>2, <2>4, <2>6 DEF Askers
    <3>2. c \in {d \in Place(cs, i) : \/ text[k].no \in ToSet(cs[d].lines)
                                      \/ text[Asker(text, k)].no \in ToSet(cs[d].lines)}
      BY <2>3, <2>5, <2>6
    <3>3. /\ {d \in Place(cs, i) : text[k].no \in ToSet(cs[d].lines)} = {c}
          /\ cs[c].lines[1] = text[Asker(text, k)].no
      BY <2>2, <3>1, <3>2 DEF AnswersFor
    <3> QED
      BY <1>1, <2>3, <2>5, <3>3
  <2> QED
    BY <2>6
<1> QED
  BY <1>5 DEF AnswersKeepTheirQuestion

LEMMA WordsKeep ==
  ASSUME ChunkIInv
  PROVE  WordsCovered
<1>1. PICK a, ss, n, st, cs :
        a = article /\ ss = sections /\ n = section /\ st = start /\ cs = chunks
  OBVIOUS
<1>2. ChunkState(a, ss, n, st, cs)
  BY <1>1 DEF ChunkIInv
<1>3. ss \in Seq(Section) /\ DOMAIN ss = 1 .. Len(ss)
  BY <1>2 DEF ChunkState
<1>4. ASSUME NEW i \in 1 .. Len(ss), n > i, ~ss[i].skip, ss[i].type = "generic"
      PROVE  CutsOK(cs, i, Words(ss[i].text), Words(ss[i].text))
  BY <1>2, <1>4, DoneMade DEF MadeRight
<1>5. \A i : ChunksOf(i) = Place(cs, i)
  BY <1>1 DEF ChunksOf, Place
<1> QED
  BY <1>1, <1>3, <1>4, <1>5 DEF WordsCovered, Done, CutsOK

LEMMA LinesKeep ==
  ASSUME ChunkIInv
  PROVE  LinesKeepTheirPlace
<1>1. PICK a, ss, n, st, cs :
        a = article /\ ss = sections /\ n = section /\ st = start /\ cs = chunks
  OBVIOUS
<1>2. ChunkState(a, ss, n, st, cs)
  BY <1>1 DEF ChunkIInv
<1>3. ss \in Seq(Section) /\ DOMAIN ss = 1 .. Len(ss) /\ cs \in Seq(Chunk) /\ DOMAIN cs = 1 .. Len(cs)
  BY <1>2 DEF ChunkState
<1>4. ASSUME NEW c \in DOMAIN chunks
      PROVE  LET lines == chunks[c].lines
                 first == IF sections[chunks[c].section].type = "faq" THEN 2 ELSE 1
             IN  /\ ToSet(lines) \subseteq ToSet(Numbers(sections[chunks[c].section].text))
                 /\ \A j, k \in first .. Len(lines) : j < k => lines[j] < lines[k]
  <2>1. PICK i, ls : i = cs[c].section /\ ls = cs[c].lines
    OBVIOUS
  <2>2. /\ i \in 1 .. Len(ss)
        /\ \/ ls = <<>>
           \/ \E p : PieceOK(p, ss[i].type, ss[i].text) /\ ls = Numbers(p.lines)
    BY <1>1, <1>2, <1>3, <2>1, ChunkLines
  <2> DEFINE first == First(ss[i].type)
  <2>3. /\ ToSet(ls) \subseteq ToSet(Numbers(ss[i].text))
        /\ \A j, k \in first .. Len(ls) : j < k => ls[j] < ls[k]
    <3>1. CASE ls = <<>>
      <4>1. Len(ls) = 0 /\ ToSet(ls) = {}
        BY <3>1 DEF ToSet
      <4>2. first \in {1, 2}
        BY DEF First
      <4> QED
        BY <4>1, <4>2
    <3>2. ASSUME NEW p, PieceOK(p, ss[i].type, ss[i].text), ls = Numbers(p.lines)
          PROVE  /\ ToSet(ls) \subseteq ToSet(Numbers(ss[i].text))
                 /\ \A j, k \in first .. Len(ls) : j < k => ls[j] < ls[k]
      <4>1. /\ p.lines \in Seq(Lines) /\ ToSet(p.lines) \subseteq ToSet(ss[i].text)
            /\ \A j, k \in first .. Len(p.lines) : j < k => p.lines[j].no < p.lines[k].no
        BY <3>2 DEF PieceOK, PieceSet
      <4>2. ss[i].text \in Seq(Lines)
        BY <1>2, <2>2, SectionFacts
      <4>3. /\ Len(ls) = Len(p.lines) /\ \A j \in 1 .. Len(p.lines) : ls[j] = p.lines[j].no
            /\ \A m : m \in ToSet(ls) <=> \E x \in ToSet(p.lines) : x.no = m
        BY <3>2, <4>1, NumbersFacts
      <4>4. \A m : m \in ToSet(Numbers(ss[i].text)) <=> \E x \in ToSet(ss[i].text) : x.no = m
        BY <4>2, NumbersFacts
      <4>5. \A j \in first .. Len(p.lines) : j \in 1 .. Len(p.lines)
        <5>1. first \in {1, 2}
          BY DEF First
        <5> QED
          BY <5>1
      <4> HIDE DEF first
      <4> QED
        BY <4>1, <4>3, <4>4, <4>5
    <3> QED
      BY <2>2, <3>1, <3>2
  <2> QED
    BY <1>1, <2>1, <2>3 DEF First
<1>5. ASSUME NEW i \in DOMAIN sections, Done(i), sections[i].type = "key_points"
      PROVE  \A k \in DOMAIN sections[i].text :
               LET l == sections[i].text[k]
               IN  \/ Cardinality(Holding(i, l.no)) = 1
                   \/ Holding(i, l.no) = {} /\ l.words < 4
  <2> DEFINE text == sections[i].text
  <2>1. i \in 1 .. Len(ss) /\ n > i /\ ~ss[i].skip /\ ss[i].type = "key_points" /\ text = ss[i].text
    BY <1>1, <1>3, <1>5 DEF Done
  <2>2. PointsFor(cs, i, text) /\ DOMAIN text = 1 .. Len(text)
    <3> HIDE DEF text
    <3>1. text \in Seq(Lines) /\ Ordered(text)
      BY <1>2, <2>1, SectionFacts
    <3>2. Block(cs, i, SplitKeyPoints(text))
      <4>1. Pieces(ss[i]) = SplitKeyPoints(text)
        BY <2>1 DEF Pieces
      <4> QED
        BY <1>2, <2>1, <4>1, DoneMade DEF MadeRight
    <3> QED
      BY <3>1, <3>2, PointsKept
  <2>3. \A m : Holding(i, m) = {d \in Place(cs, i) : m \in ToSet(cs[d].lines)}
    BY <1>1 DEF Holding, ChunksOf, Place
  <2>4. ASSUME NEW k \in DOMAIN text
        PROVE  \/ Cardinality(Holding(i, text[k].no)) = 1
               \/ Holding(i, text[k].no) = {} /\ text[k].words < 4
    <3> HIDE DEF text
    <3>1. \/ \E c \in Place(cs, i) : Holding(i, text[k].no) = {c}
          \/ Holding(i, text[k].no) = {} /\ text[k].words < 4
      BY <2>2, <2>3 DEF PointsFor
    <3>2. \A c : Cardinality({c}) = 1
      BY FS_Singleton
    <3> QED
      BY <3>1, <3>2
  <2> QED
    BY <2>4
<1> QED
  BY <1>4, <1>5 DEF LinesKeepTheirPlace

\* An article is in one section at a time, and its chunks are made of its lines:
\* the state of smart_chunk_article has its type, whatever the article.
THEOREM ChunkTypeCorrect == ChunkSpec => []ChunkTypeOK
BY ChunkInvariance, ChunkTyped, PTL

\* What an article says stays together in its chunks, whatever the article and
\* whatever the bounds of a cut: a detail of a case is in one chunk, which starts
\* with its title; an answer is in the chunk of its question; a section cut by
\* size loses no word between its cuts; and a key point is in one chunk
\* (chunk.py, smart_chunk_article).
THEOREM ArticleTextKept == ChunkSpec => []TextKept
<1>1. ChunkIInv => TextKept
  BY DetailsKeep, AnswersKeep, WordsKeep, LinesKeep DEF TextKept
<1> QED
  BY <1>1, ChunkInvariance, PTL

-----------------------------------------------------------------------------
(* The four parts side by side.                                            *)

KnowledgeIInv ==
  /\ part \in MCParts
  /\ IF part = "limiter" THEN IInv ELSE Idle("limiter")
  /\ IF part = "lookup" THEN LookupIInv ELSE Idle("lookup")
  /\ IF part = "chunking" THEN ChunkIInv ELSE Idle("chunking")
  /\ OfflineIInv

\* A part that is not the one that runs has its types and keeps its promises all
\* the same.
LEMMA IdleLimiter ==
  ASSUME Idle("limiter")
  PROVE  LimiterTypeOK /\ CountsTheWindow /\ StretchBounded
<1>1. /\ count = [k \in Key |-> 0] /\ left = [k \in Key |-> 0]
      /\ attempt = [a \in Attempt |-> Someone]
      /\ age = [a \in Attempt |-> 0] /\ counted = [k \in Key |-> {}]
  BY DEF Idle
<1>2. MaxAge \in Nat
  BY RateAssumption
<1>3. LimiterTypeOK
  <2>1. Someone \in [pc : Decision, act : Action, x : Subject, y : Origin]
    BY SomeoneAssumption DEF Someone, Decision
  <2> QED
    BY <1>1, <1>2, <2>1 DEF LimiterTypeOK
<1>4. \A k \in Key : /\ count[k] = 0 /\ left[k] = 0 /\ counted[k] = {}
                     /\ LimitOf(k) \in Nat /\ WindowOf(k) \in Nat
  BY <1>1, KeysTyped
<1>5. CountsTheWindow
  BY <1>4 DEF CountsTheWindow
<1>6. StretchBounded
  <2>1. \A k \in Key, from \in 0 .. MaxAge :
          Cardinality({a \in counted[k] : from <= age[a] /\ age[a] < from + WindowOf(k)}) = 0
    <3> SUFFICES ASSUME NEW k \in Key, NEW from \in 0 .. MaxAge
                 PROVE  Cardinality({a \in counted[k] : from <= age[a]
                                       /\ age[a] < from + WindowOf(k)}) = 0
      OBVIOUS
    <3>1. {a \in counted[k] : from <= age[a] /\ age[a] < from + WindowOf(k)} = {}
      BY <1>4
    <3> QED
      BY <3>1, FS_EmptySet
  <2>2. \A k \in Key : 0 <= 2 * LimitOf(k)
    BY <1>4
  <2> QED
    BY <2>1, <2>2 DEF StretchBounded
<1> QED
  BY <1>3, <1>5, <1>6

LEMMA IdleLookup ==
  ASSUME Idle("lookup")
  PROVE  LookupTypeOK /\ NeverGuesses
<1>1. /\ question = {} /\ tables = [t \in Table |-> {}] /\ activites = {}
      /\ stage = "retrieval" /\ answer = NoAnswer
  BY DEF Idle
<1>2. LookupTypeOK
  BY <1>1, LookupAssumption DEF LookupTypeOK, NoAnswer, Stages
<1>3. answer.table = None /\ None \notin Table
  BY <1>1, LookupAssumption DEF NoAnswer
<1>4. GemOpen
  BY <1>1, Zenon DEF GemOpen, NamedCodes, NamedActivites
<1>5. ArticleOpen
  <2>1. "article" \in Table /\ tables["article"] = {}
    BY <1>1 DEF Table, Billing
  <2>2. Candidates("article", "activite") = {}
    BY <2>1, Zenon DEF Candidates
  <2> QED
    BY <2>2, Zenon DEF ArticleOpen, Named
<1>6. ASSUME NEW tier \in {Operational, Billing, Glossary}
      PROVE  Determined(tier) = {}
  <2>1. ASSUME NEW t \in tier, Meant(t)
        PROVE  FALSE
    <3>1. t \in Table
      BY <1>6, <2>1 DEF Table
    <3>2. tables[t] = {}
      BY <1>1, <3>1
    <3> QED
      BY <2>1, <3>2, Zenon DEF Meant, Agreeing, Fitting
  <2> QED
    BY <2>1, Zenon DEF Determined
<1>7. AnswerDetermined
  BY <1>1, Zenon DEF AnswerDetermined
<1>8. TiersInOrder
  BY <1>4, <1>5, <1>6 DEF TiersInOrder
<1> QED
  BY <1>2, <1>7, <1>8 DEF NeverGuesses

LEMMA IdleChunking ==
  ASSUME Idle("chunking")
  PROVE  ChunkTypeOK /\ TextKept
<1>1. article = <<>> /\ sections = <<>> /\ section = 1 /\ start = 0 /\ chunks = <<>>
  BY DEF Idle
<1>2. Len(<<>>) = 0 /\ DOMAIN <<>> = {}
  OBVIOUS
<1>3. ChunkTypeOK
  BY <1>1, <1>2 DEF ChunkTypeOK
<1>4. DOMAIN sections = {} /\ DOMAIN chunks = {}
  BY <1>1, <1>2
<1>5. TextKept
  BY <1>4 DEF TextKept, DetailsKeepTheirCase, AnswersKeepTheirQuestion, WordsCovered,
              LinesKeepTheirPlace
<1> QED
  BY <1>3, <1>5

LEMMA KnowledgeInitial ==
  ASSUME KnowledgeInit
  PROVE  KnowledgeIInv
<1>1. IF part = "limiter" THEN IInv ELSE Idle("limiter")
  BY Initially DEF KnowledgeInit
<1>2. IF part = "lookup" THEN LookupIInv ELSE Idle("lookup")
  BY LookupInitial DEF KnowledgeInit
<1>3. IF part = "chunking" THEN ChunkIInv ELSE Idle("chunking")
  BY ChunkStarts DEF KnowledgeInit
<1>4. OfflineIInv
  BY OfflineInitial DEF KnowledgeInit
<1> QED
  BY <1>1, <1>2, <1>3, <1>4 DEF KnowledgeIInv, KnowledgeInit

\* A part that does not run stays as it is.
LEMMA PartsRest ==
  /\ UNCHANGED limiterVars /\ Idle("limiter") => Idle("limiter")'
  /\ UNCHANGED lookupVars /\ Idle("lookup") => Idle("lookup")'
  /\ UNCHANGED chunkVars /\ Idle("chunking") => Idle("chunking")'
  /\ UNCHANGED offlineVars /\ OfflineIInv => OfflineIInv'
<1>1. UNCHANGED limiterVars /\ Idle("limiter") => Idle("limiter")'
  BY DEF limiterVars, Idle
<1>2. UNCHANGED lookupVars /\ Idle("lookup") => Idle("lookup")'
  BY DEF lookupVars, Idle
<1>3. UNCHANGED chunkVars /\ Idle("chunking") => Idle("chunking")'
  BY DEF chunkVars, Idle
<1>4. UNCHANGED offlineVars /\ OfflineIInv => OfflineIInv'
  BY OfflineStep
<1> QED
  BY <1>1, <1>2, <1>3, <1>4

LEMMA KnowledgeStep ==
  ASSUME KnowledgeIInv, [KnowledgeNext]_<<part, limiterVars, lookupVars, chunkVars, offlineVars>>
  PROVE  KnowledgeIInv'
<1> USE DEF KnowledgeIInv
<1>0. part' = part
  BY DEF KnowledgeNext
<1>1. CASE part = "limiter" /\ LimiterNext /\ UNCHANGED <<lookupVars, chunkVars, offlineVars>>
  <2>1. IInv'
    BY <1>1, Stepwise
  <2> QED
    BY <1>0, <1>1, <2>1, PartsRest
<1>2. CASE part = "lookup" /\ LookupNext /\ UNCHANGED <<limiterVars, chunkVars, offlineVars>>
  <2>1. LookupIInv'
    BY <1>2, LookupStep
  <2> QED
    BY <1>0, <1>2, <2>1, PartsRest
<1>3. CASE part = "chunking" /\ ChunkNext /\ UNCHANGED <<limiterVars, lookupVars, offlineVars>>
  <2>1. ChunkIInv'
    BY <1>3, ChunkStep
  <2> QED
    BY <1>0, <1>3, <2>1, PartsRest
<1>4. CASE part = "offline" /\ OfflineNext /\ UNCHANGED <<limiterVars, lookupVars, chunkVars>>
  <2>1. OfflineIInv'
    BY <1>4, OfflineStep
  <2> QED
    BY <1>0, <1>4, <2>1, PartsRest
<1>5. CASE UNCHANGED <<part, limiterVars, lookupVars, chunkVars, offlineVars>>
  <2>1. part = "limiter" => IInv'
    BY <1>5, Stepwise
  <2>2. part = "lookup" => LookupIInv'
    BY <1>5, LookupStutter
  <2>3. part = "chunking" => ChunkIInv'
    BY <1>5, ChunkStep
  <2> QED
    BY <1>0, <1>5, <2>1, <2>2, <2>3, PartsRest
<1> QED
  BY <1>1, <1>2, <1>3, <1>4, <1>5 DEF KnowledgeNext

LEMMA KnowledgeInvariance == KnowledgeSpec => []KnowledgeIInv
<1>1. KnowledgeInit => KnowledgeIInv
  BY KnowledgeInitial
<1>2. KnowledgeIInv /\ [KnowledgeNext]_<<part, limiterVars, lookupVars, chunkVars, offlineVars>>
        => KnowledgeIInv'
  BY KnowledgeStep
<1> QED
  BY <1>1, <1>2, PTL DEF KnowledgeSpec

\* Each of the four parts keeps its types while any of them runs.
THEOREM KnowledgeTypeCorrect == KnowledgeSpec => []TypeOK
<1>1. KnowledgeIInv => TypeOK
  <2> SUFFICES ASSUME KnowledgeIInv PROVE TypeOK
    OBVIOUS
  <2>1. LimiterTypeOK
    BY IdleLimiter DEF KnowledgeIInv, IInv
  <2>2. LookupTypeOK
    BY IdleLookup DEF KnowledgeIInv, LookupIInv
  <2>3. ChunkTypeOK
    BY IdleChunking, ChunkTyped DEF KnowledgeIInv
  <2>4. OfflineTypeOK
    BY OfflineTyped DEF KnowledgeIInv
  <2> QED
    BY <2>1, <2>2, <2>3, <2>4 DEF KnowledgeIInv, TypeOK
<1> QED
  BY <1>1, KnowledgeInvariance, PTL

\* What is proved of each part by itself holds of the four side by side, where at
\* any time three of them rest.
THEOREM KnowledgeCorrect ==
  KnowledgeSpec => [](/\ CountsTheWindow /\ StretchBounded /\ NeverGuesses /\ TextKept
                      /\ CurrentContentFound /\ SupersededOnlyUnlabelled)
<1>1. ASSUME KnowledgeIInv
      PROVE  /\ CountsTheWindow /\ StretchBounded /\ NeverGuesses /\ TextKept
             /\ CurrentContentFound /\ SupersededOnlyUnlabelled
  <2>1. CountsTheWindow /\ StretchBounded
    BY <1>1, IdleLimiter, ExactCounts, WindowsBound DEF KnowledgeIInv
  <2>2. NeverGuesses
    BY <1>1, IdleLookup DEF KnowledgeIInv, LookupIInv
  <2>3. TextKept
    <3>1. ChunkIInv => TextKept
      BY DetailsKeep, AnswersKeep, WordsKeep, LinesKeep DEF TextKept
    <3> QED
      BY <1>1, <3>1, IdleChunking DEF KnowledgeIInv
  <2>4. CurrentContentFound /\ SupersededOnlyUnlabelled
    BY <1>1, ContentFound, NothingSuperseded DEF KnowledgeIInv
  <2> QED
    BY <2>1, <2>2, <2>3, <2>4
<1> QED
  BY <1>1, KnowledgeInvariance, PTL

=============================================================================
