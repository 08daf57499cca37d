------------------------- MODULE IngestionProofs -------------------------
(***************************************************************************)
(* The safety of Ingestion for every finite set of uploads, any article     *)
(* codes and failures in any of the uploads.  The properties rest on who    *)
(* may write the version rows of a document: one upload at a time, the      *)
(* holder of the document's lock, once the document has a row, and before   *)
(* that the upload that creates it.                                         *)
(***************************************************************************)
EXTENDS Ingestion, FiniteSetTheorems, WellFoundedInduction, TLAPS

NotInserted  == {"new", "check", "parse", "find", "insert"}
NotCommitted == NotInserted \cup {"commit"}
Locking      == {"find", "insert", "commit"}

(* A new article's upload owns its document until it is committed, and a     *)
(* version is uploaded to a document that has a row.                         *)
Document(u) ==
  /\ req[u].pc \in {"new", "check"} => Creates(u)
  /\ req[u].pc \in {"parse", "mark"} => ~Creates(u)
  /\ Creates(u) => ver[u].state # "processing"
  /\ Creates(u) /\ req[u].pc \in NotCommitted => ver[u].state = "none"
  /\ Creates(u) /\ req[u].pc # "failed" /\ ver[u].state = "none" => cur[u] = NoOne
  /\ ~Creates(u) => ver[u].state # "none" /\ HasRow(req[u].doc)

(* The vectors and rows an upload can have, by how far it is.                *)
Stores(u) ==
  /\ req[u].pc \in NotInserted => u \notin vectors
  /\ req[u].pc \in NotCommitted => u \notin chunks
  /\ req[u].pc \in {"answer", "done"} => u \in chunks /\ ver[u].state # "processing"
  /\ req[u].pc \in {"mark", "failed"} /\ u \in vectors \ chunks => req[u].leak
  /\ req[u].pc = "failed" /\ ver[u].state = "processing" => req[u].leak

(* A version upload holds its document's lock up to its commit, and has seen  *)
(* every other version that is current.                                      *)
Writer(u) ==
  /\ req[u].pc \in Locking /\ ~Creates(u) => docLock[req[u].doc] = u
  /\ req[u].pc = "commit" =>
       /\ req[u].seenCurrent \cup req[u].seenCompleted \subseteq VersionsOf(req[u].doc) \ {u}
       /\ \A w \in VersionsOf(req[u].doc) \ {u} : ver[w].current => w \in req[u].seenCurrent

Flag(u) == ver[u].current => cur[req[u].doc] = u

(* The vectors of u are there, unless a failure took them.                   *)
Safe(u) ==
  \/ u \in vectors
  \/ Undone(u)
  \/ \E w \in SameIds(u) : req[w].doc # req[u].doc /\ Undone(w)

Kept(u) == req[u].pc = "commit" \/ cur[req[u].doc] = u => Safe(u)

Current(d) ==
  cur[d] # NoOne =>
    /\ req[cur[d]].doc = d
    /\ ver[cur[d]].state # "none"
    /\ ver[cur[d]].current \/ ver[cur[d]].state = "failed"

Own(u) == Document(u) /\ Stores(u) /\ Writer(u) /\ Flag(u)

IInv ==
  /\ TypeOK
  /\ \A u \in Uploads : Own(u) /\ Current(u) /\ Kept(u)
  /\ NumbersUnique

-----------------------------------------------------------------------------
(* Numbers *)

(* A finite set of numbers has a greatest one: else take, of its subsets that *)
(* have none, one that is least, and remove an element.                      *)
LEMMA GreatestExists ==
  ASSUME NEW S \in SUBSET Nat, IsFiniteSet(S), S # {}
  PROVE  \E x \in S : \A y \in S : x >= y
<1> DEFINE HasMax(T) == \E x \in T : \A y \in T : x >= y
           Bad == {T \in SUBSET S : T # {} /\ ~HasMax(T)}
<1>1. SUFFICES ASSUME Bad # {}
               PROVE  FALSE
  OBVIOUS
<1>2. Bad \subseteq FiniteSubsetsOf(S)
  BY FS_FiniteSubsetsOfFinite
<1>3. PICK T \in Bad : \A U \in Bad : ~(<<U, T>> \in StrictSubsetOrdering(S))
  BY <1>1, <1>2, FS_StrictSubsetOrderingWellFounded, WFMin
<1>4. PICK x \in T : TRUE
  OBVIOUS
<1>5. T \in SUBSET S /\ ~HasMax(T) /\ x \in Nat
  OBVIOUS
<1>6. T \ {x} \notin Bad
  BY <1>3, <1>4 DEF StrictSubsetOrdering
<1>7. CASE T \ {x} = {}
  <2>1. \A y \in T : x >= y
    BY <1>5, <1>7
  <2> QED BY <1>4, <1>5, <2>1
<1>8. CASE HasMax(T \ {x})
  <2>1. PICK m \in T \ {x} : \A y \in T \ {x} : m >= y
    BY <1>8
  <2>2. CASE m >= x
    BY <2>1, <2>2, <1>5
  <2>3. CASE ~(m >= x)
    <3>1. \A y \in T : x >= y
      BY <2>1, <2>3, <1>5
    <3> QED BY <3>1, <1>4, <1>5
  <2> QED BY <2>2, <2>3
<1> QED BY <1>5, <1>6, <1>7, <1>8

LEMMA MaxIsGreatest ==
  ASSUME NEW S \in SUBSET Nat, IsFiniteSet(S), S # {}
  PROVE  Max(S) \in S /\ \A y \in S : Max(S) >= y
  BY GreatestExists DEF Max

(* The next version number is greater than those of the document's versions. *)
LEMMA NextNumberIsNew ==
  ASSUME TypeOK, NEW d \in Uploads
  PROVE  /\ NextNumber(d) \in Nat \ {0}
         /\ \A w \in VersionsOf(d) : NextNumber(d) > req[w].num
<1> DEFINE V == VersionsOf(d)
           N == {req[w].num : w \in V}
<1>1. V \in SUBSET Uploads /\ \A w \in V : req[w].num \in Nat
  BY DEF VersionsOf, TypeOK, Req
<1>2. IsFiniteSet(V)
  BY <1>1, UploadsAssumption, FS_Subset
<1>3. IsFiniteSet(N)
  <2> DEFINE f == [w \in V |-> req[w].num]
  <2>1. f \in Surjection(V, N)
    BY DEF Surjection
  <2> HIDE DEF f, N, V
  <2> QED BY <1>2, <2>1, FS_Surjection
<1>4. IsFiniteSet({0} \cup N)
  <2>1. {0} \cup N = N \cup {0}
    OBVIOUS
  <2> HIDE DEF N
  <2> QED BY <1>3, <2>1, FS_AddElement
<1>5. {0} \cup N \in SUBSET Nat
  BY <1>1
<1>6. /\ Max({0} \cup N) \in Nat
      /\ \A y \in {0} \cup N : Max({0} \cup N) >= y
  <2> HIDE DEF N
  <2> QED BY <1>4, <1>5, MaxIsGreatest
<1>7. \A w \in V : req[w].num \in N
  OBVIOUS
<1> HIDE DEF N
<1>8. NextNumber(d) = Max({0} \cup N) + 1
  BY DEF NextNumber, N
<1>9. PICK m \in Nat : m = Max({0} \cup N)
  BY <1>6
<1>10. \A w \in V : m >= req[w].num
  BY <1>6, <1>7, <1>9
<1>11. NextNumber(d) = m + 1
  BY <1>8, <1>9
<1> QED BY <1>1, <1>10, <1>11

-----------------------------------------------------------------------------
(* A step that writes no rows: upload u moves on, may put its own vectors in, *)
(* and may take those with its ids out when it has failed.  Others keep       *)
(* their locks.  What is said of the other uploads stays true.               *)
MovesOn(u) ==
  /\ req[u].pc \in {"new"} \cup InFlight
  /\ \E rec \in Req : req' = [req EXCEPT ![u] = rec]
  /\ req'[u].pc # "new"
  /\ req'[u].doc = req[u].doc /\ req'[u].code = req[u].code /\ req'[u].num = req[u].num
  /\ docLock' \in [Uploads -> Uploads \cup {NoOne}]
  /\ \A d \in Uploads : docLock[d] \notin {NoOne, u} => docLock'[d] = docLock[d]
  /\ vectors' \in SUBSET Uploads
  /\ vectors' \subseteq vectors \cup {u}
  /\ vectors \ vectors' \subseteq SameIds(u)
  /\ vectors \subseteq vectors' \/ (req[u].pc \in {"insert", "clean"} /\ Undone(u)')
  /\ Undone(u) => Undone(u)'

LEMMA MovesKeep ==
  ASSUME IInv, NEW u \in Uploads, MovesOn(u), UNCHANGED <<ver, cur, chunks>>
  PROVE  /\ TypeOK'
         /\ NumbersUnique'
         /\ \A w \in Uploads \ {u} : Own(w)'
         /\ \A d \in Uploads : Current(d)'
         /\ \A d \in Uploads : VersionsOf(d)' = VersionsOf(d)
         /\ \A d \in Uploads : SameIds(d)' = SameIds(d)
         /\ \A d \in Uploads : HasRow(d) => HasRow(d)'
<1> USE DEF IInv
<1>1. PICK rec \in Req : req' = [req EXCEPT ![u] = rec]
  BY DEF MovesOn
<1>2. TypeOK'
  BY <1>1 DEF TypeOK, MovesOn
<1>3. \A w \in Uploads \ {u} : req'[w] = req[w]
  BY <1>1 DEF TypeOK
<1>4. \A w \in Uploads : req'[w].doc = req[w].doc /\ req'[w].code = req[w].code
                          /\ req'[w].num = req[w].num
  BY <1>3 DEF MovesOn
<1>5. \A d \in Uploads : VersionsOf(d)' = VersionsOf(d) /\ SameIds(d)' = SameIds(d)
  BY <1>4 DEF VersionsOf, SameIds
<1>6. \A d \in Uploads : Creates(d)' = Creates(d)
  BY <1>4 DEF Creates
<1>7. \A d \in Uploads : HasRow(d) => HasRow(d)'
  BY <1>3, <1>4 DEF HasRow, Creates, MovesOn, InFlight
<1>8. NumbersUnique'
  BY <1>4, <1>5 DEF NumbersUnique, VersionsOf
<1>9. ASSUME NEW w \in Uploads \ {u}
      PROVE  Own(w)'
  <2>1. Own(w) /\ w # u /\ w # NoOne /\ req'[w] = req[w]
    BY <1>3, NoOneAssumption
  <2>2. Document(w)'
    <3>1. req[w].doc \in Uploads
      BY DEF TypeOK, Req
    <3> QED BY <2>1, <1>6, <1>7, <3>1 DEF Own, Document
  <2>3. Stores(w)'
    BY <2>1 DEF Own, Stores, MovesOn
  <2>4. Writer(w)'
    <3>1. req[w].doc \in Uploads
      BY DEF TypeOK, Req
    <3>2. VersionsOf(req[w].doc)' = VersionsOf(req[w].doc)
      BY <3>1, <2>1, <1>5
    <3> QED BY <2>1, <1>6, <3>1, <3>2 DEF Own, Writer, MovesOn
  <2>5. Flag(w)'
    BY <2>1 DEF Own, Flag
  <2> QED BY <2>2, <2>3, <2>4, <2>5 DEF Own
<1>10. ASSUME NEW d \in Uploads
       PROVE  Current(d)'
  <2>1. cur[d] # NoOne => cur[d] \in Uploads
    BY DEF TypeOK
  <2> QED BY <2>1, <1>4 DEF Current
<1> QED BY <1>2, <1>5, <1>7, <1>8, <1>9, <1>10

(* Two uploads for one document have the same vector ids only if one of them  *)
(* has not got as far as to matter.                                          *)
LEMMA IdsApart ==
  ASSUME IInv, NEW u \in Uploads, NEW w \in Uploads, w # u, w \in SameIds(u),
         req[u].pc \in {"insert", "clean"},
         req[w].pc = "commit" \/ cur[req[w].doc] = w
  PROVE  req[w].doc # req[u].doc
<1> USE DEF IInv
<1>1. SUFFICES ASSUME req[w].doc = req[u].doc
               PROVE  FALSE
  OBVIOUS
<1>2. req[w].num = req[u].num /\ req[u].doc \in Uploads /\ w # NoOne
  BY NoOneAssumption DEF SameIds, TypeOK, Req
<1>3. Document(u) /\ Document(w) /\ Current(req[u].doc)
  BY <1>2 DEF Own
<1>4. ver[u].state = "none" \/ ver[w].state = "none"
  BY <1>1, <1>2 DEF NumbersUnique, VersionsOf
<1>5. CASE Creates(u) /\ ver[u].state = "none"
  <2>1. ~HasRow(u)
    BY <1>3, <1>5 DEF Document, HasRow
  <2>2. ~Creates(w)
    BY <1>1, <1>5 DEF Creates
  <2> QED BY <2>1, <2>2, <1>1, <1>3, <1>5 DEF Document, Creates
<1>6. CASE Creates(w) /\ ver[w].state = "none"
  <2>1. req[w].pc = "commit"
    BY <1>1, <1>2, <1>3, <1>6 DEF Current
  <2>2. ~HasRow(w)
    BY <1>3, <1>6, <2>1 DEF Document, HasRow
  <2>3. ~Creates(u)
    BY <1>1, <1>6 DEF Creates
  <2> QED BY <2>2, <2>3, <1>1, <1>3, <1>6 DEF Document, Creates
<1> QED BY <1>3, <1>4, <1>5, <1>6 DEF Document

(* The whole invariant, if the upload's own part is in order.                *)
LEMMA MovesInv ==
  ASSUME IInv, NEW u \in Uploads, MovesOn(u), UNCHANGED <<ver, cur, chunks>>,
         req'[u].pc \in NotCommitted => req[u].pc \in NotCommitted,
         req'[u].pc = "mark" => ~Creates(u),
         req'[u].pc = "check" => Creates(u),
         req'[u].pc # "parse",
         req'[u].pc = "commit" => u \in vectors',
         Stores(u)', Writer(u)'
  PROVE  IInv'
<1> USE DEF IInv
<1>1. PICK rec \in Req : req' = [req EXCEPT ![u] = rec]
  BY DEF MovesOn
<1>2. \A w \in Uploads \ {u} : req'[w] = req[w]
  BY <1>1 DEF TypeOK
<1>3. \A w \in Uploads : req'[w].doc = req[w].doc
  BY <1>2 DEF MovesOn
<1>4. \A w \in Uploads : Undone(w) => Undone(w)'
  BY <1>2 DEF MovesOn, Undone
<1>5. \A w \in Uploads : SameIds(w)' = SameIds(w)
  BY MovesKeep
<1>6. Own(u)'
  <2>1. req[u].doc \in Uploads /\ req[u].pc \notin {"failed"}
    BY DEF TypeOK, Req, MovesOn, InFlight
  <2>2. HasRow(req[u].doc) => HasRow(req[u].doc)'
    <3>1. PICK d \in Uploads : d = req[u].doc
      BY <2>1
    <3>2. HasRow(d) => HasRow(d)'
      BY MovesKeep
    <3> QED BY <3>1, <3>2, <1>3 DEF HasRow, Creates
  <2>3. Creates(u)' = Creates(u)
    BY <1>3 DEF Creates
  <2>4. Document(u)'
    BY <1>3, <2>1, <2>2, <2>3 DEF Own, Document, MovesOn
  <2>5. Flag(u)'
    BY <1>3 DEF Own, Flag
  <2> QED BY <2>4, <2>5 DEF Own
<1>7. ASSUME NEW w \in Uploads
      PROVE  Kept(w)'
  <2>1. CASE w # u
    <3>1. SUFFICES ASSUME req[w].pc = "commit" \/ cur[req[w].doc] = w
                   PROVE  Safe(w)'
      BY <2>1, <1>2 DEF Kept
    <3>2. Safe(w)
      BY <3>1 DEF Kept
    <3>3. CASE w \in vectors'
      BY <3>3 DEF Safe
    <3>4. CASE w \in vectors /\ w \notin vectors'
      <4>1. w \in SameIds(u) /\ req[u].pc \in {"insert", "clean"} /\ Undone(u)'
        BY <3>4 DEF MovesOn
      <4>2. req[w].doc # req[u].doc
        BY <2>1, <3>1, <4>1, IdsApart
      <4>3. u \in SameIds(w)
        BY <4>1 DEF SameIds
      <4> QED BY <4>1, <4>2, <4>3, <1>3, <1>5 DEF Safe
    <3>5. CASE Undone(w)
      BY <3>5, <1>4 DEF Safe
    <3>6. CASE \E x \in SameIds(w) : req[x].doc # req[w].doc /\ Undone(x)
      <4>1. PICK x \in SameIds(w) : req[x].doc # req[w].doc /\ Undone(x)
        BY <3>6
      <4>2. x \in Uploads
        BY <4>1 DEF SameIds
      <4> QED BY <4>1, <4>2, <1>3, <1>4, <1>5 DEF Safe
    <3> QED BY <3>2, <3>3, <3>4, <3>5, <3>6 DEF Safe
  <2>2. CASE w = u
    <3>1. CASE u \in vectors' \/ Undone(u)'
      BY <2>2, <3>1 DEF Kept, Safe
    <3>2. CASE cur[req[u].doc] = u /\ ~(u \in vectors' \/ Undone(u)')
      <4>1. Safe(u) /\ u \notin vectors /\ ~Undone(u)
        BY <3>2 DEF Kept, MovesOn
      <4>2. PICK x \in SameIds(u) : req[x].doc # req[u].doc /\ Undone(x)
        BY <4>1 DEF Safe
      <4>3. x \in Uploads
        BY <4>2 DEF SameIds
      <4> QED BY <2>2, <4>2, <4>3, <1>3, <1>4, <1>5 DEF Kept, Safe
    <3> QED BY <2>2, <3>1, <3>2, <1>3 DEF Kept
  <2> QED BY <2>1, <2>2
<1> QED BY <1>6, <1>7, MovesKeep

-----------------------------------------------------------------------------
(* The steps that write no rows, one by one.                                 *)
LEMMA UnlockedType ==
  ASSUME TypeOK, NEW u \in Uploads
  PROVE  /\ Unlocked(u) \in [Uploads -> Uploads \cup {NoOne}]
         /\ \A d \in Uploads : docLock[d] \notin {NoOne, u} => Unlocked(u)[d] = docLock[d]
  BY DEF TypeOK, Unlocked

LEMMA AtMoves ==
  ASSUME IInv, NEW u \in Uploads, NEW from \in {"new"} \cup InFlight,
         NEW to \in InFlight \cup {"done", "failed"}, At(u, from, to),
         from # "mark", UNCHANGED <<vectors, docLock>>
  PROVE  /\ MovesOn(u)
         /\ req'[u].pc = to
         /\ req'[u] = [req[u] EXCEPT !.pc = to]
<1> DEFINE rec == [req[u] EXCEPT !.pc = to]
<1>1. req[u] \in Req /\ TypeOK
  BY DEF IInv, TypeOK
<1>2. rec \in Req /\ rec.pc = to /\ rec.doc = req[u].doc
      /\ rec.code = req[u].code /\ rec.num = req[u].num
  BY <1>1 DEF Req, Ended
<1>3. req' = [req EXCEPT ![u] = rec] /\ req'[u] = rec /\ req[u].pc = from
  BY <1>1 DEF At, TypeOK
<1>4. ~Undone(u) /\ to # "new"
  BY <1>3 DEF Undone, InFlight
<1> HIDE DEF rec
<1>5. MovesOn(u)
  BY <1>1, <1>2, <1>3, <1>4 DEF MovesOn, TypeOK
<1> QED BY <1>2, <1>3, <1>5 DEF rec

LEMMA FailMoves ==
  ASSUME IInv, NEW u \in Uploads, req[u].pc \in InFlight,
         NEW pc \in {"clean", "mark", "failed", "crashed"}, NEW leak \in BOOLEAN,
         FailTo(u, pc, leak),
         req[u].pc = "mark" => pc \in {"failed", "crashed"},
         vectors' \in SUBSET (vectors \cup {u}),
         vectors \ vectors' \subseteq SameIds(u),
         vectors \subseteq vectors'
           \/ (req[u].pc \in {"insert", "clean"} /\ pc \in {"mark", "failed"})
  PROVE  /\ MovesOn(u)
         /\ req'[u].pc = pc
         /\ req'[u].leak = (req[u].leak \/ leak)
         /\ Writer(u)'
<1> DEFINE rec == [req[u] EXCEPT !.pc = pc, !.leak = req[u].leak \/ leak,
                                 !.seenCurrent = {}, !.seenCompleted = {}]
<1>1. req[u] \in Req /\ TypeOK /\ req[u].leak \in BOOLEAN
  BY DEF IInv, TypeOK, Req
<1>2. (req[u].leak \/ leak) \in BOOLEAN
  BY <1>1
<1>3. rec \in Req /\ rec.pc = pc /\ rec.doc = req[u].doc /\ rec.code = req[u].code
      /\ rec.num = req[u].num /\ rec.leak = (req[u].leak \/ leak)
  BY <1>1, <1>2 DEF Req, Ended, InFlight
<1>4. req' = [req EXCEPT ![u] = rec] /\ req'[u] = rec
  BY <1>1 DEF FailTo, TypeOK
<1> HIDE DEF rec
<1>5. docLock' = Unlocked(u)
  BY DEF FailTo
<1>6. (Undone(u) => pc \in {"failed", "crashed"}) /\ pc # "new"
  BY DEF Undone, InFlight
<1>7. vectors' \in SUBSET Uploads
  BY <1>1 DEF TypeOK
<1>8. pc \in {"mark", "failed", "crashed"} => Undone(u)'
  BY <1>3, <1>4 DEF Undone
<1>9. MovesOn(u)
  BY <1>1, <1>3, <1>4, <1>5, <1>6, <1>7, <1>8, UnlockedType DEF MovesOn
<1>10. Writer(u)'
  BY <1>3, <1>4 DEF Writer, Locking
<1> QED BY <1>3, <1>4, <1>9, <1>10

LEMMA MoveKeeps ==
  ASSUME IInv, NEW u \in Uploads,
         Preflight(u) \/ Check(u) \/ VersionLock(u) \/ Answer(u) \/ AnswerFails(u)
  PROVE  IInv'
<1> USE DEF NotInserted, NotCommitted, Locking
<1>1. Document(u) /\ Stores(u) /\ Writer(u) /\ TypeOK /\ req[u].doc \in Uploads
  BY DEF IInv, Own, TypeOK, Req
<1>2. CASE Preflight(u) \/ Check(u)
  <2>1. PICK from \in {"new", "check"}, to \in {"failed", "check", "find"} :
          At(u, from, to)
    BY <1>2 DEF Preflight, Check
  <2>2. UNCHANGED <<ver, cur, chunks, vectors, docLock>>
    BY <1>2 DEF Preflight, Check
  <2>3. MovesOn(u) /\ req'[u].pc = to /\ req'[u] = [req[u] EXCEPT !.pc = to]
    BY <2>1, <2>2, AtMoves DEF InFlight
  <2>4. req[u].pc = from /\ Creates(u) /\ req'[u].doc = req[u].doc
    BY <1>1, <2>1, <2>3 DEF At, Document, MovesOn
  <2>5. Stores(u)'
    BY <1>1, <2>2, <2>3, <2>4 DEF Stores, Document
  <2>6. Writer(u)'
    BY <2>3, <2>4 DEF Writer, Creates
  <2> QED BY <2>2, <2>3, <2>4, <2>5, <2>6, MovesInv
<1>3. CASE Answer(u) \/ AnswerFails(u)
  <2>1. PICK to \in {"done", "clean"} : At(u, "answer", to)
    BY <1>3 DEF Answer, AnswerFails
  <2>2. UNCHANGED <<ver, cur, chunks, vectors, docLock>>
    BY <1>3 DEF Answer, AnswerFails
  <2>3. MovesOn(u) /\ req'[u].pc = to
    BY <2>1, <2>2, AtMoves DEF InFlight
  <2>4. req[u].pc = "answer"
    BY <2>1 DEF At
  <2>5. Stores(u)' /\ Writer(u)'
    BY <1>1, <2>2, <2>3, <2>4 DEF Stores, Writer
  <2> QED BY <2>2, <2>3, <2>5, MovesInv
<1>4. CASE VersionLock(u)
  <2> DEFINE rec == [req[u] EXCEPT !.pc = "find"]
  <2>1. req[u] \in Req /\ req[u].pc = "parse" /\ req' = [req EXCEPT ![u] = rec]
        /\ docLock' = [docLock EXCEPT ![req[u].doc] = u] /\ docLock[req[u].doc] = NoOne
        /\ UNCHANGED <<ver, cur, chunks, vectors>>
    BY <1>1, <1>4 DEF VersionLock, At, TypeOK
  <2>2. rec \in Req /\ rec.pc = "find" /\ rec.doc = req[u].doc /\ rec.code = req[u].code
        /\ rec.num = req[u].num
    BY <2>1 DEF Req, InFlight
  <2>3. req'[u] = rec
    BY <1>1, <2>1 DEF TypeOK
  <2> HIDE DEF rec
  <2>4. docLock' \in [Uploads -> Uploads \cup {NoOne}]
        /\ docLock'[req[u].doc] = u
        /\ \A d \in Uploads : docLock[d] # NoOne => docLock'[d] = docLock[d]
    BY <1>1, <2>1 DEF TypeOK
  <2>5. MovesOn(u)
    BY <1>1, <2>1, <2>2, <2>3, <2>4 DEF MovesOn, TypeOK, InFlight, Undone
  <2>6. Stores(u)' /\ Writer(u)'
    BY <1>1, <2>1, <2>2, <2>3, <2>4 DEF Stores, Writer
  <2> QED BY <2>1, <2>2, <2>3, <2>5, <2>6, MovesInv
<1> QED BY <1>2, <1>3, <1>4

LEMMA FailKeeps ==
  ASSUME IInv, NEW u \in Uploads,
         Unreadable(u) \/ InsertFails(u) \/ CommitFails(u) \/ Clean(u) \/ Crash(u)
         \/ (FindExisting(u) /\ req'[u].pc # "insert")
  PROVE  IInv'
<1> USE DEF NotInserted, NotCommitted, Locking
<1>0. \/ Unreadable(u) \/ InsertFails(u) \/ CommitFails(u) \/ Clean(u) \/ Crash(u)
      \/ (FindExisting(u) /\ req'[u].pc # "insert")
  OBVIOUS
<1>1. Document(u) /\ Stores(u) /\ TypeOK
  BY DEF IInv, Own
<1>2. PICK pc \in {"clean", "mark", "failed", "crashed"}, leak \in BOOLEAN :
        /\ FailTo(u, pc, leak)
        /\ pc = "mark" => ~Creates(u)
        /\ pc = "failed" => Creates(u)
        /\ req[u].pc = "mark" => pc = "crashed"
        /\ pc \in {"mark", "failed"} /\ u \in vectors' \ chunks => leak
        /\ vectors' \in SUBSET (vectors \cup {u})
        /\ vectors \ vectors' \subseteq SameIds(u)
        /\ vectors \subseteq vectors'
             \/ (req[u].pc \in {"insert", "clean"} /\ pc \in {"mark", "failed"})
  <2>1. CASE Unreadable(u)
    BY <1>1, <2>1 DEF Unreadable, AfterFailure, Stores
  <2>2. CASE InsertFails(u)
    <3>1. PICK left \in {vectors, vectors \ SameIds(u), vectors \cup {u}} :
            vectors' = left /\ FailTo(u, AfterFailure(u), u \in left)
      BY <2>2 DEF InsertFails
    <3>2. req[u].pc = "insert" /\ (u \in left) \in BOOLEAN
      BY <2>2 DEF InsertFails
    <3> QED BY <3>1, <3>2 DEF AfterFailure
  <2>3. CASE CommitFails(u)
    BY <2>3 DEF CommitFails
  <2>4. CASE Clean(u)
    <3>1. PICK left \in {vectors, vectors \ SameIds(u)} :
            vectors' = left /\ FailTo(u, AfterFailure(u), u \in left)
      BY <2>4 DEF Clean
    <3>2. req[u].pc = "clean" /\ (u \in left) \in BOOLEAN
      BY <2>4 DEF Clean
    <3> QED BY <3>1, <3>2 DEF AfterFailure
  <2>5. CASE Crash(u)
    BY <2>5 DEF Crash
  <2>6. CASE FindExisting(u) /\ req'[u].pc # "insert"
    <3>1. req[u].pc = "find" /\ UNCHANGED vectors
      BY <2>6 DEF FindExisting
    <3>2. FailTo(u, AfterFailure(u), FALSE)
      <4>1. req[u] \in Req /\ req \in [Uploads -> Req]
        BY <1>1 DEF TypeOK
      <4>2. req' # [req EXCEPT ![u].pc = "insert"]
        BY <2>6, <4>1 DEF Req
      <4> QED BY <2>6, <4>2 DEF FindExisting
    <3> QED BY <1>1, <3>1, <3>2 DEF AfterFailure, Stores
  <2> QED BY <1>0, <2>1, <2>2, <2>3, <2>4, <2>5, <2>6
<1>3. UNCHANGED <<ver, cur, chunks>> /\ req[u].pc \in InFlight
  BY <1>0 DEF Unreadable, InsertFails, CommitFails, Clean, Crash, FindExisting, InFlight
<1>4. /\ MovesOn(u) /\ Writer(u)'
      /\ req'[u].pc = pc
      /\ req'[u].leak = (req[u].leak \/ leak)
  BY <1>2, <1>3, FailMoves
<1>5. Creates(u)' = Creates(u)
  BY <1>4 DEF MovesOn, Creates
<1>6. Stores(u)'
  BY <1>1, <1>2, <1>3, <1>4, <1>5 DEF Stores, Document
<1> QED BY <1>2, <1>3, <1>4, <1>6, MovesInv

LEMMA FindKeeps ==
  ASSUME IInv, NEW u \in Uploads, FindExisting(u), req'[u].pc = "insert"
  PROVE  IInv'
<1> USE DEF NotInserted, NotCommitted, Locking
<1>1. Stores(u) /\ Writer(u) /\ TypeOK
  BY DEF IInv, Own
<1>2. UNCHANGED <<ver, cur, chunks, vectors>> /\ req[u].pc = "find"
  BY DEF FindExisting
<1>3. At(u, "find", "insert") /\ UNCHANGED docLock
  <2>1. ASSUME FailTo(u, AfterFailure(u), FALSE)
        PROVE  FALSE
    <3>1. req[u] \in Req /\ req \in [Uploads -> Req]
      BY <1>1 DEF TypeOK
    <3>2. req'[u].pc = AfterFailure(u)
      BY <2>1, <3>1 DEF FailTo, Req
    <3> QED BY <3>2 DEF AfterFailure
  <2> QED BY <2>1 DEF FindExisting, At
<1>4. MovesOn(u)
  BY <1>2, <1>3, AtMoves DEF InFlight
<1>5. Creates(u)' = Creates(u) /\ req'[u].doc = req[u].doc
  BY <1>4 DEF MovesOn, Creates
<1>6. Stores(u)' /\ Writer(u)'
  BY <1>1, <1>2, <1>3, <1>5 DEF Stores, Writer
<1> QED BY <1>2, <1>4, <1>6, MovesInv

LEMMA InsertKeeps ==
  ASSUME IInv, NEW u \in Uploads, Insert(u)
  PROVE  IInv'
<1> USE DEF NotInserted, NotCommitted, Locking
<1> DEFINE others == VersionsOf(req[u].doc) \ {u}
           current == {w \in others : ver[w].current}
           completed == {w \in others : ver[w].state = "completed"}
           rec == [req[u] EXCEPT !.pc = "commit", !.seenCurrent = current,
                                 !.seenCompleted = completed]
<1>1. Stores(u) /\ Writer(u) /\ TypeOK
  BY DEF IInv, Own
<1>2. req[u] \in Req /\ req \in [Uploads -> Req]
  BY <1>1 DEF TypeOK
<1>3. /\ UNCHANGED <<ver, cur, chunks, docLock>> /\ req[u].pc = "insert"
      /\ vectors' = vectors \cup {u}
  BY DEF Insert
<1>4. req' = [req EXCEPT ![u] = rec]
  BY <1>2 DEF Insert
<1>5. others \in SUBSET Uploads
  BY DEF VersionsOf
<1>6. current \in SUBSET others /\ completed \in SUBSET others
      /\ \A w \in others : ver[w].current => w \in current
  OBVIOUS
<1> HIDE DEF current, completed
<1>7. /\ rec \in Req /\ rec.pc = "commit" /\ rec.doc = req[u].doc /\ rec.code = req[u].code
      /\ rec.num = req[u].num /\ rec.seenCurrent = current /\ rec.seenCompleted = completed
  <2> HIDE DEF others
  <2> QED BY <1>2, <1>5, <1>6 DEF Req, InFlight
<1> HIDE DEF rec
<1>8. req'[u] = rec
  BY <1>2, <1>4
<1>9. MovesOn(u)
  BY <1>1, <1>3, <1>4, <1>7, <1>8 DEF MovesOn, TypeOK, InFlight, Undone
<1>10. Stores(u)'
  BY <1>1, <1>3, <1>7, <1>8 DEF Stores
<1>11. VersionsOf(req[u].doc)' = VersionsOf(req[u].doc) /\ Creates(u)' = Creates(u)
  <2>1. PICK d \in Uploads : d = req[u].doc
    BY <1>2 DEF Req
  <2>2. VersionsOf(d)' = VersionsOf(d)
    BY <1>3, <1>9, MovesKeep
  <2> QED BY <1>7, <1>8, <2>1, <2>2 DEF VersionsOf, Creates
<1>12. Writer(u)'
  <2>1. VersionsOf(req[u].doc)' \ {u} = others
    BY <1>11
  <2>2. (req[u].pc \in Locking /\ ~Creates(u) => docLock[req[u].doc] = u)'
    BY <1>1, <1>3, <1>7, <1>8, <1>11 DEF Writer
  <2>3. (req[u].seenCurrent \cup req[u].seenCompleted \subseteq VersionsOf(req[u].doc) \ {u})'
    BY <1>6, <1>7, <1>8, <2>1
  <2>4. (\A w \in VersionsOf(req[u].doc) \ {u} : ver[w].current => w \in req[u].seenCurrent)'
    <3> HIDE DEF others
    <3> QED BY <1>3, <1>6, <1>7, <1>8, <2>1
  <2> QED BY <2>2, <2>3, <2>4 DEF Writer
<1> QED BY <1>3, <1>7, <1>8, <1>9, <1>10, <1>12, MovesInv

-----------------------------------------------------------------------------
(* The steps that write rows.                                                *)
LEMMA MarkKeeps ==
  ASSUME IInv, NEW u \in Uploads, Mark(u)
  PROVE  IInv'
<1> USE DEF NotInserted, NotCommitted, Locking
<1>1. Document(u) /\ Stores(u) /\ TypeOK
  BY DEF IInv, Own
<1>2. req[u].pc = "mark" /\ ~Creates(u) /\ UNCHANGED <<cur, chunks, vectors>>
  BY <1>1 DEF Mark, Document
<1>3. PICK leak \in BOOLEAN :
        /\ FailTo(u, "failed", leak)
        /\ \/ leak /\ UNCHANGED ver
           \/ ver' = [ver EXCEPT ![u] = [state |-> "failed", current |-> FALSE]]
  BY DEF Mark
<1>4. MovesOn(u) /\ req'[u].pc = "failed" /\ req'[u].leak = (req[u].leak \/ leak)
      /\ Writer(u)'
  BY <1>2, <1>3, FailMoves DEF InFlight
<1>5. req'[u].doc = req[u].doc /\ Creates(u)' = Creates(u)
  BY <1>4 DEF MovesOn, Creates
<1>6. CASE leak /\ UNCHANGED ver
  <2>1. Stores(u)'
    BY <1>4, <1>6 DEF Stores
  <2> QED BY <1>2, <1>4, <1>6, <2>1, MovesInv
<1>7. CASE ver' = [ver EXCEPT ![u] = [state |-> "failed", current |-> FALSE]]
  <2>1. PICK rec \in Req : req' = [req EXCEPT ![u] = rec]
    BY <1>4 DEF MovesOn
  <2>2. TypeOK'
    BY <1>1, <1>2, <1>4, <1>7, <2>1 DEF TypeOK, MovesOn, VersionRow
  <2>3. \A w \in Uploads \ {u} : req'[w] = req[w] /\ ver'[w] = ver[w]
    BY <1>1, <1>7, <2>1 DEF TypeOK
  <2>4. ver'[u].state = "failed" /\ ver'[u].current = FALSE /\ ver[u].state # "none"
    BY <1>1, <1>2, <1>7 DEF TypeOK, Document
  <2>5. \A w \in Uploads : req'[w].doc = req[w].doc /\ req'[w].code = req[w].code
                            /\ req'[w].num = req[w].num
    BY <1>4, <2>3 DEF MovesOn
  <2>6. \A d \in Uploads : VersionsOf(d)' = VersionsOf(d) /\ SameIds(d)' = SameIds(d)
    BY <2>3, <2>4, <2>5 DEF VersionsOf, SameIds
  <2>7. \A d \in Uploads : HasRow(d) => HasRow(d)'
    BY <1>2, <1>4, <2>3, <2>5 DEF HasRow, Creates
  <2>8. \A w \in Uploads : req[w].doc \in Uploads
    BY <1>1 DEF TypeOK, Req
  <2>9. NumbersUnique'
    BY <2>5, <2>6 DEF IInv, NumbersUnique, VersionsOf
  <2>10. ASSUME NEW w \in Uploads
         PROVE  Document(w)'
    <3>1. Document(w) /\ Creates(w)' = Creates(w)
      BY <2>5 DEF IInv, Own, Creates
    <3>2. HasRow(req[w].doc) => HasRow(req[w].doc)'
      <4>1. PICK d \in Uploads : d = req[w].doc
        BY <2>8
      <4>2. HasRow(d) => HasRow(d)'
        BY <2>7
      <4> QED BY <2>5, <4>1, <4>2 DEF HasRow, Creates
    <3> QED BY <1>2, <1>4, <2>3, <2>4, <2>5, <3>1, <3>2 DEF Document
  <2>11. ASSUME NEW w \in Uploads
         PROVE  Stores(w)'
    <3>1. CASE w = u
      BY <1>1, <1>2, <1>4, <2>4, <3>1 DEF Stores
    <3>2. CASE w # u
      BY <1>2, <2>3, <3>2 DEF IInv, Own, Stores
    <3> QED BY <3>1, <3>2
  <2>12. ASSUME NEW w \in Uploads \ {u}
         PROVE  Writer(w)'
    <3>1. Writer(w) /\ Creates(w)' = Creates(w) /\ w # NoOne
      BY <2>5, NoOneAssumption DEF IInv, Own, Creates
    <3>2. PICK d \in Uploads : d = req[w].doc
      BY <2>8
    <3>3. VersionsOf(req[w].doc)' = VersionsOf(req[w].doc)
      BY <2>5, <2>6, <3>2 DEF VersionsOf
    <3>4. \A x \in VersionsOf(req[w].doc) : ver'[x].current => ver[x].current
      BY <2>3, <2>4 DEF VersionsOf
    <3>5. (req[w].pc \in Locking /\ ~Creates(w) => docLock[req[w].doc] = w)'
      BY <1>4, <2>3, <2>8, <3>1 DEF Writer, MovesOn
    <3> QED BY <2>3, <3>1, <3>3, <3>4, <3>5 DEF Writer
  <2>13. ASSUME NEW w \in Uploads
         PROVE  Flag(w)'
    BY <1>2, <2>3, <2>4 DEF IInv, Own, Flag
  <2>14. ASSUME NEW d \in Uploads
         PROVE  Current(d)'
    <3>1. Current(d) /\ (cur[d] # NoOne => cur[d] \in Uploads)
      BY <1>1 DEF IInv, TypeOK
    <3> QED BY <1>2, <2>3, <2>4, <2>5, <3>1 DEF Current
  <2>15. ASSUME NEW w \in Uploads
         PROVE  Kept(w)'
    <3>1. \A x \in Uploads : Undone(x)' = Undone(x)
      BY <1>2, <1>4, <2>3 DEF Undone
    <3>2. Safe(w) => Safe(w)'
      BY <1>2, <2>5, <2>6, <3>1 DEF Safe, SameIds
    <3>3. req'[w].pc = "commit" => req[w].pc = "commit"
      BY <1>4, <2>3
    <3> QED BY <1>2, <2>5, <3>2, <3>3 DEF IInv, Kept
  <2> QED BY <1>4, <2>2, <2>9, <2>10, <2>11, <2>12, <2>13, <2>14, <2>15 DEF IInv, Own
<1> QED BY <1>3, <1>6, <1>7

LEMMA StartKeeps ==
  ASSUME IInv, NEW u \in Uploads, VersionStart(u)
  PROVE  IInv'
<1> USE DEF NotInserted, NotCommitted, Locking
<1>1. TypeOK /\ req[u].pc = "new" /\ req[u] \in Req /\ req \in [Uploads -> Req]
  BY DEF VersionStart, IInv, TypeOK
<1>2. Creates(u) /\ ver[u].state = "none" /\ cur[u] = NoOne /\ ~ver[u].current
      /\ u \notin vectors /\ u \notin chunks
  BY <1>1, NoOneAssumption DEF IInv, Own, Document, Flag, Stores, Creates
<1>3. PICK d \in Uploads \ {u} :
        /\ HasRow(d) /\ docLock[d] = NoOne
        /\ req' = [req EXCEPT ![u].pc = "parse", ![u].doc = d, ![u].num = NextNumber(d)]
  BY DEF VersionStart
<1>4. /\ ver' = [ver EXCEPT ![u].state = "processing"]
      /\ UNCHANGED <<cur, chunks, vectors, docLock>>
  BY DEF VersionStart
<1>5. /\ NextNumber(d) \in Nat \ {0}
      /\ \A w \in VersionsOf(d) : NextNumber(d) > req[w].num
  BY <1>1, NextNumberIsNew
<1> DEFINE rec == [req[u] EXCEPT !.pc = "parse", !.doc = d, !.num = NextNumber(d)]
<1>6. req' = [req EXCEPT ![u] = rec]
  BY <1>1, <1>3
<1>7. rec \in Req /\ rec.pc = "parse" /\ rec.doc = d /\ rec.num = NextNumber(d)
  BY <1>1, <1>5 DEF Req, InFlight
<1> HIDE DEF rec
<1>8. req'[u] = rec /\ \A w \in Uploads \ {u} : req'[w] = req[w]
  BY <1>1, <1>6
<1>9. /\ ver' \in [Uploads -> VersionRow]
      /\ ver'[u].state = "processing" /\ ver'[u].current = FALSE
      /\ \A w \in Uploads \ {u} : ver'[w] = ver[w]
  BY <1>1, <1>2, <1>4 DEF TypeOK, VersionRow
<1>10. TypeOK'
  BY <1>1, <1>4, <1>6, <1>7, <1>9 DEF TypeOK
<1>11. /\ VersionsOf(d)' = VersionsOf(d) \cup {u}
       /\ \A e \in Uploads \ {d} : VersionsOf(e)' = VersionsOf(e)
       /\ u \notin VersionsOf(d)
  BY <1>2, <1>7, <1>8, <1>9 DEF VersionsOf
<1>12. NumbersUnique'
  <2>1. SUFFICES ASSUME NEW e \in Uploads, NEW v \in VersionsOf(e)', NEW w \in VersionsOf(e)',
                        req'[v].num = req'[w].num
                 PROVE  v = w
    BY DEF NumbersUnique
  <2>2. \A x \in VersionsOf(d) : x \in Uploads \ {u} /\ req[x].num \in Nat
    BY <1>1, <1>11 DEF VersionsOf, TypeOK, Req
  <2>3. CASE e # d
    <3>1. v \in VersionsOf(e) /\ w \in VersionsOf(e) /\ v # u /\ w # u
      BY <1>7, <1>8, <1>11, <2>3 DEF VersionsOf
    <3> QED BY <1>8, <2>1, <3>1 DEF IInv, NumbersUnique, VersionsOf
  <2>4. CASE e = d
    <3>1. v \in VersionsOf(d) \cup {u} /\ w \in VersionsOf(d) \cup {u}
      BY <1>11, <2>4
    <3>2. CASE v # u /\ w # u
      BY <1>8, <2>1, <2>2, <3>1, <3>2 DEF IInv, NumbersUnique
    <3>3. \A x \in VersionsOf(d) : req'[x].num # req'[u].num
      BY <1>5, <1>7, <1>8, <2>2
    <3> QED BY <2>1, <3>1, <3>2, <3>3
  <2> QED BY <2>3, <2>4
<1>13. \A e \in Uploads : HasRow(e) => HasRow(e)'
  BY <1>1, <1>4, <1>8 DEF HasRow, Creates
<1>14. \A w \in Uploads \ {u} : Creates(w)' = Creates(w)
  BY <1>8 DEF Creates
<1>15. ~Creates(u)' /\ HasRow(req[u].doc)'
  <2>1. HasRow(d)'
    BY <1>3, <1>13
  <2> QED BY <1>3, <1>7, <1>8, <2>1 DEF Creates, HasRow
<1>16. Own(u)'
  <2>1. Document(u)'
    BY <1>7, <1>8, <1>9, <1>15 DEF Document
  <2>2. Stores(u)' /\ Writer(u)'
    BY <1>2, <1>4, <1>7, <1>8 DEF Stores, Writer
  <2>3. Flag(u)'
    BY <1>9 DEF Flag
  <2> QED BY <2>1, <2>2, <2>3 DEF Own
<1>17. ASSUME NEW w \in Uploads \ {u}
       PROVE  Own(w)'
  <2>1. /\ Own(w) /\ req'[w] = req[w] /\ ver'[w] = ver[w] /\ Creates(w)' = Creates(w)
    BY <1>8, <1>9, <1>14 DEF IInv
  <2>2. PICK e \in Uploads : e = req[w].doc
    BY <1>1 DEF TypeOK, Req
  <2>3. Document(w)'
    <3>1. HasRow(req[w].doc) => HasRow(req[w].doc)'
      <4>1. HasRow(e) => HasRow(e)'
        BY <1>13
      <4> QED BY <2>1, <2>2, <4>1 DEF HasRow, Creates
    <3> QED BY <1>4, <2>1, <3>1 DEF Own, Document
  <2>4. Stores(w)'
    BY <1>4, <2>1 DEF Own, Stores
  <2>5. Writer(w)'
    <3>1. VersionsOf(req[w].doc)' \in {VersionsOf(e), VersionsOf(e) \cup {u}}
      <4>1. VersionsOf(e)' \in {VersionsOf(e), VersionsOf(e) \cup {u}}
        BY <1>11
      <4> QED BY <2>1, <2>2, <4>1 DEF VersionsOf
    <3>2. \A x \in VersionsOf(e) \cup {u} : ver'[x].current => x # u /\ ver[x].current
      BY <1>9 DEF VersionsOf
    <3>3. (req[w].pc \in Locking /\ ~Creates(w) => docLock[req[w].doc] = w)'
      BY <1>4, <2>1 DEF Own, Writer
    <3>4. ASSUME req[w].pc = "commit"
          PROVE  /\ req[w].seenCurrent \cup req[w].seenCompleted
                      \subseteq VersionsOf(e) \ {w}
                 /\ \A x \in VersionsOf(e) \ {w} : ver[x].current => x \in req[w].seenCurrent
      BY <2>1, <2>2, <3>4 DEF Own, Writer
    <3> QED BY <2>1, <3>1, <3>2, <3>3, <3>4 DEF Writer
  <2>6. Flag(w)'
    BY <1>4, <2>1 DEF Own, Flag
  <2> QED BY <2>3, <2>4, <2>5, <2>6 DEF Own
<1>18. ASSUME NEW e \in Uploads
       PROVE  Current(e)'
  <2>1. Current(e) /\ (cur[e] # NoOne => cur[e] \in Uploads /\ cur[e] # u)
    BY <1>1, <1>2 DEF IInv, Current, Creates, TypeOK
  <2> QED BY <1>4, <1>8, <1>9, <2>1 DEF Current
<1>19. ASSUME NEW w \in Uploads
       PROVE  Kept(w)'
  <2>1. CASE w = u
    <3>1. cur[d] # u
      BY <1>2, <1>3, NoOneAssumption DEF IInv, Current, Creates
    <3> QED BY <1>4, <1>7, <1>8, <2>1, <3>1 DEF Kept
  <2>2. CASE w # u
    <3>1. SUFFICES ASSUME req[w].pc = "commit" \/ cur[req[w].doc] = w
                   PROVE  Safe(w)'
      BY <1>4, <1>8, <2>2 DEF Kept
    <3>2. Safe(w)
      BY <3>1 DEF IInv, Kept
    <3>3. \A x \in Uploads : Undone(x) => x # u /\ Undone(x)'
      BY <1>1, <1>8 DEF Undone
    <3>4. \A x \in SameIds(w) : x \in Uploads /\ (x # u => x \in SameIds(w)')
      BY <1>8, <2>2 DEF SameIds
    <3>5. CASE w \in vectors \/ Undone(w)
      BY <1>4, <3>3, <3>5 DEF Safe
    <3>6. CASE \E x \in SameIds(w) : req[x].doc # req[w].doc /\ Undone(x)
      BY <1>8, <2>2, <3>3, <3>4, <3>6 DEF Safe
    <3> QED BY <3>2, <3>5, <3>6 DEF Safe
  <2> QED BY <2>1, <2>2
<1> QED BY <1>10, <1>12, <1>16, <1>17, <1>18, <1>19 DEF IInv

(* An upload that commits is the only one to write its document's versions.  *)
LEMMA OnlyWriter ==
  ASSUME IInv, NEW u \in Uploads, req[u].pc = "commit",
         NEW w \in Uploads, w # u, req[w].doc = req[u].doc
  PROVE  /\ ~Creates(u)
         /\ req[w].pc # "commit"
<1> USE DEF NotInserted, NotCommitted, Locking
<1>1. Document(u) /\ Document(w) /\ Writer(u) /\ Writer(w)
  BY DEF IInv, Own
<1>2. CASE Creates(u)
  <2>1. ~HasRow(u)
    BY <1>1, <1>2 DEF Document, HasRow
  <2> QED BY <1>1, <1>2, <2>1 DEF Document, Creates
<1>3. CASE ~Creates(u) /\ req[w].pc = "commit"
  <2>1. CASE Creates(w)
    <3>1. ~HasRow(w)
      BY <1>1, <1>3, <2>1 DEF Document, HasRow
    <3> QED BY <1>1, <1>3, <2>1, <3>1 DEF Document, Creates
  <2>2. CASE ~Creates(w)
    BY <1>1, <1>3, <2>2 DEF Writer
  <2> QED BY <2>1, <2>2
<1> QED BY <1>2, <1>3

LEMMA CommitKeeps ==
  ASSUME IInv, NEW u \in Uploads, Commit(u)
  PROVE  IInv'
<1> USE DEF NotInserted, NotCommitted, Locking
<1> DEFINE rec == [req[u] EXCEPT !.pc = "answer", !.seenCurrent = {}, !.seenCompleted = {}]
<1>1. TypeOK /\ req[u].pc = "commit" /\ req[u] \in Req /\ req \in [Uploads -> Req]
  BY DEF Commit, IInv, TypeOK
<1>2. req' = [req EXCEPT ![u] = rec] /\ docLock' = Unlocked(u) /\ UNCHANGED vectors
      /\ chunks' = chunks \cup {u} /\ cur' = [cur EXCEPT ![req[u].doc] = u]
  BY <1>1 DEF Commit
<1>3. rec \in Req /\ rec.pc = "answer" /\ rec.doc = req[u].doc /\ rec.code = req[u].code
      /\ rec.num = req[u].num
  BY <1>1 DEF Req, InFlight
<1> HIDE DEF rec
<1>4. /\ req'[u].pc = "answer"
      /\ \A w \in Uploads \ {u} : req'[w] = req[w]
      /\ \A w \in Uploads : req'[w].doc = req[w].doc /\ req'[w].code = req[w].code
                             /\ req'[w].num = req[w].num
  BY <1>1, <1>2, <1>3
<1>5. PICK d \in Uploads : d = req[u].doc
  BY <1>1 DEF Req
<1>6. /\ cur' \in [Uploads -> Uploads \cup {NoOne}]
      /\ cur'[d] = u /\ \A e \in Uploads \ {d} : cur'[e] = cur[e]
  BY <1>1, <1>2, <1>5 DEF TypeOK
<1>7. /\ ver'[u].state = "completed" /\ ver'[u].current = TRUE
      /\ \A w \in Uploads \ {u} :
           /\ ver'[w].state = IF w \in req[u].seenCompleted THEN "superseded" ELSE ver[w].state
           /\ ver'[w].current = (ver[w].current /\ w \notin req[u].seenCurrent)
  BY DEF Commit
<1>8. ver' \in [Uploads -> VersionRow]
  <2> DEFINE row(w) ==
        IF w = u THEN [state |-> "completed", current |-> TRUE]
        ELSE [state   |-> IF w \in req[u].seenCompleted THEN "superseded" ELSE ver[w].state,
              current |-> ver[w].current /\ w \notin req[u].seenCurrent]
  <2>1. ver' = [w \in Uploads |-> row(w)]
    BY DEF Commit
  <2>2. \A w \in Uploads : row(w) \in VersionRow
    <3>1. TAKE w \in Uploads
    <3>2. ver[w].state \in {"none", "processing", "completed", "superseded", "failed"}
      BY <1>1 DEF TypeOK, VersionRow
    <3>3. (ver[w].current /\ w \notin req[u].seenCurrent) \in BOOLEAN
      OBVIOUS
    <3> QED BY <3>2, <3>3 DEF VersionRow
  <2> HIDE DEF row
  <2> QED BY <2>1, <2>2
<1>9. TypeOK'
  BY <1>1, <1>2, <1>3, <1>6, <1>8, UnlockedType DEF TypeOK
<1>10. /\ Document(u) /\ Writer(u) /\ Kept(u)
       /\ req[u].seenCurrent \cup req[u].seenCompleted \subseteq VersionsOf(d) \ {u}
       /\ \A w \in VersionsOf(d) \ {u} : ver[w].current => w \in req[u].seenCurrent
  BY <1>1, <1>5 DEF IInv, Own, Writer
<1>11. \A w \in Uploads \ {u} : ver'[w].state = "none" <=> ver[w].state = "none"
  BY <1>7, <1>10 DEF VersionsOf
<1>12. /\ VersionsOf(d)' = VersionsOf(d) \cup {u}
       /\ \A e \in Uploads \ {d} : VersionsOf(e)' = VersionsOf(e)
  BY <1>4, <1>5, <1>7, <1>11 DEF VersionsOf
<1>13. \A w \in Uploads : SameIds(w)' = SameIds(w)
  BY <1>4 DEF SameIds
<1>14. \A e \in Uploads : Creates(e)' = Creates(e)
  BY <1>4 DEF Creates
<1>15. \A e \in Uploads : HasRow(e) => HasRow(e)'
  BY <1>1, <1>4, <1>6, <1>14, NoOneAssumption DEF HasRow
<1>16. NumbersUnique'
  <2>1. CASE u \in VersionsOf(d)
    BY <1>4, <1>12, <2>1 DEF IInv, NumbersUnique, VersionsOf
  <2>2. CASE u \notin VersionsOf(d)
    <3>1. Creates(u)
      BY <1>5, <1>10, <2>2 DEF Document, VersionsOf
    <3>2. VersionsOf(d) = {}
      BY <1>1, <1>5, <2>2, <3>1, OnlyWriter DEF VersionsOf
    <3> QED BY <1>4, <1>12, <3>2 DEF IInv, NumbersUnique, VersionsOf
  <2> QED BY <2>1, <2>2
<1>17. Own(u)'
  <2>1. Document(u)'
    <3>1. HasRow(req[u].doc)'
      <4>1. HasRow(d)'
        BY <1>6, NoOneAssumption DEF HasRow
      <4> QED BY <1>4, <1>5, <4>1 DEF HasRow, Creates
    <3> QED BY <1>4, <1>7, <3>1 DEF Document
  <2>2. Stores(u)' /\ Writer(u)'
    BY <1>2, <1>4, <1>7 DEF Stores, Writer
  <2>3. Flag(u)'
    BY <1>4, <1>5, <1>6 DEF Flag
  <2> QED BY <2>1, <2>2, <2>3 DEF Own
<1>18. ASSUME NEW w \in Uploads \ {u}
       PROVE  Own(w)'
  <2>1. Own(w) /\ req'[w] = req[w] /\ Creates(w)' = Creates(w) /\ w # NoOne /\ w # u
    BY <1>4, <1>14, NoOneAssumption DEF IInv
  <2>2. PICK e \in Uploads : e = req[w].doc
    BY <1>1 DEF TypeOK, Req
  <2>3. Document(w)'
    <3>1. HasRow(req[w].doc) => HasRow(req[w].doc)'
      <4>1. HasRow(e) => HasRow(e)'
        BY <1>15
      <4> QED BY <2>1, <2>2, <4>1 DEF HasRow, Creates
    <3>2. ver'[w].state = "processing" => ver[w].state = "processing"
      BY <1>7
    <3>3. Creates(w) /\ req[w].pc # "failed" /\ ver[w].state = "none" => cur'[w] = NoOne
      <4>1. SUFFICES ASSUME Creates(w), req[w].pc # "failed", ver[w].state = "none"
                     PROVE  cur'[w] = NoOne
        OBVIOUS
      <4>2. cur[w] = NoOne
        BY <2>1, <4>1 DEF Own, Document
      <4>3. ~HasRow(w)
        BY <4>1, <4>2 DEF HasRow
      <4>4. d # w
        BY <1>5, <1>10, <2>1, <4>3 DEF Document, Creates
      <4> QED BY <1>6, <4>2, <4>4
    <3> QED BY <1>11, <2>1, <3>1, <3>2, <3>3 DEF Own, Document
  <2>4. Stores(w)'
    BY <1>2, <1>7, <2>1 DEF Own, Stores
  <2>5. Writer(w)'
    <3>1. (req[w].pc \in Locking /\ ~Creates(w) => docLock[req[w].doc] = w)'
      BY <1>1, <1>2, <2>1, <2>2, UnlockedType DEF Own, Writer
    <3>2. CASE req[w].pc = "commit"
      <4>1. e # d
        BY <1>1, <1>5, <2>1, <2>2, <3>2, OnlyWriter
      <4>2. VersionsOf(req[w].doc)' = VersionsOf(e)
        <5>1. VersionsOf(e)' = VersionsOf(e)
          BY <1>12, <4>1
        <5> QED BY <2>1, <2>2, <5>1 DEF VersionsOf
      <4>3. \A x \in VersionsOf(e) : ver'[x].current => ver[x].current
        BY <1>5, <1>7, <4>1 DEF VersionsOf
      <4> QED BY <2>1, <2>2, <3>1, <3>2, <4>2, <4>3 DEF Own, Writer
    <3>3. CASE req[w].pc # "commit"
      BY <2>1, <3>1, <3>3 DEF Writer
    <3> QED BY <3>2, <3>3
  <2>6. Flag(w)'
    <3>1. SUFFICES ASSUME ver[w].current, w \notin req[u].seenCurrent
                   PROVE  cur'[e] = w
      BY <1>7, <2>1, <2>2 DEF Flag
    <3>2. cur[e] = w
      BY <2>1, <2>2, <3>1 DEF Own, Flag
    <3>3. ver[w].state # "none"
      BY <2>1, <3>2 DEF IInv, Current
    <3>4. e # d
      BY <1>10, <2>1, <2>2, <3>1, <3>3 DEF VersionsOf
    <3> QED BY <1>6, <3>2, <3>4
  <2> QED BY <2>3, <2>4, <2>5, <2>6 DEF Own
<1>19. ASSUME NEW e \in Uploads
       PROVE  Current(e)'
  <2>1. CASE e = d
    BY <1>4, <1>5, <1>6, <1>7, <2>1 DEF Current
  <2>2. CASE e # d
    <3>1. SUFFICES ASSUME cur[e] # NoOne
                   PROVE  Current(e)'
      BY <1>6, <2>2 DEF Current
    <3>2. PICK x \in Uploads : x = cur[e]
      BY <1>1, <3>1 DEF TypeOK
    <3>3. req[x].doc = e /\ ver[x].state # "none"
          /\ (ver[x].current \/ ver[x].state = "failed")
      BY <3>1, <3>2 DEF IInv, Current
    <3>4. x # u /\ x \notin VersionsOf(d)
      BY <1>5, <2>2, <3>3 DEF VersionsOf
    <3>5. ver'[x].state = ver[x].state /\ ver'[x].current = ver[x].current
      BY <1>7, <1>8, <1>10, <3>2, <3>4, <1>1 DEF TypeOK, VersionRow
    <3> QED BY <1>4, <1>6, <2>2, <3>2, <3>3, <3>5 DEF Current
  <2> QED BY <2>1, <2>2
<1>20. ASSUME NEW w \in Uploads
       PROVE  Kept(w)'
  <2>1. Safe(w) => Safe(w)'
    <3>1. \A x \in Uploads : Undone(x) => Undone(x)'
      BY <1>1, <1>4 DEF Undone
    <3> QED BY <1>2, <1>4, <1>13, <3>1 DEF Safe, SameIds
  <2>2. PICK e \in Uploads : e = req[w].doc
    BY <1>1 DEF TypeOK, Req
  <2>3. req'[w].pc = "commit" \/ cur'[e] = w => w = u \/ req[w].pc = "commit" \/ cur[e] = w
    BY <1>4, <1>6
  <2> QED BY <1>1, <1>4, <2>1, <2>2, <2>3 DEF IInv, Kept
<1> QED BY <1>9, <1>16, <1>17, <1>18, <1>19, <1>20 DEF IInv

-----------------------------------------------------------------------------
(* The invariant                                                             *)
LEMMA Initially == Init => IInv
<1> SUFFICES ASSUME Init
             PROVE  IInv
  OBVIOUS
<1> USE DEF NotInserted, NotCommitted, Locking
<1>1. PICK code \in [Uploads -> Codes] :
        req = [u \in Uploads |->
                 [pc |-> IF u \in Articles THEN "done" ELSE "new",
                  code |-> code[u], doc |-> u, num |-> 1,
                  seenCurrent |-> {}, seenCompleted |-> {}, leak |-> FALSE]]
  BY DEF Init
<1>2. /\ \A u \in Uploads : /\ req[u].pc \in {"new", "done"}
                            /\ req[u].pc = "done" <=> u \in Articles
                            /\ req[u].doc = u
      /\ ver = [u \in Uploads |-> [state |-> IF u \in Articles THEN "completed" ELSE "none",
                                   current |-> u \in Articles]]
      /\ cur = [u \in Uploads |-> IF u \in Articles THEN u ELSE NoOne]
      /\ chunks = Articles /\ vectors = Articles
      /\ docLock = [u \in Uploads |-> NoOne]
  BY <1>1 DEF Init
<1>3. TypeOK
  <2>1. req \in [Uploads -> Req]
    <3> DEFINE row(u) == [pc |-> IF u \in Articles THEN "done" ELSE "new",
                          code |-> code[u], doc |-> u, num |-> 1,
                          seenCurrent |-> {}, seenCompleted |-> {}, leak |-> FALSE]
    <3>1. \A u \in Uploads : row(u) \in Req
      BY DEF Req, Ended
    <3> HIDE DEF row
    <3>2. req = [u \in Uploads |-> row(u)]
      BY <1>1 DEF row
    <3> QED BY <3>1, <3>2
  <2>2. ver \in [Uploads -> VersionRow]
    <3> DEFINE row(u) == [state |-> IF u \in Articles THEN "completed" ELSE "none",
                          current |-> u \in Articles]
    <3>1. \A u \in Uploads : row(u) \in VersionRow
      <4>1. TAKE u \in Uploads
      <4>2. (u \in Articles) \in BOOLEAN
        OBVIOUS
      <4> QED BY <4>2 DEF VersionRow
    <3> HIDE DEF row
    <3>2. ver = [u \in Uploads |-> row(u)]
      BY <1>2 DEF row
    <3> QED BY <3>1, <3>2
  <2> QED BY <1>2, <2>1, <2>2, ArticlesAssumption DEF TypeOK
<1>4. \A u \in Uploads : /\ ver[u].state = (IF u \in Articles THEN "completed" ELSE "none")
                         /\ ver[u].current = (u \in Articles)
                         /\ cur[u] = (IF u \in Articles THEN u ELSE NoOne)
  BY <1>2
<1>5. ASSUME NEW u \in Uploads
      PROVE  Own(u) /\ Current(u) /\ Kept(u)
  <2>1. Document(u) /\ Stores(u) /\ Writer(u) /\ Flag(u)
    BY <1>2, <1>4 DEF Document, Creates, Stores, Writer, Flag
  <2>2. Current(u) /\ Kept(u)
    BY <1>2, <1>4, NoOneAssumption DEF Current, Kept, Safe
  <2> QED BY <2>1, <2>2 DEF Own
<1>6. NumbersUnique
  BY <1>2 DEF NumbersUnique, VersionsOf
<1> QED BY <1>3, <1>5, <1>6 DEF IInv

LEMMA Inductive == IInv /\ [Next]_vars => IInv'
<1> SUFFICES ASSUME IInv, [Next]_vars
             PROVE  IInv'
  OBVIOUS
<1>1. CASE UNCHANGED vars
  BY <1>1 DEF vars, IInv, TypeOK, Own, Document, Stores, Writer, Flag, Current, Kept, Safe,
     NumbersUnique, VersionsOf, SameIds, Undone, Creates, HasRow
<1>2. ASSUME NEW u \in Uploads, Goes(u) \/ Crash(u)
      PROVE  IInv'
  <2>1. CASE FindExisting(u)
    BY <2>1, FindKeeps, FailKeeps
  <2>2. CASE ~FindExisting(u)
    BY <1>2, <2>2, MoveKeeps, FailKeeps, InsertKeeps, MarkKeeps, StartKeeps, CommitKeeps
       DEF Goes
  <2> QED BY <2>1, <2>2
<1> QED BY <1>1, <1>2 DEF Next, Quiescent

THEOREM Invariance == Spec => []IInv
  BY Initially, Inductive, PTL DEF Spec

(* Every variable of the upload service keeps its type.                      *)
THEOREM TypeCorrect == Spec => []TypeOK
<1>1. IInv => TypeOK
  BY DEF IInv
<1> QED BY <1>1, Invariance, PTL

(* Versions uploaded to a document at the same time get different numbers,   *)
(* whatever fails: a number is given under the document's lock.              *)
THEOREM VersionNumbersUnique == Spec => []NumbersUnique
<1>1. IInv => NumbersUnique
  BY DEF IInv
<1> QED BY <1>1, Invariance, PTL

(* The flag of the version rows and the document's pointer always agree on   *)
(* the current version.                                                      *)
THEOREM CurrentMarkersAgree == Spec => []CurrentAgrees
<1>1. IInv => CurrentAgrees
  BY DEF IInv, Own, Flag, Current, CurrentAgrees
<1> QED BY <1>1, Invariance, PTL

(* The current version is searchable, unless its own answer failed or an     *)
(* upload of another document with the same article code was undone.         *)
THEOREM CurrentIsIndexed == Spec => []CurrentIndexed
<1>1. ASSUME IInv
      PROVE  CurrentIndexed
  <2>1. SUFFICES ASSUME NEW d \in Uploads, cur[d] # NoOne
                 PROVE  \/ cur[d] \in vectors
                        \/ Undone(cur[d])
                        \/ \E w \in SameIds(cur[d]) : req[w].doc # d /\ Undone(w)
    BY DEF CurrentIndexed
  <2>2. PICK x \in Uploads : x = cur[d]
    BY <1>1, <2>1 DEF IInv, TypeOK
  <2>3. req[x].doc = d /\ Safe(x)
    BY <1>1, <2>1, <2>2 DEF IInv, Current, Kept
  <2> QED BY <2>2, <2>3 DEF Safe
<1> QED BY <1>1, Invariance, PTL

(* A failed upload leaves vectors without rows, or a version in progress,    *)
(* only if it crashed or its cleanup failed.                                 *)
THEOREM LeftoversAccounted == Spec => []LeftoversExplained
<1>1. ASSUME IInv
      PROVE  LeftoversExplained
  <2>1. SUFFICES ASSUME NEW u \in Uploads,
                        u \in vectors \ chunks \/ ver[u].state = "processing"
                 PROVE  req[u].pc \in InFlight \cup {"crashed"} \/ req[u].leak
    BY DEF LeftoversExplained
  <2>2. Document(u) /\ Stores(u) /\ req[u].pc \in {"new"} \cup InFlight \cup Ended
    BY <1>1 DEF IInv, Own, TypeOK, Req
  <2> QED BY <2>1, <2>2 DEF Document, Stores, NotInserted, NotCommitted, Ended
<1> QED BY <1>1, Invariance, PTL

(* Readers of the knowledge base get what module Library promises: only a    *)
(* commit changes what is current, and it publishes a version not seen       *)
(* before.                                                                   *)
THEOREM LibraryImplemented == Spec => LibraryRefines
<1>1. Init => Published!Init
  BY DEF Init, Published!Init
<1>2. IInv /\ [Next]_vars => [Published!Next]_<<cur, chunks>>
  <2> SUFFICES ASSUME IInv, Next
               PROVE  Published!Next \/ UNCHANGED <<cur, chunks>>
    BY DEF vars
  <2>1. ASSUME NEW u \in Uploads, Commit(u)
        PROVE  Published!Next
    <3>1. u \notin chunks /\ req[u].doc \in Uploads
      BY <2>1 DEF Commit, IInv, TypeOK, Req, Own, Stores, NotCommitted
    <3>2. Published!Publish(req[u].doc, u)
      BY <2>1, <3>1 DEF Commit, Published!Publish
    <3> QED BY <3>1, <3>2 DEF Published!Next
  <2>2. ASSUME NEW u \in Uploads, Goes(u) \/ Crash(u), ~Commit(u)
        PROVE  UNCHANGED <<cur, chunks>>
    BY <2>2 DEF Goes, Crash, Preflight, Check, VersionStart, VersionLock, Unreadable,
       FindExisting, Insert, InsertFails, CommitFails, Answer, AnswerFails, Clean, Mark
  <2> QED BY <2>1, <2>2 DEF Next, Quiescent, vars
<1> QED BY <1>1, <1>2, Invariance, PTL DEF Spec, LibraryRefines, Published!Spec
=============================================================================
