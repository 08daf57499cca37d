------------------------------- MODULE Ranking -------------------------------
(***************************************************************************)
(* How a question finds passages (retrieval_service): the nearest vectors, *)
(* less those of superseded versions, together with the rows of the        *)
(* current versions that share a word with the question; both ranked by    *)
(* the similarity of the vectors plus a share of the words' points.        *)
(*                                                                         *)
(* A passage is the words that matter in it, with its type and priority; a *)
(* question is the words that matter in it.  Words that differ by a final  *)
(* "s" are one.  Points are counted in twentieths.                         *)
(***************************************************************************)
EXTENDS Integers, Sequences, FiniteSets, FiniteSetsExt, SequencesExt

CONSTANTS
  Generic,            \* words that are in too many passages to tell them apart
  Codes,              \* operational identifiers: PM, F04
  Similarity(_, _),   \* of a question and a passage, in eighths
  TopK, NearestPerHit, RowsPerHit,      \* 5, 8, 5
  FewestRows, MostCandidates            \* 20, 50

ASSUME RankingAssumption ==
  {TopK, NearestPerHit, RowsPerHit, FewestRows, MostCandidates} \subseteq Nat

\* The best k of those that have a score.
Tops(score, k) ==
  LET H == DOMAIN score
  IN  {S \in kSubset(Min({k, Cardinality(H)}), H) :
         \A h \in S, other \in H \ S : score[h] >= score[other]}

-----------------------------------------------------------------------------
(* _lexical_rerank_score                                                   *)

Occurs(words, terms) ==
  \E k \in 0 .. Len(terms) - Len(words) :
    \A i \in DOMAIN words : terms[k + i] = words[i]

Shared(query, text) == {i \in DOMAIN query : query[i] \in ToSet(text.terms)}
Specific(query) == {i \in DOMAIN query : query[i] \notin Generic}

WordPoints(query, text) ==
  LET shared == Shared(query, text)
  IN  40 * Cardinality(shared \intersect Specific(query)) + 7 * Cardinality(shared \ Specific(query))

PhrasePoints(query, text) ==
  LET pairs == {i \in 1 .. Len(query) - 1 : Occurs(<<query[i], query[i + 1]>>, text.terms)}
      generic == {i \in pairs : {i, i + 1} \intersect Specific(query) = {}}
  IN  8 * Cardinality(generic) + 160 * Cardinality(pairs \ generic)

CodePoints(query, text) ==
  LET codes == ToSet(query) \intersect Codes
  IN  400 * Cardinality(codes \intersect ToSet(text.terms))
      - 400 * Cardinality(codes \ ToSet(text.terms))

WholePoints(query, text) ==
  IF query = <<>> \/ ~Occurs(query, text.terms) THEN 0
  ELSE IF Specific(query) # {} THEN 160 ELSE 20

TypePoints(query, text) ==
  LET discriminative == Shared(query, text) \intersect Specific(query) # {}
      bonus == IF discriminative THEN 60 ELSE 0
  IN  CASE text.type = "rule" -> 15 + bonus
        [] text.type = "business_case" -> 20 + bonus
        [] text.type = "faq" -> 7
        [] text.type = "question" /\ Specific(query) # {} /\ ~discriminative -> -10
        [] OTHER -> 0

PriorityPoints(text) ==
  CASE text.priority = "critical" -> 8 [] text.priority = "high" -> 4 [] OTHER -> 0

LexicalScore(query, text) ==
  WordPoints(query, text) + PhrasePoints(query, text) + CodePoints(query, text)
  + WholePoints(query, text) + TypePoints(query, text) + PriorityPoints(text)

\* semantic + lexical * 0.025, in eight-hundredths.
Hybrid(query, hit) == 100 * hit.score + LexicalScore(query, hit.text)

-----------------------------------------------------------------------------
(* A hit: [id, text, doc, ver, score]; ver is 0 when the vector's metadata   *)
(* name no document and version.  vectors: by id; rows: of every version.   *)

VectorHits(query, vectors) ==
  {[id |-> i, text |-> vectors[i].text, doc |-> vectors[i].doc, ver |-> vectors[i].ver,
    score |-> Similarity(query, vectors[i].text)] : i \in DOMAIN vectors}

Nearest(query, vectors) ==
  Tops([h \in VectorHits(query, vectors) |-> h.score],
       Min({TopK * NearestPerHit, MostCandidates}))

(* Fault: the version of a hit is not compared. *)
FilterCurrent_Doc(hits, current) ==
  {h \in hits : h.ver = 0 \/ current[h.doc] # 0}

\* _filter_current_version_hits: current[d] is 0 when d has no committed version.
FilterCurrent(hits, current) ==
  LET pairs == {<<h.doc, current[h.doc]>> : h \in {g \in hits : g.ver # 0 /\ current[g.doc] # 0}}
  IN  IF pairs = {} THEN hits
      ELSE {h \in hits : h.ver = 0 \/ <<h.doc, h.ver>> \in pairs}

(* Fault: a row whose vector Milvus does not have is left out. *)
LexicalRows_Stored(query, rows, vectors, current) ==
  LET found == {r \in rows : /\ r.ver = current[r.doc] /\ r.id \in DOMAIN vectors
                             /\ LexicalScore(query, r.text) > 0}
  IN  {{[id |-> r.id, text |-> r.text, doc |-> r.doc, ver |-> r.ver,
         score |-> Similarity(query, vectors[r.id].text)] : r \in found}}

\* The rows of the current versions that share a word with the question, and how
\* many of them are ranked at most.
Matching(query, rows, current) ==
  {r \in rows : r.ver = current[r.doc] /\ LexicalScore(query, r.text) > 0}
RowLimit == Min({Max({TopK * RowsPerHit, FewestRows}), MostCandidates})

\* What stands for a row in the comparison with the question.
Stands(r, vectors) == IF r.id \in DOMAIN vectors THEN vectors[r.id].text ELSE r.text

\* _lexical_current_version_candidates: the stored vector of a row's id stands for
\* the row, and its own text when there is none.
LexicalRows(query, rows, vectors, current) ==
  LET score == [r \in Matching(query, rows, current) |-> LexicalScore(query, r.text)]
      hit(r) == [id |-> r.id, text |-> r.text, doc |-> r.doc, ver |-> r.ver,
                 score |-> Similarity(query, Stands(r, vectors))]
  IN  {{hit(r) : r \in S} : S \in Tops(score, RowLimit)}

\* _merge_candidate_hits: of two hits with one id the vector's is kept unless the
\* row's is nearer.
Merge(hits, lexical) ==
  LET nearer(a, b) == \E h \in b : h.id = a.id /\ h.score > a.score
  IN  {h \in hits : ~nearer(h, lexical)}
      \union {l \in lexical : \A h \in hits : h.id = l.id => l.score > h.score}

\* The first TopK, up to the order of hits that rank the same.
Ranked(query, rows, vectors, current) ==
  UNION {Tops([h \in Merge(FilterCurrent(near, current), lexical) |-> Hybrid(query, h)], TopK) :
           near \in Nearest(query, vectors),
           lexical \in LexicalRows(query, rows, vectors, current)}

\* search_chunks.  The rows do not stand in for the vectors: a search of a
\* collection that is missing or not loaded raises, in get_collection, in search
\* or in _fetch_stored_embeddings, and returns nothing.
Results(query, rows, loaded, vectors, current) ==
  IF loaded THEN Ranked(query, rows, vectors, current) ELSE {}

=============================================================================
