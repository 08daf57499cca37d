------------------------------ MODULE Chunking ------------------------------
(***************************************************************************)
(* How an article becomes chunks: its lines are put into sections by their *)
(* headings, and each section is split by rules of its own.                *)
(*                                                                         *)
(* src/backend/scripts/chunk.py (smart_chunk_article, used by the offline  *)
(* pipeline and by every upload).                                          *)
(*                                                                         *)
(* A line is what the predicates of the script see of it: the type of      *)
(* section it opens, a mark and its number of words.  A chunk is the lines *)
(* it holds, by their number in the article, or the words from .. to of a  *)
(* section that is cut by size.                                            *)
(***************************************************************************)
EXTENDS Integers, Sequences, SequencesExt, FiniteSetsExt

CONSTANTS Articles,     \* sequences of lines
          MaxWords, Overlap,    \* chunk_by_size
          PointWords    \* max_words of split_key_points

ASSUME ChunkingAssumption ==
  /\ {MaxWords, Overlap, PointWords} \subseteq Nat
  /\ 4 <= MaxWords /\ 3 <= Overlap /\ Overlap < MaxWords

SectionTypes == {"generic", "rules", "faq", "questions", "key_points", "procedure"}
Marks == {"plain", "category", "detail", "step", "starter", "question",
          "conditional", "reference"}

\* A line of an article has a word at least (split_sections drops the others).
ASSUME ArticlesAssumption ==
  Articles \subseteq Seq([opens : SectionTypes \union {"none"}, mark : Marks, words : Nat \ {0}])

VARIABLES article,      \* the lines, numbered
          sections,     \* split_sections
          section,      \* the one that is split
          start,        \* words of it already behind
          chunks
chunkVars == <<article, sections, section, start, chunks>>

Line(a, n) == [no |-> n, opens |-> a[n].opens, mark |-> a[n].mark, words |-> a[n].words]
Numbers(lines) == [k \in DOMAIN lines |-> lines[k].no]

Words(lines) ==
  LET sum[n \in 0 .. Len(lines)] == IF n = 0 THEN 0 ELSE sum[n - 1] + lines[n].words
  IN  sum[Len(lines)]

\* The elements of s at the places of K, in their order.
Chosen(s, K) ==
  LET taken[n \in 0 .. Len(s)] ==
        IF n = 0 THEN <<>> ELSE IF n \in K THEN Append(taken[n - 1], s[n]) ELSE taken[n - 1]
  IN  taken[Len(s)]

\* A section is what stands between two headings; one without text is none.
\* The tables of reference and the history are not cut into chunks.
EndSection(s) ==
  IF s.text = <<>> THEN s.done
  ELSE Append(s.done, [type |-> s.type, text |-> s.text,
                       skip |-> s.skip \/ s.text[1].mark = "reference"])
ReadLine(s, l) ==
  IF l.opens = "none" THEN [s EXCEPT !.text = Append(@, l)]
  ELSE [done |-> EndSection(s), type |-> l.opens, text |-> <<>>, skip |-> l.mark = "reference"]
SplitSections(lines) ==
  LET read[n \in 0 .. Len(lines)] ==
        IF n = 0 THEN [done |-> <<>>, type |-> "generic", text |-> <<>>, skip |-> FALSE]
        ELSE ReadLine(read[n - 1], lines[n])
  IN  EndSection(read[Len(lines)])

-----------------------------------------------------------------------------
(* Pieces of a section: [lines, extra], extra being the words added to it. *)

Piece(lines, extra) == [lines |-> lines, extra |-> extra]
Singly(lines) == [k \in DOMAIN lines |-> Piece(<<lines[k]>>, 0)]

SplitRules(lines) ==
  Singly(Chosen(lines, {k \in DOMAIN lines : lines[k].mark = "conditional" \/ lines[k].words >= 12}))

SplitQuestions(lines) ==
  Singly(Chosen(lines, {k \in DOMAIN lines : lines[k].mark = "question" /\ lines[k].words >= 3}))

EndAnswer(s) ==
  IF s.q = <<>> THEN s.out ELSE Append(s.out, Piece(s.q \o s.a, IF s.a = <<>> THEN 1 ELSE 2))

(* Fault: an answer is carried on to the questions after it. *)
ReadFaq_Carried(s, l) ==
  IF l.mark # "question" THEN [s EXCEPT !.a = Append(@, l)]
  ELSE [out |-> EndAnswer(s), q |-> <<l>>, a |-> s.a]

ReadFaq(s, l) ==
  IF l.mark # "question" THEN [s EXCEPT !.a = Append(@, l)]
  ELSE [out |-> EndAnswer(s), q |-> <<l>>, a |-> IF s.q = <<>> THEN s.a ELSE <<>>]

\* A question and the lines up to the next.  Lines before the first one are put
\* between it and its answer.
SplitFaq(lines) ==
  LET read[n \in 0 .. Len(lines)] ==
        IF n = 0 THEN [out |-> <<>>, q |-> <<>>, a |-> <<>>] ELSE ReadFaq(read[n - 1], lines[n])
  IN  EndAnswer(read[Len(lines)])

ReadPoint(s, l) ==
  LET held == Append(s.held, l)
  IN  IF Words(held) >= PointWords THEN [out |-> Append(s.out, Piece(held, 0)), held |-> <<>>]
      ELSE [s EXCEPT !.held = held]
EndPoint(s) == IF s.held = <<>> THEN s.out ELSE Append(s.out, Piece(s.held, 0))
SplitKeyPoints(lines) ==
  LET read[n \in 0 .. Len(lines)] ==
        IF n = 0 THEN [out |-> <<>>, held |-> <<>>] ELSE ReadPoint(read[n - 1], lines[n])
  IN  EndPoint(read[Len(lines)])

\* is_business_case_title, of line k when `lines' follow one another.
Title(lines, k) ==
  /\ lines[k].mark \notin {"category", "step", "detail"}
  /\ lines[k].words \in 2 .. 28
  /\ \/ lines[k].mark = "starter"
     \/ k < Len(lines) /\ lines[k + 1].mark = "detail"

HasDetail(lines) == \E k \in DOMAIN lines : lines[k].mark = "detail"

\* split_embedded_cases: a piece of more than four lines is looked through for
\* titles again.  "Cas:" is not recognised behind a category.
EndEmbedded(s, p) == Append(s.out, Piece(s.cur, IF s.cased THEN p.extra ELSE 0))
ReadEmbedded(s, p, k) ==
  LET l == p.lines[k]
      cased == k = 1 /\ p.extra > 0
      headed == s.cased /\ p.extra <= 1
  IN  IF /\ Title(p.lines, k) /\ ~cased
         /\ \/ HasDetail(s.cur)
            \/ headed /\ l.mark = "starter"
            \/ headed /\ k < Len(p.lines) /\ p.lines[k + 1].mark = "detail"
      THEN [out |-> EndEmbedded(s, p), cur |-> <<l>>, cased |-> TRUE]
      ELSE [s EXCEPT !.cur = Append(@, l), !.cased = @ \/ cased]
SplitEmbedded(p) ==
  LET read[n \in 0 .. Len(p.lines)] ==
        IF n = 0 THEN [out |-> <<>>, cur |-> <<>>, cased |-> FALSE]
        ELSE ReadEmbedded(read[n - 1], p, n)
      all == EndEmbedded(read[Len(p.lines)], p)
  IN  IF Len(p.lines) + (IF p.extra > 1 THEN 1 ELSE 0) <= 4 THEN <<p>>
      ELSE Chosen(all, {k \in DOMAIN all : Words(all[k].lines) + all[k].extra >= 4})

\* Cases: a title and the lines up to the next title or category.  A case with
\* no detail and fewer than three lines under its title is left out; so is an
\* introduction of fewer than eight words.
EndCase(s) ==
  IF s.case = <<>> \/ (~HasDetail(Tail(s.case)) /\ Len(s.case) < 4) THEN s.out
  ELSE Append(s.out, Piece(s.case, IF s.category = 0 THEN 1 ELSE 2 + s.category))
ReadCase(s, lines, k) ==
  LET l == lines[k]
  IN  IF l.mark = "category" THEN [s EXCEPT !.out = EndCase(s), !.case = <<>>, !.category = l.words]
      ELSE IF Title(lines, k) THEN [s EXCEPT !.out = EndCase(s), !.case = <<l>>]
      ELSE IF s.case # <<>> THEN [s EXCEPT !.case = Append(@, l)]
      ELSE [s EXCEPT !.intro = Append(@, l)]
SplitBusinessCases(lines) ==
  LET read[n \in 0 .. Len(lines)] ==
        IF n = 0 THEN [out |-> <<>>, case |-> <<>>, intro |-> <<>>, category |-> 0]
        ELSE ReadCase(read[n - 1], lines, n)
      end == read[Len(lines)]
      intro == Chosen(end.intro, {k \in DOMAIN end.intro : end.intro[k].mark # "detail"
                                                            /\ ~Title(<<end.intro[k]>>, 1)})
      pieces == (IF Words(intro) >= 8 THEN <<Piece(intro, 0)>> ELSE <<>>) \o EndCase(end)
  IN  FlattenSeq([k \in DOMAIN pieces |-> SplitEmbedded(pieces[k])])

Pieces(s) ==
  CASE s.type = "rules" -> SplitRules(s.text)
    [] s.type = "faq" -> SplitFaq(s.text)
    [] s.type = "questions" -> SplitQuestions(s.text)
    [] s.type = "key_points" -> SplitKeyPoints(s.text)
    [] s.type = "procedure" -> SplitBusinessCases(s.text)

-----------------------------------------------------------------------------
(* smart_chunk_article, section after section.                             *)

ChunkInit ==
  /\ \E a \in Articles : article = [n \in DOMAIN a |-> Line(a, n)]
  /\ sections = SplitSections(article)
  /\ section = 1
  /\ start = 0
  /\ chunks = <<>>

\* Pieces of fewer than four words are dropped; the others are numbered.
Kept(pieces) ==
  LET long == Chosen(pieces, {k \in DOMAIN pieces : Words(pieces[k].lines) + pieces[k].extra >= 4})
  IN  [k \in DOMAIN long |-> [section |-> section, lines |-> Numbers(long[k].lines),
                              from |-> 0, to |-> 0]]

SkipSection ==
  /\ section <= Len(sections) /\ sections[section].skip
  /\ section' = section + 1
  /\ UNCHANGED <<article, sections, start, chunks>>

SplitSection ==
  /\ section <= Len(sections) /\ ~sections[section].skip
  /\ sections[section].type # "generic"
  /\ chunks' = chunks \o Kept(Pieces(sections[section]))
  /\ section' = section + 1
  /\ UNCHANGED <<article, sections, start>>

\* One turn of chunk_by_size.
CutBySize ==
  /\ section <= Len(sections) /\ ~sections[section].skip
  /\ sections[section].type = "generic"
  /\ LET total == Words(sections[section].text)
         end == Min({start + MaxWords, total})
         cut == [section |-> section, lines |-> <<>>, from |-> start + 1, to |-> end]
     IN  /\ chunks' = IF end - start < 4 THEN chunks ELSE Append(chunks, cut)
         /\ start' = IF end = total THEN 0 ELSE start + (MaxWords - Overlap)
         /\ section' = IF end = total THEN section + 1 ELSE section
  /\ UNCHANGED <<article, sections>>

ChunkNext == SkipSection \/ SplitSection \/ CutBySize

ChunkSpec == ChunkInit /\ [][ChunkNext]_chunkVars

-----------------------------------------------------------------------------
(* Properties.                                                             *)

ChunkTypeOK ==
  /\ section \in 1 .. Len(sections) + 1
  /\ start \in Nat
  /\ \A c \in DOMAIN chunks :
       /\ chunks[c].section < section \/ (chunks[c].section = section /\ start > 0)
       /\ ToSet(chunks[c].lines) \subseteq DOMAIN article

Done(i) == section > i /\ ~sections[i].skip
ChunksOf(i) == {c \in DOMAIN chunks : chunks[c].section = i}
Holding(i, n) == {c \in ChunksOf(i) : n \in ToSet(chunks[c].lines)}

\* A detail of a case (its code, its delay) is in exactly one chunk, and that one
\* starts with the title it stands under in the article.
DetailsKeepTheirCase ==
  \A i \in DOMAIN sections : Done(i) /\ sections[i].type = "procedure" =>
    LET text == sections[i].text
        opens(k) == Title(text, k) \/ text[k].mark = "category"
    IN  \A k \in DOMAIN text :
          LET before == {j \in 1 .. k : opens(j)}
          IN  text[k].mark = "detail" /\ before # {} /\ text[Max(before)].mark # "category" =>
                \E c \in ChunksOf(i) : /\ Holding(i, text[k].no) = {c}
                                       /\ chunks[c].lines[1] = text[Max(before)].no

\* An answer is in the chunk of the question before it and in no other; lines
\* before the first question go to the first.
AnswersKeepTheirQuestion ==
  \A i \in DOMAIN sections : Done(i) /\ sections[i].type = "faq" =>
    LET text == sections[i].text
        questions == {j \in DOMAIN text : text[j].mark = "question"}
    IN  \A k \in DOMAIN text \ questions :
          LET before == {j \in questions : j < k}
              mine == IF before = {} THEN Min(questions) ELSE Max(before)
          IN  questions # {} =>
                \A c \in Holding(i, text[k].no) \union Holding(i, text[mine].no) :
                  /\ Holding(i, text[k].no) = {c}
                  /\ chunks[c].lines[1] = text[mine].no

\* A section cut by size loses no word unless it has fewer than four; a cut is
\* not longer than MaxWords and repeats the last Overlap words of the one before.
WordsCovered ==
  \A i \in DOMAIN sections : Done(i) /\ sections[i].type = "generic" =>
    LET total == Words(sections[i].text)
    IN  /\ total >= 4 => /\ \E c \in ChunksOf(i) : chunks[c].from = 1
                         /\ \E c \in ChunksOf(i) : chunks[c].to = total
        /\ \A c \in ChunksOf(i) :
             /\ chunks[c].to - chunks[c].from < MaxWords
             /\ chunks[c].to < total => /\ c + 1 \in ChunksOf(i)
                                        /\ chunks[c + 1].from = chunks[c].to - Overlap + 1

\* Nothing of one section is put into a chunk of another, a key point is in one
\* chunk, and within a chunk the lines keep their order, the preamble of a FAQ
\* apart.
LinesKeepTheirPlace ==
  /\ \A c \in DOMAIN chunks :
       LET lines == chunks[c].lines
           first == IF sections[chunks[c].section].type = "faq" THEN 2 ELSE 1
       IN  /\ ToSet(lines) \subseteq ToSet(Numbers(sections[chunks[c].section].text))
           /\ \A j, k \in first .. Len(lines) : j < k => lines[j] < lines[k]
  /\ \A i \in DOMAIN sections : Done(i) /\ sections[i].type = "key_points" =>
       \A k \in DOMAIN sections[i].text :
         LET l == sections[i].text[k]
         IN  \/ Cardinality(Holding(i, l.no)) = 1
             \/ Holding(i, l.no) = {} /\ l.words < 4

\* What an article says stays together: see the four statements above
\* (chunk.py:265-410, 440-520, 590-610).
TextKept ==
  /\ DetailsKeepTheirCase
  /\ AnswersKeepTheirQuestion
  /\ WordsCovered
  /\ LinesKeepTheirPlace

=============================================================================
