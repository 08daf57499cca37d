-------------------------- MODULE AnswerCacheProofs --------------------------
(***************************************************************************)
(* The safety of AnswerCache for any messages, any finite set of ratings,   *)
(* any questions, answers and size of the index, with every fault allowed.  *)
(*                                                                         *)
(* What the cache holds cannot be explained by the ratings alone: between   *)
(* a rating's row and the key, the index and the link lie steps at which    *)
(* other requests read.  The invariant says for each message how far its    *)
(* rating has come, by the link that remembers what was done and by the     *)
(* request that works on it (Backs): what it put into the cache is there    *)
(* only while the steps that take it out are still ahead.  That rests on    *)
(* one rating at a time acting on a message (InTurn), and that on being     *)
(* told of every command that was lost (unsure).  That nothing unseen is    *)
(* reused needs more: why each entry of the index is there (IndexVetted).   *)
(***************************************************************************)
EXTENDS AnswerCache, FiniteSetTheorems, TLAPS

-----------------------------------------------------------------------------
(* The inductive invariant *)

MsgShape(m) ==
  /\ msg[m].pc # "new" => \E p \in Prompts : msg[m].prompt = {p}
  /\ msg[m].pc \in {"new", "match", "generate"} <=> msg[m].from = "nobody"
  /\ msg[m].pc = "new" => ~msg[m].row
  /\ msg[m].pc = "copy" => msg[m].from = "index"
  /\ msg[m].pc = "link" => msg[m].from = "model"
  /\ msg[m].pc = "match" \/ msg[m].from = "index" => IsAlone(m)
  /\ msg[m].from \in {"cache", "index", "model"} => \E a \in Answers : msg[m].answer = {a}

Acting == {"key", "index", "trim", "flag"}

FbShape(f) ==
  /\ fb[f].pc \in {"new", "done"} <=> fb[f].m = {}
  /\ \A m \in fb[f].m :
       /\ fb[f].helpful => m \in vetted
       /\ fb[f].pc \in Acting => msg[m].from = "model" /\ msg[m].pc = "done"
       /\ fb[f].pc \in {"index", "trim"} => IsAlone(m)

LinkShape(m) == link[m] # {} => msg[m].from = "model" /\ msg[m].pc = "done"

\* Where nothing was lost, one rating at a time acts, and for the row.
InTurn(m) ==
  m \notin unsure =>
    \A f \in InFlight(m) :
      /\ m \in helpful <=> fb[f].helpful
      /\ \A g \in InFlight(m) : f = g

Shape ==
  /\ \A m \in Messages : MsgShape(m) /\ LinkShape(m) /\ InTurn(m)
  /\ \A f \in Ratings : FbShape(f)

IndexVetted ==
  \A i \in DOMAIN index :
    \E m \in Origins(index[i].answer) \cap vetted :
      Ask(m).q = index[i].q /\ IsAlone(m)

\* The ratings of m stand where what it put into the cache is still there:
\* undo are the steps before a rating takes it out, redo those after one puts it in.
Backs(m, undo, redo) ==
  \/ m \in unsure
  \/ InFlight(m) = {} /\ m \in helpful /\ link[m] = {TRUE}
  \/ \E f \in InFlight(m) :
       \/ fb[f].pc = "read" /\ link[m] = {TRUE}
       \/ fb[f].pc \in undo /\ ~fb[f].helpful
       \/ fb[f].pc \in redo /\ fb[f].helpful

BacksIndex(m) == Backs(m, {"key", "index"}, {"trim", "flag"})
BacksKey(m) == Backs(m, {"key"}, {"index", "trim", "flag"})

IndexBacked ==
  \A i \in DOMAIN index :
    \E m \in Origins(index[i].answer) :
      Ask(m).q = index[i].q /\ IsAlone(m) /\ BacksIndex(m)

KeyBacked ==
  \A p \in Prompts : \A a \in keyed[p] :
    \/ \E m \in Origins(a) : Prompt(m) = p /\ BacksKey(m)
    \/ \E m \in Served : Prompt(m) = p /\ msg[m].from = "index"

IInv == TypeOK /\ Shape /\ OnlyVetted /\ IndexVetted /\ IndexBacked /\ KeyBacked

-----------------------------------------------------------------------------
(* Operators *)

LEMMA Sole == ASSUME NEW x PROVE Only({x}) = x
  BY DEF Only

\* Without keeps elements of s, each other than e, and no more than s has.
LEMMA WithoutKeeps ==
  ASSUME NEW S, NEW s \in Seq(S), NEW e
  PROVE  /\ Without(s, e) \in Seq(S)
         /\ Len(Without(s, e)) <= Len(s)
         /\ \A k \in DOMAIN Without(s, e) :
              \E i \in DOMAIN s : Without(s, e)[k] = s[i] /\ s[i] # e
<1> DEFINE kept == {i \in DOMAIN s : s[i] # e}
           UpTo(i) == {j \in kept : j <= i}
           n == Cardinality(kept)
           rank == [i \in kept |-> Cardinality(UpTo(i))]
           at(k) == CHOOSE i \in kept : Cardinality(UpTo(i)) = k
<1>1. /\ DOMAIN s = 1 .. Len(s)
      /\ Len(s) \in Nat
  OBVIOUS
<1>2. /\ IsFiniteSet(1 .. Len(s))
      /\ Cardinality(1 .. Len(s)) = Len(s)
  BY <1>1, FS_Interval
<1>3. kept \in SUBSET (1 .. Len(s))
  BY <1>1
<1>4. /\ IsFiniteSet(kept)
      /\ n \in Nat
      /\ n <= Len(s)
  BY <1>2, <1>3, FS_Subset, FS_CardinalityType
<1>5. ASSUME NEW i \in kept
      PROVE  /\ IsFiniteSet(UpTo(i))
             /\ Cardinality(UpTo(i)) \in 1 .. n
  <2>1. UpTo(i) \in SUBSET kept
    OBVIOUS
  <2>2. /\ IsFiniteSet(UpTo(i))
        /\ Cardinality(UpTo(i)) <= n
        /\ Cardinality(UpTo(i)) \in Nat
    BY <2>1, <1>4, FS_Subset, FS_CardinalityType
  <2>3. i \in UpTo(i)
    BY <1>1
  <2>4. Cardinality(UpTo(i)) # 0
    BY <2>2, <2>3, FS_EmptySet
  <2> HIDE DEF UpTo, n
  <2> QED BY <2>2, <2>4, <1>4
<1>6. ASSUME NEW i \in kept, NEW j \in kept, i < j, rank[i] = rank[j]
      PROVE  FALSE
  <2>1. UpTo(i) \in SUBSET UpTo(j)
    BY <1>1, <1>6
  <2>2. UpTo(i) = UpTo(j)
    BY <2>1, <1>5, <1>6, FS_Subset
  <2>3. j \in UpTo(j) /\ j \notin UpTo(i)
    BY <1>1, <1>6
  <2> QED BY <2>2, <2>3
<1>7. rank \in Injection(kept, 1 .. n)
  <2>1. rank \in [kept -> 1 .. n]
    BY <1>5
  <2>2. ASSUME NEW i \in kept, NEW j \in kept, rank[i] = rank[j]
        PROVE  i = j
    <3>1. i \in Int /\ j \in Int
      BY <1>1
    <3>2. ~ (i < j) /\ ~ (j < i)
      BY <1>6, <2>2
    <3> QED BY <3>1, <3>2
  <2> HIDE DEF rank, kept
  <2> QED BY <2>1, <2>2 DEF Injection, IsInjective
<1>8. rank \in Surjection(kept, 1 .. n)
  <2>1. IsFiniteSet(1 .. n) /\ Cardinality(1 .. n) = n
    BY <1>4, FS_Interval
  <2> QED BY <1>7, <2>1, FS_Injection
<1>9. ASSUME NEW k \in 1 .. n
      PROVE  at(k) \in kept
  <2>1. \E i \in kept : rank[i] = k
    BY <1>8 DEF Surjection
  <2>2. \E i \in kept : Cardinality(UpTo(i)) = k
    BY <2>1
  <2> HIDE DEF kept, UpTo
  <2> QED BY <2>2
<1>10. Without(s, e) = [k \in 1 .. n |-> s[at(k)]]
  BY DEF Without
<1>11. ASSUME NEW k \in 1 .. n
       PROVE  s[at(k)] \in S /\ at(k) \in DOMAIN s /\ s[at(k)] # e
  <2> HIDE DEF at
  <2> QED BY <1>9
<1>12. Without(s, e) \in Seq(S) /\ Len(Without(s, e)) = n
  <2> HIDE DEF at, n, kept
  <2> QED BY <1>4, <1>10, <1>11
<1> HIDE DEF at, n, kept
<1> QED BY <1>4, <1>10, <1>11, <1>12

-----------------------------------------------------------------------------
(* Type correctness *)

MsgType ==
  [pc : {"new", "match", "copy", "generate", "link", "done"},
   row : BOOLEAN, prompt : Maybe(Prompts),
   from : {"nobody", "cache", "index", "model", "fallback"}, answer : Maybe(Answers)]

FbType ==
  [pc : {"new", "read", "key", "index", "trim", "flag", "done"},
   m : Maybe(Messages), helpful : BOOLEAN]

Trimming == {f \in Ratings : fb[f].pc = "trim"}

IndexBounded == unsure = {} => Len(index) <= IndexSize + Cardinality(Trimming)

TypeInv ==
  /\ content \in 0 .. MaxUpdates
  /\ msg \in [Messages -> MsgType]
  /\ keyed \in [Prompts -> Maybe(Answers)]
  /\ index \in Seq(Entries)
  /\ IndexBounded
  /\ link \in [Messages -> Maybe(BOOLEAN)]
  /\ \A m \in Messages : link[m] # {} => msg[m].from = "model"
  /\ fb \in [Ratings -> FbType]
  /\ helpful \subseteq vetted
  /\ vetted \cup unsure \subseteq Messages

LEMMA TypeParts == TypeOK <=> TypeInv
  BY DEF TypeOK, TypeInv, MsgType, FbType, IndexBounded, Trimming

LEMMA TypePartsNext == TypeOK' <=> TypeInv'
  BY DEF TypeOK, TypeInv, MsgType, FbType, IndexBounded, Trimming

LEMMA TrimmingFinite == IsFiniteSet(Trimming) /\ Cardinality(Trimming) \in Nat
<1>1. Trimming \in SUBSET Ratings
  BY DEF Trimming
<1> QED BY <1>1, RatingsAssumption, FS_Subset, FS_CardinalityType

LEMMA Members ==
  ASSUME NEW S
  PROVE  /\ {} \in Maybe(S)
         /\ \A x \in S : {x} \in Maybe(S)
         /\ \A T \in Maybe(S) : T # {} => \E x \in S : T = {x} /\ Only(T) = x
  BY Sole DEF Maybe

\* What the steps of a request do to the other requests, and to those answered.
Kept ==
  \A m \in Messages : msg[m].from # "nobody" =>
    /\ msg'[m].from = msg[m].from
    /\ msg'[m].prompt = msg[m].prompt
    /\ msg'[m].answer = msg[m].answer
    /\ msg[m].pc = "done" => msg'[m].pc = "done"

\* The message, its prompt and its answer, as far as a request has come.
LEMMA Facts ==
  ASSUME TypeOK, Shape, NEW m \in Messages
  PROVE  /\ msg[m] \in MsgType
         /\ msg[m].pc # "new" => /\ msg[m].prompt = {Prompt(m)}
                                 /\ Prompt(m) \in Prompts
                                 /\ Ask(m) \in Asks
         /\ msg[m].from \in {"cache", "index", "model"} =>
              \E a \in Answers : msg[m].answer = {a} /\ Only(msg[m].answer) = a
<1>1. msg[m] \in MsgType /\ MsgShape(m)
  BY TypeParts DEF TypeInv, Shape
<1>2. ASSUME msg[m].pc # "new"
      PROVE  /\ msg[m].prompt = {Prompt(m)}
             /\ Prompt(m) \in Prompts
             /\ Ask(m) \in Asks
  <2>1. PICK p \in Prompts : msg[m].prompt = {p}
    BY <1>1, <1>2 DEF MsgShape
  <2>2. Prompt(m) = p
    BY <2>1, Sole DEF Prompt
  <2> QED BY <2>1, <2>2 DEF Ask, Prompts
<1>3. msg[m].from \in {"cache", "index", "model"} =>
        \E a \in Answers : msg[m].answer = {a} /\ Only(msg[m].answer) = a
  BY <1>1, Sole DEF MsgShape
<1> QED BY <1>1, <1>2, <1>3

\* What a feedback request that acts works on.
LEMMA RatedFacts ==
  ASSUME TypeOK, Shape, NEW f \in Ratings, fb[f].pc \notin {"new", "done"}
  PROVE  /\ Rated(f) \in Messages
         /\ fb[f] \in FbType
         /\ fb[f].m = {Rated(f)}
         /\ f \in InFlight(Rated(f))
         /\ fb[f].helpful => Rated(f) \in vetted
         /\ fb[f].pc \in Acting =>
              /\ msg[Rated(f)].from = "model"
              /\ msg[Rated(f)].pc = "done"
              /\ Ask(Rated(f)) \in Asks
              /\ Entry(Rated(f)) \in Entries
              /\ \E a \in Answers : msg[Rated(f)].answer = {a} /\ Entry(Rated(f)).answer = a
         /\ fb[f].pc \in {"index", "trim"} => IsAlone(Rated(f))
<1>1. fb[f] \in FbType /\ FbShape(f)
  BY TypeParts DEF TypeInv, Shape
<1>2. PICK m \in Messages : fb[f].m = {m} /\ Rated(f) = m
  <2>1. fb[f].m \in Maybe(Messages) /\ fb[f].m # {}
    BY <1>1 DEF FbType, FbShape
  <2> QED BY <2>1, Members DEF Rated
<1>3. ASSUME fb[f].pc \in Acting
      PROVE  /\ msg[m].from = "model"
             /\ msg[m].pc = "done"
             /\ Ask(m) \in Asks
             /\ Entry(m) \in Entries
             /\ \E a \in Answers : msg[m].answer = {a} /\ Entry(m).answer = a
  <2>1. msg[m].from = "model" /\ msg[m].pc = "done"
    BY <1>1, <1>2, <1>3 DEF FbShape
  <2>2. PICK a \in Answers : msg[m].answer = {a} /\ Only(msg[m].answer) = a
    BY <2>1, Facts
  <2>3. Ask(m) \in Asks
    BY <2>1, Facts
  <2> QED BY <2>1, <2>2, <2>3 DEF Entry, Entries
<1>4. /\ f \in InFlight(m)
      /\ fb[f].helpful => m \in vetted
      /\ fb[f].pc \in {"index", "trim"} => IsAlone(m)
  BY <1>1, <1>2 DEF FbShape, InFlight
<1> QED BY <1>1, <1>2, <1>3, <1>4

-----------------------------------------------------------------------------
(* A step of one chat request *)

\* Request m alone moves, to a state of its type and shape.
Moves(m) ==
  /\ msg' = [msg EXCEPT ![m] = msg'[m]]
  /\ msg'[m] \in MsgType
  /\ MsgShape(m)'

LEMMA MissedMoves ==
  ASSUME TypeOK, NEW m \in Messages, NEW p \in Prompts,
         msg[m].from = "nobody", Missed(m, p)
  PROVE  Moves(m) /\ msg'[m].from = "nobody"
<1>1. /\ msg \in [Messages -> MsgType]
      /\ msg[m] \in MsgType
      /\ {p} \in Maybe(Prompts)
  BY TypeParts, Members DEF TypeInv
<1>2. PICK row \in BOOLEAN :
        msg' = [msg EXCEPT ![m] = [@ EXCEPT !.pc = "generate", !.row = row, !.prompt = {p}]]
  BY DEF Missed
<1>3. msg'[m] = [msg[m] EXCEPT !.pc = "generate", !.row = row, !.prompt = {p}]
  BY <1>1, <1>2
<1>4. msg' = [msg EXCEPT ![m] = msg'[m]]
  BY <1>2, <1>3
<1>5. msg'[m] \in MsgType
  BY <1>1, <1>3 DEF MsgType
<1>6. msg'[m].pc = "generate" /\ msg'[m].from = "nobody" /\ msg'[m].prompt = {p}
  BY <1>1, <1>3 DEF MsgType
<1>7. MsgShape(m)'
  BY <1>6 DEF MsgShape
<1> QED BY <1>4, <1>5, <1>6, <1>7 DEF Moves

LEMMA ArriveMoves ==
  ASSUME TypeOK, Shape, NEW m \in Messages, Arrive(m)
  PROVE  /\ Moves(m)
         /\ msg[m].from = "nobody" /\ msg'[m].from \in {"nobody", "cache"}
         /\ msg'[m].from = "cache" =>
              \E p \in Prompts : msg'[m].prompt = {p} /\ msg'[m].answer = keyed[p]
         /\ content' \in 0 .. MaxUpdates
<1>1. /\ msg \in [Messages -> MsgType]
      /\ msg[m] \in MsgType
      /\ msg[m].from = "nobody"
      /\ msg[m].pc = "new"
      /\ content \in 0 .. MaxUpdates
      /\ keyed \in [Prompts -> Maybe(Answers)]
  BY TypeParts DEF TypeInv, Shape, MsgShape, Arrive, At
<1>2. content' \in 0 .. MaxUpdates
  BY <1>1, BoundsAssumption DEF Arrive
<1>3. PICK a \in Asks :
        LET p == [ask |-> a, content |-> content']
        IN \/ keyed[p] # {} /\ Answered(m, p, "cache", keyed[p], "done")
           \/ /\ a.history = Alone
              /\ msg' = [msg EXCEPT ![m].pc = "match", ![m].prompt = {p}]
           \/ Missed(m, p)
  BY DEF Arrive
<1> DEFINE p == [ask |-> a, content |-> content']
<1>4. p \in Prompts /\ p.ask = a /\ {p} \in Maybe(Prompts) /\ Only({p}) = p
  BY <1>2, Members, Sole DEF Prompts
<1> HIDE DEF p
<1>5. CASE keyed[p] # {} /\ Answered(m, p, "cache", keyed[p], "done")
  <2>1. msg'[m] = [pc |-> "done", row |-> TRUE, prompt |-> {p},
                   from |-> "cache", answer |-> keyed[p]]
    BY <1>1, <1>5 DEF Answered
  <2>2. \E x \in Answers : keyed[p] = {x}
    BY <1>1, <1>4, <1>5, Members
  <2>3. msg' = [msg EXCEPT ![m] = msg'[m]]
    BY <1>5, <2>1 DEF Answered
  <2>4. msg'[m] \in MsgType
    BY <1>1, <1>4, <2>1 DEF MsgType
  <2>5. MsgShape(m)'
    BY <1>4, <2>1, <2>2 DEF MsgShape
  <2> QED BY <1>1, <1>2, <1>4, <2>1, <2>3, <2>4, <2>5 DEF Moves
<1>6. CASE a.history = Alone /\ msg' = [msg EXCEPT ![m].pc = "match", ![m].prompt = {p}]
  <2>1. msg'[m] = [msg[m] EXCEPT !.pc = "match", !.prompt = {p}]
    BY <1>1, <1>6
  <2>2. msg' = [msg EXCEPT ![m] = msg'[m]]
    BY <1>1, <1>6, <2>1
  <2>3. msg'[m] \in MsgType
    BY <1>1, <1>4, <2>1 DEF MsgType
  <2>4. msg'[m].pc = "match" /\ msg'[m].from = "nobody" /\ msg'[m].prompt = {p}
    BY <1>1, <2>1 DEF MsgType
  <2>5. IsAlone(m)'
    BY <1>4, <1>6, <2>4 DEF IsAlone, Ask, Prompt
  <2>6. MsgShape(m)'
    BY <1>4, <2>4, <2>5 DEF MsgShape
  <2> QED BY <1>1, <1>2, <2>2, <2>3, <2>4, <2>6 DEF Moves
<1>7. CASE Missed(m, p)
  BY <1>1, <1>2, <1>4, <1>7, MissedMoves DEF Moves
<1> QED BY <1>3, <1>5, <1>6, <1>7 DEF p

LEMMA NearestIs ==
  ASSUME TypeOK, NEW q, NEW e \in Nearest(q)
  PROVE  \E i \in DOMAIN index :
           /\ e = index[i] /\ e \in Entries
           /\ e.q = q \/ Similar(e.q, q)
<1>1. \A i \in DOMAIN index : index[i] \in Entries
  BY TypeParts DEF TypeInv
<1> QED BY <1>1 DEF Nearest

LEMMA MatchMoves ==
  ASSUME TypeOK, Shape, NEW m \in Messages, Match(m)
  PROVE  /\ Moves(m)
         /\ msg[m].from = "nobody" /\ msg'[m].from \in {"nobody", "index"}
         /\ msg'[m].from = "index" =>
              /\ msg[m].pc # "new" /\ IsAlone(m)
              /\ msg'[m].prompt = msg[m].prompt
              /\ \E i \in DOMAIN index :
                   /\ msg'[m].answer = {index[i].answer}
                   /\ index[i].q = Ask(m).q \/ Similar(index[i].q, Ask(m).q)
<1>1. /\ msg \in [Messages -> MsgType]
      /\ msg[m] \in MsgType
      /\ msg[m].from = "nobody"
      /\ msg[m].pc = "match"
      /\ IsAlone(m)
  BY TypeParts DEF TypeInv, Shape, MsgShape, Match, At
<1>2. msg[m].prompt = {Prompt(m)} /\ Prompt(m) \in Prompts
  BY <1>1, Facts
<1>3. CASE \E e \in Nearest(Ask(m).q) :
             msg' = [msg EXCEPT ![m] = [@ EXCEPT !.pc = "copy", !.from = "index",
                                                 !.answer = {e.answer}]]
  <2>1. PICK e \in Nearest(Ask(m).q) :
          msg' = [msg EXCEPT ![m] = [@ EXCEPT !.pc = "copy", !.from = "index",
                                              !.answer = {e.answer}]]
    BY <1>3
  <2>2. PICK i \in DOMAIN index :
          /\ e = index[i] /\ e \in Entries
          /\ e.q = Ask(m).q \/ Similar(e.q, Ask(m).q)
    BY NearestIs
  <2>3. e.answer \in Answers /\ {e.answer} \in Maybe(Answers)
    BY <2>2, Members DEF Entries
  <2>4. msg'[m] = [msg[m] EXCEPT !.pc = "copy", !.from = "index", !.answer = {e.answer}]
    BY <1>1, <2>1
  <2>5. msg' = [msg EXCEPT ![m] = msg'[m]]
    BY <2>1, <2>4
  <2>6. msg'[m] \in MsgType
    BY <1>1, <2>3, <2>4 DEF MsgType
  <2>7. /\ msg'[m].pc = "copy" /\ msg'[m].from = "index"
        /\ msg'[m].prompt = msg[m].prompt /\ msg'[m].answer = {e.answer}
    BY <1>1, <2>4 DEF MsgType
  <2>8. IsAlone(m)'
    BY <1>1, <2>7 DEF IsAlone, Ask, Prompt
  <2>9. MsgShape(m)'
    BY <1>2, <2>3, <2>7, <2>8 DEF MsgShape
  <2> QED BY <1>1, <2>2, <2>5, <2>6, <2>7, <2>9 DEF Moves
<1>4. CASE Missed(m, Prompt(m))
  BY <1>1, <1>2, <1>4, MissedMoves
<1> QED BY <1>3, <1>4 DEF Match

LEMMA CopyMoves ==
  ASSUME TypeOK, Shape, NEW m \in Messages, Copy(m)
  PROVE  /\ Moves(m)
         /\ msg[m].from = "index" /\ msg'[m].from = "index"
         /\ msg'[m].prompt = msg[m].prompt /\ msg'[m].answer = msg[m].answer
         /\ msg[m].pc = "copy"
<1>1. /\ msg \in [Messages -> MsgType]
      /\ msg[m] \in MsgType
      /\ msg[m].from = "index"
      /\ msg[m].pc = "copy"
      /\ IsAlone(m)
  BY TypeParts DEF TypeInv, Shape, MsgShape, Copy, At
<1>2. /\ msg[m].prompt = {Prompt(m)} /\ Prompt(m) \in Prompts
      /\ \E a \in Answers : msg[m].answer = {a}
  BY <1>1, Facts
<1>3. msg'[m] = [pc |-> "done", row |-> TRUE, prompt |-> {Prompt(m)},
                 from |-> "index", answer |-> msg[m].answer]
  BY <1>1 DEF Copy, Answered
<1>4. msg' = [msg EXCEPT ![m] = msg'[m]]
  BY <1>3 DEF Copy, Answered
<1>5. msg'[m] \in MsgType
  <2>1. /\ {Prompt(m)} \in Maybe(Prompts)
        /\ msg[m].answer \in Maybe(Answers)
    BY <1>2, Members
  <2> QED BY <1>3, <2>1 DEF MsgType
<1>6. IsAlone(m)'
  BY <1>1, <1>2, <1>3 DEF IsAlone, Ask, Prompt
<1>7. MsgShape(m)'
  BY <1>2, <1>3, <1>6 DEF MsgShape
<1> QED BY <1>1, <1>2, <1>3, <1>4, <1>5, <1>7 DEF Moves

LEMMA GenerateMoves ==
  ASSUME TypeOK, Shape, NEW m \in Messages, Generate(m) \/ GenerateFails(m)
  PROVE  /\ Moves(m)
         /\ msg[m].from = "nobody" /\ msg'[m].from \in {"model", "fallback"}
<1>1. /\ msg \in [Messages -> MsgType]
      /\ msg[m] \in MsgType
      /\ msg[m].from = "nobody"
      /\ msg[m].pc = "generate"
  BY TypeParts DEF TypeInv, Shape, MsgShape, Generate, GenerateFails, At
<1>2. /\ msg[m].prompt = {Prompt(m)} /\ Prompt(m) \in Prompts
      /\ {Prompt(m)} \in Maybe(Prompts)
      /\ {} \in Maybe(Answers)
      /\ \A a \in Answers : {a} \in Maybe(Answers)
  BY <1>1, Facts, Members
<1>3. ASSUME NEW a \in Answers, Answered(m, Prompt(m), "model", {a}, "link")
      PROVE  Moves(m) /\ msg'[m].from = "model"
  <2>1. msg'[m] = [pc |-> "link", row |-> TRUE, prompt |-> {Prompt(m)},
                   from |-> "model", answer |-> {a}]
    BY <1>1, <1>3 DEF Answered
  <2>2. msg' = [msg EXCEPT ![m] = msg'[m]]
    BY <1>3, <2>1 DEF Answered
  <2>3. msg'[m] \in MsgType
    BY <1>1, <1>2, <2>1 DEF MsgType
  <2>4. MsgShape(m)'
    BY <1>2, <2>1 DEF MsgShape
  <2> QED BY <2>1, <2>2, <2>3, <2>4 DEF Moves
<1>4. ASSUME NEW a \in Answers,
             msg' = [msg EXCEPT ![m] = [@ EXCEPT !.pc = "done", !.from = "model", !.answer = {a}]]
      PROVE  Moves(m) /\ msg'[m].from = "model"
  <2>1. msg'[m] = [msg[m] EXCEPT !.pc = "done", !.from = "model", !.answer = {a}]
    BY <1>1, <1>4
  <2>2. msg' = [msg EXCEPT ![m] = msg'[m]]
    BY <1>4, <2>1
  <2>3. msg'[m] \in MsgType
    BY <1>1, <1>2, <2>1 DEF MsgType
  <2>4. /\ msg'[m].pc = "done" /\ msg'[m].from = "model"
        /\ msg'[m].prompt = {Prompt(m)} /\ msg'[m].answer = {a}
    BY <1>1, <1>2, <2>1 DEF MsgType
  <2>5. MsgShape(m)'
    BY <1>2, <2>4 DEF MsgShape
  <2> QED BY <2>2, <2>3, <2>4, <2>5 DEF Moves
<1>5. ASSUME Answered(m, Prompt(m), "fallback", {}, "done")
      PROVE  Moves(m) /\ msg'[m].from = "fallback"
  <2>1. msg'[m] = [pc |-> "done", row |-> TRUE, prompt |-> {Prompt(m)},
                   from |-> "fallback", answer |-> {}]
    BY <1>1, <1>5 DEF Answered
  <2>2. msg' = [msg EXCEPT ![m] = msg'[m]]
    BY <1>5, <2>1 DEF Answered
  <2>3. msg'[m] \in MsgType
    BY <1>1, <1>2, <2>1 DEF MsgType
  <2>4. MsgShape(m)'
    BY <1>2, <2>1 DEF MsgShape
  <2> QED BY <2>1, <2>2, <2>3, <2>4 DEF Moves
<1> QED BY <1>1, <1>3, <1>4, <1>5 DEF Generate, GenerateFails

LEMMA WritePendingMoves ==
  ASSUME TypeOK, Shape, NEW m \in Messages, WritePending(m)
  PROVE  /\ Moves(m)
         /\ msg[m].pc = "link" /\ msg'[m].pc = "done"
         /\ msg[m].from = "model" /\ msg'[m].from = "model"
         /\ msg'[m].prompt = msg[m].prompt /\ msg'[m].answer = msg[m].answer
<1>1. /\ msg \in [Messages -> MsgType]
      /\ msg[m] \in MsgType
      /\ MsgShape(m)
      /\ msg[m].from = "model"
      /\ msg[m].pc = "link"
  BY TypeParts DEF TypeInv, Shape, MsgShape, WritePending, At
<1>2. msg'[m] = [msg[m] EXCEPT !.pc = "done"]
  BY <1>1 DEF WritePending
<1>3. msg' = [msg EXCEPT ![m] = msg'[m]]
  BY <1>2 DEF WritePending
<1>4. msg'[m] \in MsgType
  BY <1>1, <1>2 DEF MsgType
<1>5. /\ msg'[m].pc = "done" /\ msg'[m].from = "model"
      /\ msg'[m].prompt = msg[m].prompt /\ msg'[m].answer = msg[m].answer
  BY <1>1, <1>2 DEF MsgType
<1>6. MsgShape(m)'
  BY <1>1, <1>5 DEF MsgShape
<1> QED BY <1>1, <1>3, <1>4, <1>5, <1>6 DEF Moves

-----------------------------------------------------------------------------
(* A step of one feedback request *)

\* Request f alone moves, to a state of its type.
Works(f) ==
  /\ fb' = [fb EXCEPT ![f] = fb'[f]]
  /\ fb'[f] \in FbType

Goes(f, pc) ==
  /\ Works(f)
  /\ fb'[f].pc = pc /\ fb'[f].m = fb[f].m /\ fb'[f].helpful = fb[f].helpful

Ends(f) ==
  /\ Works(f)
  /\ fb'[f].pc = "done" /\ fb'[f].m = {} /\ fb'[f].helpful = FALSE

LEMMA GotoGoes ==
  ASSUME TypeOK, NEW f \in Ratings,
         NEW pc \in {"key", "index", "trim", "flag"}, Goto(f, pc)
  PROVE  Goes(f, pc)
<1>1. fb \in [Ratings -> FbType] /\ fb[f] \in FbType
  BY TypeParts DEF TypeInv
<1>2. fb'[f] = [fb[f] EXCEPT !.pc = pc]
  BY <1>1 DEF Goto
<1>3. fb' = [fb EXCEPT ![f] = fb'[f]]
  BY <1>2 DEF Goto
<1>4. fb'[f] \in FbType
  BY <1>1, <1>2 DEF FbType
<1>5. fb'[f].pc = pc /\ fb'[f].m = fb[f].m /\ fb'[f].helpful = fb[f].helpful
  BY <1>1, <1>2 DEF FbType
<1> QED BY <1>3, <1>4, <1>5 DEF Goes, Works

LEMMA DoneEnds ==
  ASSUME TypeOK, NEW f \in Ratings, Done(f)
  PROVE  Ends(f)
<1>1. fb \in [Ratings -> FbType] /\ {} \in Maybe(Messages)
  BY TypeParts, Members DEF TypeInv
<1>2. fb'[f] = [pc |-> "done", m |-> {}, helpful |-> FALSE]
  BY <1>1 DEF Done
<1>3. fb' = [fb EXCEPT ![f] = fb'[f]]
  BY <1>2 DEF Done
<1>4. fb'[f] \in FbType
  BY <1>1, <1>2 DEF FbType
<1> QED BY <1>2, <1>3, <1>4 DEF Ends, Works

LEMMA SubmitWorks ==
  ASSUME TypeOK, NEW f \in Ratings, NEW m \in Messages, Submit(f, m)
  PROVE  /\ Works(f)
         /\ fb'[f].pc = "read" /\ fb'[f].m = {m}
         /\ fb'[f].helpful => m \in vetted'
         /\ m \in helpful' <=> fb'[f].helpful
         /\ helpful' \ {m} = helpful \ {m}
         /\ vetted' = vetted \cup helpful'
         /\ helpful' \subseteq Messages
<1>1. /\ fb \in [Ratings -> FbType] /\ {m} \in Maybe(Messages)
      /\ helpful \subseteq Messages
  BY TypeParts, Members DEF TypeInv
<1>2. PICK h \in BOOLEAN :
        /\ fb' = [fb EXCEPT ![f] = [pc |-> "read", m |-> {m}, helpful |-> h]]
        /\ helpful' = IF h THEN helpful \cup {m} ELSE helpful \ {m}
        /\ vetted' = vetted \cup helpful'
  BY DEF Submit
<1>3. fb'[f] = [pc |-> "read", m |-> {m}, helpful |-> h]
  BY <1>1, <1>2
<1>4. fb' = [fb EXCEPT ![f] = fb'[f]]
  BY <1>2, <1>3
<1>5. fb'[f] \in FbType
  BY <1>1, <1>3 DEF FbType
<1>6. m \in helpful' <=> h
  BY <1>2
<1>7. helpful' \ {m} = helpful \ {m} /\ helpful' \subseteq Messages
  BY <1>1, <1>2
<1> QED BY <1>2, <1>3, <1>4, <1>5, <1>6, <1>7 DEF Works

\* Which steps a feedback request takes, and that they leave the messages alone.
LEMMA WorksSteps ==
  ASSUME TypeOK, NEW f \in Ratings,
         ReadLink(f) \/ Key(f) \/ Index(f) \/ Trim(f) \/ Flag(f)
  PROVE  /\ fb[f].pc \notin {"new", "done"}
         /\ UNCHANGED <<content, msg, helpful, vetted>>
         /\ \/ Ends(f)
            \/ /\ fb[f].pc = "read" /\ ReadLink(f) /\ Goes(f, "key")
               /\ link[Rated(f)] = {~fb[f].helpful} /\ UNCHANGED <<unsure, redis>>
            \/ fb[f].pc = "key" /\ Key(f) /\ IsAlone(Rated(f)) /\ Goes(f, "index")
            \/ fb[f].pc = "key" /\ Key(f) /\ ~IsAlone(Rated(f)) /\ Goes(f, "flag")
            \/ fb[f].pc = "index" /\ Index(f) /\ fb[f].helpful /\ Goes(f, "trim")
            \/ fb[f].pc = "index" /\ Index(f) /\ Goes(f, "flag")
            \/ fb[f].pc = "trim" /\ Trim(f) /\ Goes(f, "flag")
<1>1. CASE ReadLink(f)
  BY <1>1, DoneEnds, GotoGoes DEF ReadLink, redis
<1>2. CASE Key(f)
  BY <1>2, GotoGoes DEF Key
<1>3. CASE Index(f)
  BY <1>3, GotoGoes DEF Index
<1>4. CASE Trim(f)
  BY <1>4, GotoGoes DEF Trim
<1>5. CASE Flag(f)
  BY <1>5, DoneEnds DEF Flag
<1> QED BY <1>1, <1>2, <1>3, <1>4, <1>5

-----------------------------------------------------------------------------
(* The invariant's parts, kept by every step *)

LEMMA NextCases ==
  ASSUME [Next]_vars
  PROVE  \/ \E m \in Messages :
              Arrive(m) \/ Match(m) \/ Copy(m) \/ Generate(m) \/ GenerateFails(m)
                \/ WritePending(m) \/ Expire(m)
         \/ \E f \in Ratings :
              (\E m \in Messages : Submit(f, m))
                \/ ReadLink(f) \/ Key(f) \/ Index(f) \/ Trim(f) \/ Flag(f)
         \/ Restart
         \/ UNCHANGED vars
  BY DEF Next, Chat, Feedback, Quiescent

LEMMA KeptByNext ==
  ASSUME TypeOK, Shape, [Next]_vars
  PROVE  Kept
<1>1. msg \in [Messages -> MsgType]
  BY TypeParts DEF TypeInv
<1>2. ASSUME NEW m \in Messages, Moves(m),
             msg[m].from # "nobody" =>
               /\ msg'[m].from = msg[m].from
               /\ msg'[m].prompt = msg[m].prompt
               /\ msg'[m].answer = msg[m].answer
               /\ msg[m].pc = "done" => msg'[m].pc = "done"
      PROVE  Kept
  BY <1>1, <1>2 DEF Moves, Kept
<1>3. ASSUME NEW m \in Messages,
             Arrive(m) \/ Match(m) \/ Copy(m) \/ Generate(m) \/ GenerateFails(m)
               \/ WritePending(m)
      PROVE  Kept
  BY <1>2, <1>3, ArriveMoves, MatchMoves, CopyMoves, GenerateMoves, WritePendingMoves
<1>4. ASSUME UNCHANGED msg
      PROVE  Kept
  BY <1>4 DEF Kept
<1>5. CASE UNCHANGED vars
  BY <1>4, <1>5 DEF vars
<1>6. ASSUME NEW m \in Messages, Expire(m)
      PROVE  Kept
  BY <1>4, <1>6 DEF Expire
<1>7. CASE Restart
  BY <1>4, <1>7 DEF Restart
<1>8. ASSUME NEW f \in Ratings, NEW m \in Messages, Submit(f, m)
      PROVE  Kept
  BY <1>4, <1>8 DEF Submit
<1>9. ASSUME NEW f \in Ratings, ReadLink(f) \/ Key(f) \/ Index(f) \/ Trim(f) \/ Flag(f)
      PROVE  Kept
  BY <1>4, <1>9, WorksSteps
<1> QED BY <1>3, <1>5, <1>6, <1>7, <1>8, <1>9, NextCases

LEMMA TrimmingSame ==
  ASSUME TypeOK, NEW f \in Ratings, Works(f), fb[f].pc # "trim", fb'[f].pc # "trim"
  PROVE  Trimming' = Trimming
<1>1. fb \in [Ratings -> FbType]
  BY TypeParts DEF TypeInv
<1> QED BY <1>1 DEF Works, Trimming

LEMMA IndexBoundedFrame ==
  ASSUME TypeOK, unsure \subseteq unsure', index' = index,
         Trimming' = Trimming \/ unsure' # {}
  PROVE  IndexBounded'
  BY TypeParts DEF TypeInv, IndexBounded

\* A step of a chat request leaves the feedback alone.
LEMMA ChatType ==
  ASSUME TypeOK, Shape, Kept, NEW m \in Messages, Moves(m),
         content' \in 0 .. MaxUpdates,
         keyed' \in [Prompts -> Maybe(Answers)],
         link' \in [Messages -> Maybe(BOOLEAN)],
         \A k \in Messages : link'[k] # {} => link[k] # {} \/ msg'[k].from = "model",
         UNCHANGED <<index, fb, helpful, history>>
  PROVE  TypeOK'
<1>1. msg' \in [Messages -> MsgType]
  BY TypeParts DEF TypeInv, Moves
<1>2. UNCHANGED <<vetted, unsure>>
  BY DEF history
<1>3. IndexBounded'
  BY <1>2, IndexBoundedFrame DEF Trimming
<1>4. \A k \in Messages : link'[k] # {} => msg'[k].from = "model"
  BY TypeParts DEF TypeInv, Kept
<1> QED BY <1>1, <1>2, <1>3, <1>4, TypeParts, TypePartsNext DEF TypeInv

LEMMA TypeStep == ASSUME TypeOK, Shape, [Next]_vars PROVE TypeOK'
<1> USE DEF redis, history
<1>k. Kept
  BY KeptByNext
<1>l. \A k \in Messages : link[k] # {} => msg'[k].from = "model"
  BY <1>k, TypeParts DEF TypeInv, Kept
<1>1. ASSUME NEW m \in Messages, Arrive(m) PROVE TypeOK'
  BY <1>k, <1>1, ArriveMoves, ChatType, TypeParts DEF TypeInv, Arrive
<1>2. ASSUME NEW m \in Messages, Match(m) PROVE TypeOK'
  BY <1>k, <1>2, MatchMoves, ChatType, TypeParts DEF TypeInv, Match
<1>3. ASSUME NEW m \in Messages, Copy(m) PROVE TypeOK'
  <2>1. /\ Moves(m) /\ msg[m].pc = "copy" /\ msg[m] \in MsgType
    BY <1>3, CopyMoves, TypeParts DEF TypeInv
  <2>2. Prompt(m) \in Prompts /\ msg[m].answer \in Maybe(Answers)
    BY <2>1, Facts DEF MsgType
  <2>3. keyed' \in [Prompts -> Maybe(Answers)]
    BY <1>3, <2>2, TypeParts DEF TypeInv, Copy
  <2> QED BY <1>k, <1>3, <2>1, <2>3, ChatType, TypeParts, TypePartsNext DEF TypeInv, Copy
<1>4. ASSUME NEW m \in Messages, Generate(m) \/ GenerateFails(m) PROVE TypeOK'
  BY <1>k, <1>4, GenerateMoves, ChatType, TypeParts DEF TypeInv, Generate, GenerateFails
<1>5. ASSUME NEW m \in Messages, WritePending(m) PROVE TypeOK'
  <2>1. Moves(m) /\ msg'[m].from = "model"
    BY <1>5, WritePendingMoves
  <2>2. {FALSE} \in Maybe(BOOLEAN)
    BY Members
  <2>3. /\ link' \in [Messages -> Maybe(BOOLEAN)]
        /\ \A k \in Messages : link'[k] # {} => link[k] # {} \/ msg'[k].from = "model"
    BY <1>5, <2>1, <2>2, TypeParts DEF TypeInv, WritePending
  <2> QED BY <1>k, <1>5, <2>1, <2>3, ChatType, TypeParts, TypePartsNext DEF TypeInv, WritePending
<1>6. ASSUME NEW m \in Messages, Expire(m) PROVE TypeOK'
  <2>1. /\ link' \in [Messages -> Maybe(BOOLEAN)]
        /\ \A k \in Messages : link'[k] # {} => link[k] # {}
    BY <1>6, Members, TypeParts DEF TypeInv, Expire
  <2>2. unsure \subseteq unsure' /\ unsure' \subseteq Messages
    BY <1>6, TypeParts DEF TypeInv, Expire, Doubted
  <2>3. IndexBounded'
    BY <1>6, <2>2, IndexBoundedFrame DEF Expire, Trimming
  <2> QED BY <1>6, <2>1, <2>2, <2>3, TypeParts, TypePartsNext DEF TypeInv, Expire
<1>7. CASE Restart
  <2>1. {} \in Maybe(BOOLEAN) /\ {} \in Maybe(Answers)
    BY Members
  <2>2. /\ link' \in [Messages -> Maybe(BOOLEAN)]
        /\ \A k \in Messages : link'[k] = {}
        /\ keyed' \in [Prompts -> Maybe(Answers)]
        /\ index' \in Seq(Entries) /\ Len(index') = 0
    BY <1>7, <2>1 DEF Restart
  <2>3. Trimming' = Trimming
    BY <1>7 DEF Restart, Trimming
  <2>4. IndexBounded'
    BY <2>2, <2>3, TrimmingFinite, IndexAssumption DEF IndexBounded
  <2> QED BY <1>7, <2>2, <2>4, TypeParts, TypePartsNext DEF TypeInv, Restart
<1>8. ASSUME NEW f \in Ratings, NEW m \in Messages, Submit(f, m) PROVE TypeOK'
  <2>1. Works(f) /\ fb'[f].pc = "read"
    BY <1>8, SubmitWorks
  <2>2. fb' \in [Ratings -> FbType]
    BY <2>1, TypeParts DEF TypeInv, Works
  <2>3. unsure \subseteq unsure' /\ unsure' \subseteq Messages
    BY <1>8, TypeParts DEF TypeInv, Submit, Doubted
  <2>4. Trimming' = Trimming
    BY <1>8, <2>1, TrimmingSame DEF Submit
  <2>5. IndexBounded'
    BY <1>8, <2>3, <2>4, IndexBoundedFrame DEF Submit
  <2>6. helpful' \subseteq vetted' /\ vetted' \subseteq Messages
    BY <1>8, SubmitWorks, TypeParts DEF TypeInv
  <2> QED BY <1>8, <2>2, <2>3, <2>5, <2>6, TypeParts, TypePartsNext DEF TypeInv, Submit
<1>9. ASSUME NEW f \in Ratings,
             ReadLink(f) \/ Key(f) \/ Index(f) \/ Trim(f) \/ Flag(f)
      PROVE  TypeOK'
  <2>1. /\ fb[f].pc \notin {"new", "done"}
        /\ UNCHANGED <<content, msg, helpful, vetted>>
        /\ Ends(f) \/ \E pc \in Acting : Goes(f, pc)
    BY <1>9, WorksSteps DEF Acting
  <2>2. Works(f)
    BY <2>1 DEF Ends, Goes
  <2>3. fb' \in [Ratings -> FbType]
    BY <2>2, TypeParts DEF TypeInv, Works
  <2>4. Rated(f) \in Messages
    BY <2>1, RatedFacts
  <2>5. unsure \subseteq unsure' /\ unsure' \subseteq Messages
    BY <1>9, <2>4, TypeParts DEF TypeInv, ReadLink, Key, Index, Trim, Flag, Lost, Doubted
  <2>6. keyed' \in [Prompts -> Maybe(Answers)]
    <3>1. CASE Key(f)
      <4>1. msg[Rated(f)] \in MsgType /\ {} \in Maybe(Answers)
        BY <2>4, TypeParts, Members DEF TypeInv
      <4> QED BY <3>1, <4>1, TypeParts, TypePartsNext DEF TypeInv, Key, MsgType
    <3> QED BY <1>9, <3>1, TypeParts, TypePartsNext DEF TypeInv, ReadLink, Index, Trim, Flag
  <2>7. /\ link' \in [Messages -> Maybe(BOOLEAN)]
        /\ \A k \in Messages : link'[k] # {} => msg'[k].from = "model"
    <3>1. CASE Flag(f)
      <4>1. /\ fb[f].helpful \in BOOLEAN
            /\ msg[Rated(f)].from = "model"
        BY <2>1, <3>1, RatedFacts DEF Flag, Acting, FbType
      <4>2. {fb[f].helpful} \in Maybe(BOOLEAN)
        BY <4>1, Members
      <4> QED BY <1>l, <2>1, <3>1, <4>1, <4>2, TypeParts, TypePartsNext DEF TypeInv, Flag
    <3> QED BY <1>9, <1>l, <3>1, TypeParts, TypePartsNext DEF TypeInv, ReadLink, Index, Trim, Key
  <2>8. index' \in Seq(Entries) /\ IndexBounded'
    <3>1. CASE Index(f)
      <4>1. fb[f].pc = "index" /\ Entry(Rated(f)) \in Entries
        BY <2>1, <3>1, RatedFacts DEF Index, Acting
      <4>2. CASE index' = index
        <5>1. unsure' # {} \/ Trimming' = Trimming
          <6>1. CASE Goes(f, "flag")
            BY <2>2, <4>1, <6>1, TrimmingSame DEF Goes
          <6>2. CASE index = <<Entry(Rated(f))>> \o index
            BY <4>1, <6>2, TypeParts DEF TypeInv
          <6> QED BY <3>1, <4>2, <6>1, <6>2, GotoGoes DEF Index, Lost, Doubted
        <5> QED BY <4>2, <5>1, <2>5, IndexBoundedFrame, TypeParts, TypePartsNext DEF TypeInv
      <4>3. CASE /\ index' = <<Entry(Rated(f))>> \o index
                 /\ Goto(f, "trim")
        <5>1. index' \in Seq(Entries) /\ Len(index') = Len(index) + 1
          BY <4>1, <4>3, TypeParts DEF TypeInv
        <5>2. Trimming' = Trimming \cup {f} /\ f \notin Trimming
          <6>1. Goes(f, "trim")
            BY <4>3, GotoGoes
          <6> QED BY <4>1, <6>1, TypeParts, TypePartsNext DEF TypeInv, Goes, Works, Trimming
        <5>3. Cardinality(Trimming') = Cardinality(Trimming) + 1
          BY <5>2, TrimmingFinite, FS_AddElement
        <5>4. Len(index) \in Nat /\ IndexSize \in Nat
          BY TypeParts, IndexAssumption DEF TypeInv
        <5> QED BY <2>5, <5>1, <5>3, <5>4, TypeParts, TrimmingFinite DEF TypeInv, IndexBounded
      <4>4. CASE /\ index' = Without(index, Entry(Rated(f)))
                 /\ Goto(f, "flag")
        <5>1. index' \in Seq(Entries) /\ Len(index') <= Len(index)
          BY <4>4, WithoutKeeps, TypeParts DEF TypeInv
        <5>2. Trimming' = Trimming
          BY <4>1, <4>4, GotoGoes, TrimmingSame DEF Goes
        <5>3. Len(index) \in Nat /\ Len(index') \in Nat /\ IndexSize \in Nat
          BY <5>1, TypeParts, IndexAssumption DEF TypeInv
        <5> QED BY <2>5, <5>1, <5>2, <5>3, TypeParts, TrimmingFinite DEF TypeInv, IndexBounded
      <4> QED BY <3>1, <4>2, <4>3, <4>4 DEF Index
    <3>2. CASE Trim(f)
      <4>1. Len(index) \in Nat /\ index \in Seq(Entries) /\ IndexSize \in Nat
        BY TypeParts, IndexAssumption DEF TypeInv
      <4>2. Trimmed(IndexSize) \in Seq(Entries) /\ Len(Trimmed(IndexSize)) <= IndexSize
        BY <4>1 DEF Trimmed
      <4>3. CASE index' = Trimmed(IndexSize)
        <5>1. Len(index') \in Nat /\ Cardinality(Trimming') \in Nat
          <6>1. Trimming' \in SUBSET Ratings
            BY DEF Trimming
          <6> QED BY <4>2, <4>3, <6>1, RatingsAssumption, FS_Subset, FS_CardinalityType
        <5> QED BY <4>1, <4>2, <4>3, <5>1 DEF IndexBounded
      <4>4. CASE index' = index /\ unsure' # {}
        BY <4>1, <4>4, <2>5, IndexBoundedFrame
      <4> QED BY <3>2, <4>3, <4>4 DEF Trim, Lost, Doubted
    <3>3. CASE ReadLink(f) \/ Key(f) \/ Flag(f)
      <4>1. index' = index
        BY <3>3 DEF ReadLink, Key, Flag
      <4>2. fb[f].pc # "trim" /\ fb'[f].pc # "trim"
        BY <3>3, DoneEnds, GotoGoes DEF ReadLink, Key, Flag, Ends, Goes
      <4> QED BY <2>2, <2>5, <4>1, <4>2, TrimmingSame, IndexBoundedFrame, TypeParts, TypePartsNext DEF TypeInv
    <3> QED BY <1>9, <3>1, <3>2, <3>3
  <2> QED BY <2>1, <2>3, <2>5, <2>6, <2>7, <2>8, TypeParts, TypePartsNext DEF TypeInv
<1>10. CASE UNCHANGED vars
  BY <1>10, TypeParts, TypePartsNext DEF TypeInv, vars, redis, history, IndexBounded, Trimming
<1> QED BY <1>1, <1>2, <1>3, <1>4, <1>5, <1>6, <1>7, <1>8, <1>9, <1>10, NextCases

\* Requests that do not move keep their shape while messages are Kept.
LEMMA FbShapeKept ==
  ASSUME TypeOK, Shape, Kept, NEW f \in Ratings, fb'[f] = fb[f], vetted \subseteq vetted'
  PROVE  FbShape(f)'
<1>1. FbShape(f) /\ fb[f] \in FbType
  BY TypeParts DEF TypeInv, Shape
<1>2. ASSUME NEW m \in fb[f].m
      PROVE  /\ m \in Messages
             /\ fb[f].pc \in {"index", "trim"} => IsAlone(m)'
             /\ fb[f].pc \in Acting => msg'[m].from = "model" /\ msg'[m].pc = "done"
  <2>1. m \in Messages
    BY <1>1, <1>2 DEF FbType, Maybe
  <2>2. fb[f].pc \in Acting => msg[m].from = "model" /\ msg[m].pc = "done"
    BY <1>1, <1>2 DEF FbShape
  <2>3. fb[f].pc \in {"index", "trim"} => IsAlone(m)
    BY <1>1, <1>2 DEF FbShape
  <2>4. fb[f].pc \in Acting => msg'[m].prompt = msg[m].prompt
    BY <2>1, <2>2 DEF Kept
  <2> QED BY <2>1, <2>2, <2>3, <2>4 DEF Kept, IsAlone, Ask, Prompt, Acting
<1> QED BY <1>1, <1>2 DEF FbShape

LEMMA InTurnKept ==
  ASSUME Shape, NEW m \in Messages, unsure \subseteq unsure',
         InFlight(m)' \subseteq InFlight(m),
         \A f \in InFlight(m)' : fb'[f].helpful = fb[f].helpful,
         m \in helpful' <=> m \in helpful
  PROVE  InTurn(m)'
  BY DEF Shape, InTurn

LEMMA ShapeStep == ASSUME TypeOK, Shape, [Next]_vars PROVE Shape'
<1> USE DEF redis, history
<1>k. Kept
  BY KeptByNext
<1>l. ASSUME NEW m \in Messages, link[m] # {}
      PROVE  msg'[m].from = "model" /\ msg'[m].pc = "done"
  BY <1>k, <1>l DEF Shape, LinkShape, Kept
<1>1. ASSUME NEW m \in Messages,
             Arrive(m) \/ Match(m) \/ Copy(m) \/ Generate(m) \/ GenerateFails(m)
               \/ WritePending(m)
      PROVE  Shape'
  <2>1. Moves(m)
    BY <1>1, ArriveMoves, MatchMoves, CopyMoves, GenerateMoves, WritePendingMoves
  <2>2. UNCHANGED <<fb, helpful, history>>
    BY <1>1 DEF Arrive, Match, Copy, Generate, GenerateFails, WritePending
  <2>3. \A k \in Messages : MsgShape(k)'
    <3>1. ASSUME NEW k \in Messages, k # m
          PROVE  MsgShape(k)'
      <4>1. msg'[k] = msg[k] /\ MsgShape(k)
        BY <2>1, <3>1, TypeParts DEF TypeInv, Moves, Shape
      <4> QED BY <4>1 DEF MsgShape, IsAlone, Ask, Prompt
    <3> QED BY <2>1, <3>1 DEF Moves
  <2>4. \A k \in Messages : LinkShape(k)'
    <3>1. CASE WritePending(m)
      <4>1. msg'[m].from = "model" /\ msg'[m].pc = "done"
        BY <3>1, WritePendingMoves
      <4> QED BY <1>l, <3>1, <4>1, TypeParts DEF TypeInv, WritePending, LinkShape
    <3>2. CASE UNCHANGED link
      BY <1>l, <3>2 DEF LinkShape
    <3> QED BY <1>1, <3>1, <3>2 DEF Arrive, Match, Copy, Generate, GenerateFails
  <2>5. \A k \in Messages : InTurn(k)'
    BY <2>2, InTurnKept DEF InFlight
  <2>6. \A f \in Ratings : FbShape(f)'
    BY <1>k, <2>2, FbShapeKept
  <2> QED BY <2>3, <2>4, <2>5, <2>6 DEF Shape
<1>2. ASSUME UNCHANGED msg PROVE \A k \in Messages : MsgShape(k)'
  BY <1>2 DEF Shape, MsgShape, IsAlone, Ask, Prompt
<1>3. ASSUME NEW m \in Messages, Expire(m) PROVE Shape'
  <2>1. \A k \in Messages : LinkShape(k)'
    BY <1>l, <1>3, TypeParts DEF TypeInv, Expire, LinkShape
  <2>2. \A k \in Messages : InTurn(k)'
    BY <1>3, InTurnKept DEF Expire, Doubted, InFlight
  <2>3. \A f \in Ratings : FbShape(f)'
    BY <1>k, <1>3, FbShapeKept DEF Expire
  <2> QED BY <1>2, <1>3, <2>1, <2>2, <2>3 DEF Expire, Shape
<1>4. CASE Restart
  <2>1. \A k \in Messages : LinkShape(k)'
    BY <1>4 DEF Restart, LinkShape
  <2>2. \A k \in Messages : InTurn(k)'
    BY <1>4, InTurnKept DEF Restart, InFlight
  <2>3. \A f \in Ratings : FbShape(f)'
    BY <1>k, <1>4, FbShapeKept DEF Restart
  <2> QED BY <1>2, <1>4, <2>1, <2>2, <2>3 DEF Restart, Shape
<1>5. ASSUME NEW f \in Ratings, NEW m \in Messages, Submit(f, m) PROVE Shape'
  <2>1. /\ Works(f) /\ fb[f].pc = "new"
        /\ fb'[f].pc = "read" /\ fb'[f].m = {m}
        /\ fb'[f].helpful => m \in vetted'
        /\ m \in helpful' <=> fb'[f].helpful
        /\ helpful' \ {m} = helpful \ {m}
        /\ vetted \subseteq vetted' /\ unsure \subseteq unsure'
        /\ UNCHANGED <<msg, link>>
    BY <1>5, SubmitWorks DEF Submit, Doubted
  <2>2. \A g \in Ratings : g # f => fb'[g] = fb[g]
    BY <2>1, TypeParts DEF TypeInv, Works
  <2>3. \A g \in Ratings : FbShape(g)'
    <3>1. FbShape(f)'
      BY <2>1 DEF FbShape, Acting
    <3> QED BY <1>k, <2>1, <2>2, <3>1, FbShapeKept
  <2>4. ASSUME NEW k \in Messages, k # m PROVE InTurn(k)'
    <3>1. InFlight(k)' \subseteq InFlight(k)
      BY <2>1, <2>2, <2>4 DEF InFlight
    <3>2. \A g \in InFlight(k)' : fb'[g].helpful = fb[g].helpful
      BY <2>1, <2>2, <2>4 DEF InFlight
    <3> QED BY <2>1, <2>4, <3>1, <3>2, InTurnKept
  <2>5. InTurn(m)'
    <3>1. CASE InFlight(m) = {}
      <4>1. InFlight(m)' \subseteq {f}
        BY <2>2, <3>1 DEF InFlight
      <4> QED BY <2>1, <4>1 DEF InTurn
    <3>2. CASE InFlight(m) # {}
      BY <1>5, <3>2 DEF InTurn, Submit, Doubted
    <3> QED BY <3>1, <3>2
  <2>6. \A k \in Messages : LinkShape(k)'
    BY <1>l, <2>1 DEF LinkShape
  <2> QED BY <1>2, <2>1, <2>3, <2>4, <2>5, <2>6 DEF Shape
<1>6. ASSUME NEW f \in Ratings,
             ReadLink(f) \/ Key(f) \/ Index(f) \/ Trim(f) \/ Flag(f)
      PROVE  Shape'
  <2>1. /\ fb[f].pc \notin {"new", "done"}
        /\ UNCHANGED <<content, msg, helpful, vetted>>
        /\ \/ Ends(f)
           \/ fb[f].pc = "read" /\ Goes(f, "key") /\ link[Rated(f)] # {}
           \/ fb[f].pc = "key" /\ IsAlone(Rated(f)) /\ Goes(f, "index")
           \/ fb[f].pc \in Acting /\ Goes(f, "flag")
           \/ fb[f].pc = "index" /\ Goes(f, "trim")
    BY <1>6, WorksSteps DEF Acting
  <2>2. Works(f)
    BY <2>1 DEF Ends, Goes
  <2>3. \A g \in Ratings : g # f => fb'[g] = fb[g]
    BY <2>2, TypeParts DEF TypeInv, Works
  <2>4. unsure \subseteq unsure'
    BY <1>6 DEF ReadLink, Key, Index, Trim, Flag, Lost, Doubted
  <2>5. /\ Rated(f) \in Messages
        /\ fb[f].m = {Rated(f)}
        /\ fb[f].helpful => Rated(f) \in vetted
        /\ fb[f].pc \in Acting =>
             msg[Rated(f)].from = "model" /\ msg[Rated(f)].pc = "done"
        /\ fb[f].pc \in {"index", "trim"} => IsAlone(Rated(f))
    BY <2>1, RatedFacts
  <2>7. FbShape(f)'
    <3>1. CASE Ends(f)
      BY <3>1 DEF Ends, FbShape
    <3>2. ASSUME NEW pc \in Acting, Goes(f, pc),
                 fb[f].pc \in Acting \/ link[Rated(f)] # {},
                 pc \in {"index", "trim"} => IsAlone(Rated(f))
          PROVE  FbShape(f)'
      <4>1. msg'[Rated(f)].from = "model" /\ msg'[Rated(f)].pc = "done"
        BY <1>l, <2>1, <2>5, <3>2
      <4>2. fb'[f].m = {Rated(f)} /\ fb'[f].pc = pc /\ fb'[f].helpful = fb[f].helpful
        BY <2>5, <3>2 DEF Goes
      <4>3. \A m \in fb'[f].m : IsAlone(m)' <=> IsAlone(Rated(f))
        BY <2>1, <4>2 DEF IsAlone, Ask, Prompt
      <4> QED BY <2>1, <2>5, <3>2, <4>1, <4>2, <4>3 DEF FbShape, Acting
    <3> QED BY <2>1, <2>5, <3>1, <3>2 DEF Acting
  <2>8. \A g \in Ratings : FbShape(g)'
    BY <1>k, <2>1, <2>3, <2>7, FbShapeKept
  <2>9. ASSUME NEW k \in Messages PROVE InTurn(k)'
    <3>1. \/ fb'[f].m = fb[f].m /\ fb'[f].helpful = fb[f].helpful
          \/ fb'[f].m = {}
      BY <2>1 DEF Goes, Ends
    <3>2. InFlight(k)' \subseteq InFlight(k)
      BY <2>3, <3>1 DEF InFlight
    <3>3. \A g \in InFlight(k)' : fb'[g].helpful = fb[g].helpful
      BY <2>3, <3>1 DEF InFlight
    <3> QED BY <2>1, <2>4, <3>2, <3>3, InTurnKept
  <2>10. \A k \in Messages : LinkShape(k)'
    <3>1. CASE Flag(f)
      BY <1>l, <2>1, <2>5, <3>1, TypeParts DEF TypeInv, Flag, LinkShape, Acting
    <3> QED BY <1>6, <1>l, <3>1 DEF ReadLink, Key, Index, Trim, LinkShape
  <2> QED BY <1>2, <2>1, <2>8, <2>9, <2>10 DEF Shape
<1>7. CASE UNCHANGED vars
  <2>1. \A k \in Messages : LinkShape(k)'
    BY <1>l, <1>7 DEF vars, LinkShape
  <2>2. \A k \in Messages : InTurn(k)'
    BY <1>7, InTurnKept DEF vars, InFlight
  <2>3. \A f \in Ratings : FbShape(f)'
    BY <1>k, <1>7, FbShapeKept DEF vars
  <2> QED BY <1>2, <1>7, <2>1, <2>2, <2>3 DEF vars, Shape
<1> QED BY <1>1, <1>3, <1>4, <1>5, <1>6, <1>7, NextCases

-----------------------------------------------------------------------------
(* Only vetted answers are reused *)

\* Whoever was rated, and for what, is never forgotten.
LEMMA OriginKept ==
  ASSUME Kept, NEW m \in Messages, msg[m].from # "nobody"
  PROVE  /\ Prompt(m)' = Prompt(m) /\ Ask(m)' = Ask(m)
         /\ IsAlone(m)' <=> IsAlone(m)
         /\ \A a : m \in Origins(a) => m \in Origins(a)'
         /\ m \in Served => m \in Served' /\ msg'[m].from = msg[m].from
<1>1. /\ msg'[m].from = msg[m].from
      /\ msg'[m].prompt = msg[m].prompt
      /\ msg'[m].answer = msg[m].answer
  BY DEF Kept
<1>2. Prompt(m)' = Prompt(m)
  BY <1>1 DEF Prompt
<1>3. Ask(m)' = Ask(m)
  BY <1>2 DEF Ask
<1>4. IsAlone(m)' <=> IsAlone(m)
  BY <1>3 DEF IsAlone
<1> QED BY <1>1, <1>2, <1>3, <1>4 DEF Origins, Served

LEMMA OriginIs ==
  ASSUME NEW a, NEW m \in Origins(a)
  PROVE  m \in Messages /\ msg[m].from = "model" /\ msg[m].answer = {a}
  BY DEF Origins

LEMMA MeritedKept ==
  ASSUME Kept, vetted \subseteq vetted', NEW a, NEW p, Merited(a, p)
  PROVE  Merited(a, p)'
<1>1. PICK m \in Origins(a) \cap vetted :
        \/ Prompt(m) = p
        \/ IsAlone(m) /\ p.ask.history = Alone /\ Similar(Ask(m).q, p.ask.q)
  BY DEF Merited
<1>2. /\ m \in Origins(a)' /\ m \in vetted'
      /\ Prompt(m)' = Prompt(m) /\ Ask(m)' = Ask(m)
      /\ IsAlone(m)' <=> IsAlone(m)
  BY <1>1, OriginIs, OriginKept
<1> QED BY <1>1, <1>2 DEF Merited

KeyVetted == \A p \in Prompts : \A a \in keyed[p] : Merited(a, p)

ServedVetted == \A m \in Served : \A a \in msg[m].answer : Merited(a, Prompt(m))

\* What entry e of the index stands for.
Stands(e) == \E m \in Origins(e.answer) \cap vetted : Ask(m).q = e.q /\ IsAlone(m)

Vetted == KeyVetted /\ ServedVetted /\ \A i \in DOMAIN index : Stands(index[i])

LEMMA VettedParts == Vetted <=> OnlyVetted /\ IndexVetted
  BY DEF Vetted, KeyVetted, ServedVetted, Stands, OnlyVetted, IndexVetted

LEMMA StandsKept ==
  ASSUME Kept, vetted \subseteq vetted', NEW e, Stands(e)
  PROVE  Stands(e)'
<1>1. PICK m \in Origins(e.answer) \cap vetted : Ask(m).q = e.q /\ IsAlone(m)
  BY DEF Stands
<1>2. /\ m \in Origins(e.answer)' /\ m \in vetted'
      /\ Ask(m)' = Ask(m) /\ IsAlone(m)'
  BY <1>1, OriginIs, OriginKept
<1> QED BY <1>1, <1>2 DEF Stands

\* A step that serves nobody anew and caches nothing new.
LEMMA VettedKept ==
  ASSUME Vetted, Kept, vetted \subseteq vetted',
         \A p \in Prompts : \A a \in keyed'[p] : a \in keyed[p] \/ Merited(a, p)',
         \A i \in DOMAIN index' :
           Stands(index[i])' \/ \E j \in DOMAIN index : index'[i] = index[j],
         \A m \in Served' : msg[m].from = "nobody" =>
           \A a \in msg'[m].answer : Merited(a, Prompt(m))'
  PROVE  Vetted'
<1>1. KeyVetted'
  BY MeritedKept DEF Vetted, KeyVetted, Prompts
<1>2. \A i \in DOMAIN index' : Stands(index[i])'
  BY StandsKept DEF Vetted
<1>3. ASSUME NEW m \in Served', NEW a \in msg'[m].answer
      PROVE  Merited(a, Prompt(m))'
  <2>1. CASE msg[m].from = "nobody"
    BY <1>3, <2>1
  <2>2. CASE msg[m].from # "nobody"
    <3>1. /\ m \in Messages /\ m \in Served /\ a \in msg[m].answer
          /\ Prompt(m)' = Prompt(m)
      BY <1>3, <2>2, OriginKept DEF Served, Kept
    <3>2. Merited(a, Prompt(m))
      BY <3>1 DEF Vetted, ServedVetted
    <3> QED BY <3>1, <3>2, MeritedKept
  <2> QED BY <2>1, <2>2
<1>4. ServedVetted'
  BY <1>3 DEF ServedVetted
<1> QED BY <1>1, <1>2, <1>4 DEF Vetted

LEMMA VettedStep ==
  ASSUME TypeOK, Shape, Vetted, [Next]_vars
  PROVE  Vetted'
<1> USE DEF redis, history
<1>k. Kept
  BY KeptByNext
\* Requests that are answered from the cache or the index are the only ones served.
<1>1. ASSUME NEW m \in Messages, Moves(m), vetted' = vetted,
             \A p \in Prompts : \A a \in keyed'[p] : a \in keyed[p] \/ Merited(a, p)',
             index' = index,
             msg[m].from = "nobody" /\ msg'[m].from \in {"cache", "index"} =>
               \A a \in msg'[m].answer : Merited(a, Prompt(m))'
      PROVE  Vetted'
  <2>1. ASSUME NEW k \in Served', msg[k].from = "nobody"
        PROVE  \A a \in msg'[k].answer : Merited(a, Prompt(k))'
    <3>1. k \in Messages /\ msg'[k].from \in {"cache", "index"}
      BY <2>1 DEF Served
    <3>2. k = m
      BY <1>1, <2>1, <3>1, TypeParts DEF TypeInv, Moves
    <3> QED BY <1>1, <2>1, <3>1, <3>2
  <2>2. /\ vetted \subseteq vetted'
        /\ \A p \in Prompts : \A a \in keyed'[p] : a \in keyed[p] \/ Merited(a, p)'
        /\ \A i \in DOMAIN index' :
             Stands(index[i])' \/ \E j \in DOMAIN index : index'[i] = index[j]
    BY <1>1
  <2> QED BY <1>k, <2>1, <2>2, VettedKept
<1>2. ASSUME NEW m \in Messages, Arrive(m) PROVE Vetted'
  <2>1. /\ Moves(m) /\ msg'[m].from \in {"nobody", "cache"}
        /\ msg'[m].from = "cache" =>
             \E p \in Prompts : msg'[m].prompt = {p} /\ msg'[m].answer = keyed[p]
    BY <1>2, ArriveMoves
  <2>2. ASSUME msg'[m].from = "cache", NEW a \in msg'[m].answer
        PROVE  Merited(a, Prompt(m))'
    <3>1. PICK p \in Prompts : msg'[m].prompt = {p} /\ msg'[m].answer = keyed[p]
      BY <2>1, <2>2
    <3>2. Merited(a, p)
      BY <2>2, <3>1 DEF Vetted, KeyVetted
    <3>3. Merited(a, p)'
      BY <1>k, <1>2, <3>2, MeritedKept DEF Arrive
    <3>4. Prompt(m)' = p
      BY <3>1, Sole DEF Prompt
    <3> QED BY <3>3, <3>4
  <2>3. vetted' = vetted /\ keyed' = keyed /\ index' = index
    BY <1>2 DEF Arrive
  <2> QED BY <1>1, <2>1, <2>2, <2>3
<1>3. ASSUME NEW m \in Messages, Match(m) PROVE Vetted'
  <2>1. /\ Moves(m) /\ msg'[m].from \in {"nobody", "index"}
        /\ msg'[m].from = "index" =>
             /\ msg[m].pc # "new" /\ IsAlone(m)
             /\ msg'[m].prompt = msg[m].prompt
             /\ \E i \in DOMAIN index :
                  /\ msg'[m].answer = {index[i].answer}
                  /\ index[i].q = Ask(m).q \/ Similar(index[i].q, Ask(m).q)
    BY <1>3, MatchMoves
  <2>2. ASSUME msg'[m].from = "index", NEW a \in msg'[m].answer
        PROVE  Merited(a, Prompt(m))'
    <3>1. PICK i \in DOMAIN index :
            /\ a = index[i].answer
            /\ index[i].q = Ask(m).q \/ Similar(index[i].q, Ask(m).q)
      BY <2>1, <2>2
    <3>2. PICK o \in Origins(a) \cap vetted : Ask(o).q = index[i].q /\ IsAlone(o)
      BY <3>1 DEF Vetted, Stands
    <3>3. Ask(m) \in Asks
      BY <2>1, <2>2, Facts
    <3>4. Similar(Ask(o).q, Ask(m).q)
      BY <3>1, <3>2, <3>3, SimilarAssumption
    <3>5. Merited(a, Prompt(m))
      BY <2>1, <2>2, <3>2, <3>4 DEF Merited, IsAlone, Ask
    <3>6. Prompt(m)' = Prompt(m)
      BY <2>1, <2>2 DEF Prompt
    <3> QED BY <1>k, <1>3, <3>5, <3>6, MeritedKept DEF Match
  <2>3. vetted' = vetted /\ keyed' = keyed /\ index' = index
    BY <1>3 DEF Match
  <2> QED BY <1>1, <2>1, <2>2, <2>3
<1>4. ASSUME NEW m \in Messages, Copy(m) PROVE Vetted'
  <2>1. Moves(m) /\ msg[m].from = "index" /\ msg[m].pc = "copy"
    BY <1>4, CopyMoves
  <2>2. ASSUME NEW p \in Prompts, NEW a \in keyed'[p], a \notin keyed[p]
        PROVE  Merited(a, p)'
    <3>1. p = Prompt(m) /\ a \in msg[m].answer
      BY <1>4, <2>2, TypeParts DEF TypeInv, Copy
    <3>2. Merited(a, p)
      BY <2>1, <3>1 DEF Vetted, ServedVetted, Served
    <3> QED BY <1>k, <1>4, <3>2, MeritedKept DEF Copy
  <2>3. vetted' = vetted /\ index' = index
    BY <1>4 DEF Copy
  <2> QED BY <1>1, <2>1, <2>2, <2>3
<1>5. ASSUME NEW m \in Messages, Generate(m) \/ GenerateFails(m) PROVE Vetted'
  <2>1. Moves(m) /\ msg'[m].from \in {"model", "fallback"}
    BY <1>5, GenerateMoves
  <2>2. vetted' = vetted /\ keyed' = keyed /\ index' = index
    BY <1>5 DEF Generate, GenerateFails
  <2> QED BY <1>1, <2>1, <2>2
<1>6. ASSUME NEW m \in Messages, WritePending(m) PROVE Vetted'
  <2>1. Moves(m) /\ msg[m].from = "model"
    BY <1>6, WritePendingMoves
  <2>2. vetted' = vetted /\ keyed' = keyed /\ index' = index
    BY <1>6 DEF WritePending
  <2> QED BY <1>1, <2>1, <2>2
\* A step that moves no message serves nobody.
<1>7. ASSUME msg' = msg, vetted \subseteq vetted',
             \A p \in Prompts : \A a \in keyed'[p] : a \in keyed[p] \/ Merited(a, p)',
             \A i \in DOMAIN index' :
               Stands(index[i])' \/ \E j \in DOMAIN index : index'[i] = index[j]
      PROVE  Vetted'
  <2>1. \A m \in Served' : msg[m].from # "nobody"
    BY <1>7 DEF Served
  <2> QED BY <1>k, <1>7, <2>1, VettedKept
<1>8. ASSUME NEW m \in Messages, Expire(m) PROVE Vetted'
  BY <1>7, <1>8 DEF Expire
<1>9. CASE Restart
  <2>1. /\ \A p \in Prompts : keyed'[p] = {}
        /\ DOMAIN index' = {}
    BY <1>9 DEF Restart
  <2> QED BY <1>7, <1>9, <2>1 DEF Restart
<1>10. ASSUME NEW f \in Ratings, NEW m \in Messages, Submit(f, m) PROVE Vetted'
  <2>1. vetted \subseteq vetted'
    BY <1>10 DEF Submit
  <2> QED BY <1>7, <1>10, <2>1 DEF Submit
<1>11. ASSUME NEW f \in Ratings, Key(f) PROVE Vetted'
  <2>1. /\ Rated(f) \in Messages
        /\ msg[Rated(f)].from = "model"
        /\ fb[f].helpful => Rated(f) \in vetted
    BY <1>11, RatedFacts DEF Key, Acting
  <2>2. ASSUME NEW p \in Prompts, NEW a \in keyed'[p], a \notin keyed[p]
        PROVE  Merited(a, p)'
    <3>1. /\ fb[f].helpful /\ a \in msg[Rated(f)].answer
          /\ p = Prompt(Rated(f))
      BY <1>11, <2>2, TypeParts DEF TypeInv, Key
    <3>2. Rated(f) \in Origins(a)
      <4>1. \E x \in Answers : msg[Rated(f)].answer = {x}
        BY <2>1, Facts
      <4> QED BY <2>1, <3>1, <4>1 DEF Origins
    <3>3. Merited(a, p)
      BY <2>1, <3>1, <3>2 DEF Merited
    <3> QED BY <1>k, <1>11, <3>3, MeritedKept DEF Key
  <2> QED BY <1>7, <1>11, <2>2 DEF Key
<1>12. ASSUME NEW f \in Ratings, Index(f) PROVE Vetted'
  <2>1. /\ Rated(f) \in Messages
        /\ Entry(Rated(f)) \in Entries
        /\ msg[Rated(f)].from = "model"
        /\ fb[f].helpful => Rated(f) \in vetted
        /\ IsAlone(Rated(f))
        /\ \E a \in Answers :
             msg[Rated(f)].answer = {a} /\ Entry(Rated(f)).answer = a
    BY <1>12, RatedFacts DEF Index, Acting
  <2>2. PICK e : e = Entry(Rated(f))
    OBVIOUS
  <2>3. fb[f].helpful => Stands(e)'
    <3>1. fb[f].helpful => Stands(e)
      BY <2>1, <2>2 DEF Stands, Origins, Entry
    <3> QED BY <1>k, <1>12, <3>1, StandsKept DEF Index
  <2>4. ASSUME NEW i \in DOMAIN index'
        PROVE  Stands(index[i])' \/ \E j \in DOMAIN index : index'[i] = index[j]
    <3>1. CASE index' = index
      BY <3>1
    <3>2. CASE fb[f].helpful /\ index' = <<Entry(Rated(f))>> \o index
      <4>1. index \in Seq(Entries) /\ DOMAIN index = 1 .. Len(index)
        BY TypeParts DEF TypeInv
      <4>2. CASE i = 1
        <5>1. index'[i] = e
          BY <2>1, <2>2, <3>2, <4>1, <4>2
        <5> QED BY <2>3, <3>2, <5>1
      <4>3. CASE i # 1
        <5>1. i - 1 \in DOMAIN index /\ index'[i] = index[i - 1]
          BY <2>1, <2>4, <3>2, <4>1, <4>3
        <5> QED BY <5>1
      <4> QED BY <4>2, <4>3
    <3>3. CASE index' = Without(index, Entry(Rated(f)))
      BY <2>4, <3>3, WithoutKeeps, TypeParts DEF TypeInv
    <3> QED BY <1>12, <3>1, <3>2, <3>3 DEF Index
  <2> QED BY <1>7, <1>12, <2>4 DEF Index
<1>13. ASSUME NEW f \in Ratings, Trim(f) PROVE Vetted'
  <2>1. ASSUME NEW i \in DOMAIN index'
        PROVE  \E j \in DOMAIN index : index'[i] = index[j]
    <3>1. CASE index' = Trimmed(IndexSize)
      <4>1. index \in Seq(Entries) /\ IndexSize \in Nat
        BY TypeParts, IndexAssumption DEF TypeInv
      <4>2. i \in DOMAIN index /\ index'[i] = index[i]
        BY <2>1, <3>1, <4>1 DEF Trimmed
      <4> QED BY <4>2
    <3> QED BY <1>13, <2>1, <3>1 DEF Trim
  <2> QED BY <1>7, <1>13, <2>1 DEF Trim
<1>14. ASSUME NEW f \in Ratings, ReadLink(f) \/ Flag(f) PROVE Vetted'
  BY <1>7, <1>14 DEF ReadLink, Flag
<1>15. CASE UNCHANGED vars
  BY <1>7, <1>15 DEF vars
<1> QED BY <1>2, <1>3, <1>4, <1>5, <1>6, <1>8, <1>9, <1>10, <1>11, <1>12, <1>13,
           <1>14, <1>15, NextCases

-----------------------------------------------------------------------------
(* A rating that is taken back evicts *)

\* What the entry e of the index, and the answer a of prompt p, are there on.
IndexBacking(e) ==
  \E m \in Origins(e.answer) : Ask(m).q = e.q /\ IsAlone(m) /\ BacksIndex(m)

KeyBacking(p, a) ==
  \/ \E m \in Origins(a) : Prompt(m) = p /\ BacksKey(m)
  \/ \E m \in Served : Prompt(m) = p /\ msg[m].from = "index"

Backed ==
  /\ \A i \in DOMAIN index : IndexBacking(index[i])
  /\ \A p \in Prompts : \A a \in keyed[p] : KeyBacking(p, a)

LEMMA BackedParts == Backed <=> IndexBacked /\ KeyBacked
  BY DEF Backed, IndexBacking, KeyBacking, IndexBacked, KeyBacked

LEMMA IndexBackingKept ==
  ASSUME Kept, NEW e, IndexBacking(e),
         \A m \in Origins(e.answer) :
           Ask(m).q = e.q /\ IsAlone(m) /\ BacksIndex(m) => BacksIndex(m)'
  PROVE  IndexBacking(e)'
<1>1. PICK m \in Origins(e.answer) : Ask(m).q = e.q /\ IsAlone(m) /\ BacksIndex(m)
  BY DEF IndexBacking
<1>2. m \in Origins(e.answer)' /\ Ask(m)' = Ask(m) /\ IsAlone(m)' /\ BacksIndex(m)'
  BY <1>1, OriginIs, OriginKept
<1> QED BY <1>1, <1>2 DEF IndexBacking

LEMMA KeyBackingKept ==
  ASSUME Kept, NEW p, NEW a, KeyBacking(p, a),
         \A m \in Origins(a) : Prompt(m) = p /\ BacksKey(m) => BacksKey(m)'
  PROVE  KeyBacking(p, a)'
<1>1. CASE \E m \in Origins(a) : Prompt(m) = p /\ BacksKey(m)
  <2>1. PICK m \in Origins(a) : Prompt(m) = p /\ BacksKey(m)
    BY <1>1
  <2>2. m \in Origins(a)' /\ Prompt(m)' = Prompt(m) /\ BacksKey(m)'
    BY <2>1, OriginIs, OriginKept
  <2> QED BY <2>1, <2>2 DEF KeyBacking
<1>2. CASE \E m \in Served : Prompt(m) = p /\ msg[m].from = "index"
  <2>1. PICK m \in Served : Prompt(m) = p /\ msg[m].from = "index"
    BY <1>2
  <2>2. m \in Served' /\ Prompt(m)' = Prompt(m) /\ msg'[m].from = "index"
    BY <2>1, OriginKept DEF Served
  <2> QED BY <2>1, <2>2 DEF KeyBacking
<1> QED BY <1>1, <1>2 DEF KeyBacking

\* Everything is backed as before where each message backs what it did.
LEMMA BackedKept ==
  ASSUME Backed, Kept,
         \A i \in DOMAIN index' :
           IndexBacking(index[i])' \/ \E j \in DOMAIN index : index'[i] = index[j],
         \A p \in Prompts : \A a \in keyed'[p] : KeyBacking(p, a)' \/ a \in keyed[p],
         \A m \in Messages :
           /\ msg[m].from = "model" /\ IsAlone(m) /\ BacksIndex(m) => BacksIndex(m)'
           /\ msg[m].from = "model" /\ BacksKey(m) => BacksKey(m)'
  PROVE  Backed'
<1>1. ASSUME NEW i \in DOMAIN index'
      PROVE  IndexBacking(index[i])'
  <2>1. CASE \E j \in DOMAIN index : index'[i] = index[j]
    <3>1. PICK e : e = index'[i]
      OBVIOUS
    <3>2. IndexBacking(e)
      BY <2>1, <3>1 DEF Backed
    <3>3. IndexBacking(e)'
      BY <3>2, OriginIs, IndexBackingKept
    <3> QED BY <3>1, <3>3
  <2> QED BY <1>1, <2>1
<1>2. ASSUME NEW p \in Prompts, NEW a \in keyed'[p]
      PROVE  KeyBacking(p, a)'
  <2>1. CASE a \in keyed[p]
    <3>1. KeyBacking(p, a)
      BY <2>1 DEF Backed
    <3> QED BY <3>1, OriginIs, KeyBackingKept
  <2> QED BY <1>2, <2>1
<1> QED BY <1>1, <1>2 DEF Backed, Prompts

\* A message that nothing happens to backs what it did.
LEMMA BacksSame ==
  ASSUME NEW m \in Messages, NEW undo, NEW redo, Backs(m, undo, redo),
         unsure \subseteq unsure', link'[m] = link[m], InFlight(m)' = InFlight(m),
         \A f \in InFlight(m) : fb'[f] = fb[f],
         m \in helpful => m \in helpful'
  PROVE  Backs(m, undo, redo)'
  BY DEF Backs

\* The rating that works on message m works on it alone, unless the message is unsure.
LEMMA RatesAlone ==
  ASSUME TypeOK, Shape, NEW f \in Ratings, fb[f].pc \notin {"new", "done"},
         Rated(f) \notin unsure
  PROVE  /\ InFlight(Rated(f)) = {f}
         /\ Rated(f) \in helpful <=> fb[f].helpful
<1>1. Rated(f) \in Messages /\ f \in InFlight(Rated(f))
  BY RatedFacts
<1> QED BY <1>1 DEF Shape, InTurn

LEMMA BacksOther ==
  ASSUME TypeOK, Shape, NEW f \in Ratings, fb[f].pc \notin {"new", "done"},
         Goes(f, fb'[f].pc) \/ Ends(f),
         unsure \subseteq unsure', helpful' = helpful,
         \A m \in Messages : m # Rated(f) => link'[m] = link[m]
  PROVE  \A m \in Messages : m # Rated(f) =>
           \A undo, redo : Backs(m, undo, redo) => Backs(m, undo, redo)'
<1>1. fb[f].m = {Rated(f)}
  BY RatedFacts
<1>2. \A g \in Ratings : g # f => fb'[g] = fb[g]
  BY TypeParts DEF TypeInv, Goes, Ends, Works
<1>3. fb'[f].m \subseteq fb[f].m
  BY DEF Goes, Ends
<1>4. ASSUME NEW m \in Messages, m # Rated(f)
      PROVE  /\ InFlight(m)' = InFlight(m)
             /\ \A g \in InFlight(m) : fb'[g] = fb[g]
  BY <1>1, <1>2, <1>3, <1>4 DEF InFlight
<1> QED BY <1>4, BacksSame

\* So does the message it works on, once it is unsure ...
LEMMA BacksUnsure ==
  ASSUME NEW m, m \in unsure'
  PROVE  \A undo, redo : Backs(m, undo, redo)'
  BY DEF Backs

\* ... and otherwise at its steps, or when it ends with its link in order.
LEMMA BacksGoes ==
  ASSUME TypeOK, Shape, NEW f \in Ratings, fb[f].pc \notin {"new", "done"},
         NEW pc \in Acting, Goes(f, pc),
         NEW undo, NEW redo, NEW m \in Messages, m = Rated(f),
         \/ pc \in undo /\ ~fb[f].helpful
         \/ pc \in redo /\ fb[f].helpful
  PROVE  Backs(m, undo, redo)'
<1>1. fb'[f].pc = pc /\ fb'[f].m = {m} /\ fb'[f].helpful = fb[f].helpful
  BY RatedFacts DEF Goes
<1>2. f \in InFlight(m)'
  BY <1>1 DEF InFlight
<1> QED BY <1>1, <1>2 DEF Backs

LEMMA BacksEnds ==
  ASSUME TypeOK, Shape, NEW f \in Ratings, fb[f].pc \notin {"new", "done"},
         Ends(f), Rated(f) \notin unsure, fb[f].helpful,
         link'[Rated(f)] = {TRUE}, helpful' = helpful,
         NEW undo, NEW redo, NEW m \in Messages, m = Rated(f)
  PROVE  Backs(m, undo, redo)'
<1>1. InFlight(m) = {f} /\ m \in helpful
  BY RatesAlone
<1>2. \A g \in Ratings : g # f => fb'[g] = fb[g]
  BY TypeParts DEF TypeInv, Ends, Works
<1>3. InFlight(m)' = {}
  BY <1>1, <1>2 DEF InFlight, Ends
<1> QED BY <1>1, <1>3 DEF Backs

LEMMA BackedChat ==
  ASSUME TypeOK, Shape, Backed, NEW m \in Messages,
         Arrive(m) \/ Match(m) \/ Copy(m) \/ Generate(m) \/ GenerateFails(m)
           \/ WritePending(m) \/ Expire(m),
         Kept
  PROVE  Backed'
<1> USE DEF redis, history
<1>1. /\ unsure \subseteq unsure' /\ helpful' = helpful
      /\ \A k \in Messages : InFlight(k)' = InFlight(k)
      /\ fb' = fb
      /\ index' = index
  BY DEF Arrive, Match, Copy, Generate, GenerateFails, WritePending, Expire, Doubted, InFlight
<1>2. ASSUME NEW k \in Messages, NEW undo \in SUBSET Acting, NEW redo \in SUBSET Acting,
             Backs(k, undo, redo)
      PROVE  Backs(k, undo, redo)'
  <2>1. CASE link'[k] = link[k]
    BY <1>1, <1>2, <2>1, BacksSame
  <2>2. CASE WritePending(m) /\ k = m
    <3>1. msg[m].pc = "link"
      BY <2>2, WritePendingMoves
    <3>2. link[m] = {}
      BY <3>1 DEF Shape, LinkShape
    <3>3. \A f \in InFlight(m) : fb[f].pc \notin Acting
      BY <3>1 DEF Shape, FbShape, InFlight
    <3>4. m \in unsure
      BY <1>2, <2>2, <3>2, <3>3 DEF Backs
    <3> QED BY <1>1, <2>2, <3>4 DEF Backs
  <2>3. CASE Expire(m) /\ k = m
    BY <2>3 DEF Expire, Doubted, Backs
  <2>4. CASE k # m
    BY <2>1, <2>4, TypeParts
       DEF TypeInv, Arrive, Match, Copy, Generate, GenerateFails, WritePending, Expire
  <2> QED BY <2>1, <2>2, <2>3, <2>4
          DEF Arrive, Match, Copy, Generate, GenerateFails
<1>3. \A k \in Messages :
        /\ BacksIndex(k) => BacksIndex(k)'
        /\ BacksKey(k) => BacksKey(k)'
  BY <1>2 DEF BacksIndex, BacksKey, Acting
<1>4. ASSUME NEW p \in Prompts, NEW a \in keyed'[p], a \notin keyed[p]
      PROVE  KeyBacking(p, a)'
  <2>1. Copy(m)
    BY <1>4 DEF Arrive, Match, Generate, GenerateFails, WritePending, Expire
  <2>2. p = Prompt(m)
    BY <1>4, <2>1, TypeParts DEF TypeInv, Copy
  <2>3. m \in Served /\ msg[m].from = "index"
    BY <2>1, CopyMoves DEF Served
  <2>4. m \in Served' /\ Prompt(m)' = p /\ msg'[m].from = "index"
    BY <2>2, <2>3, OriginKept
  <2> QED BY <2>4 DEF KeyBacking
<1> QED BY <1>1, <1>3, <1>4, BackedKept

LEMMA BackedSubmit ==
  ASSUME TypeOK, Shape, Backed, NEW f \in Ratings, NEW m \in Messages, Submit(f, m), Kept
  PROVE  Backed'
<1>1. /\ fb[f].pc = "new" /\ fb[f].m = {}
      /\ fb' = [fb EXCEPT ![f] = fb'[f]]
      /\ fb'[f].pc = "read" /\ fb'[f].m = {m}
      /\ helpful' \ {m} = helpful \ {m}
      /\ unsure \subseteq unsure'
      /\ UNCHANGED <<msg, keyed, index, link>>
  BY SubmitWorks DEF Submit, Works, Doubted, redis, Shape, FbShape
<1>2. \A g \in Ratings : g # f => fb'[g] = fb[g]
  BY <1>1, TypeParts DEF TypeInv
<1>3. ASSUME NEW k \in Messages, NEW undo, NEW redo, Backs(k, undo, redo)
      PROVE  Backs(k, undo, redo)'
  <2>1. CASE k # m
    <3>1. /\ InFlight(k)' = InFlight(k)
          /\ \A g \in InFlight(k) : fb'[g] = fb[g]
      BY <1>1, <1>2, <2>1 DEF InFlight
    <3> QED BY <1>1, <1>3, <2>1, <3>1, BacksSame
  <2>2. CASE k = m /\ k \in unsure'
    BY <2>2, BacksUnsure
  <2>3. CASE k = m /\ k \notin unsure'
    <3>1. InFlight(m) = {}
      BY <2>3 DEF Submit, Doubted
    <3>2. link[m] = {TRUE}
      BY <1>1, <1>3, <2>3, <3>1 DEF Backs
    <3>3. f \in InFlight(m)'
      BY <1>1 DEF InFlight
    <3> QED BY <1>1, <2>3, <3>2, <3>3 DEF Backs
  <2> QED BY <2>1, <2>2, <2>3
<1>4. \A k \in Messages :
        /\ BacksIndex(k) => BacksIndex(k)'
        /\ BacksKey(k) => BacksKey(k)'
  BY <1>3 DEF BacksIndex, BacksKey
<1> QED BY <1>1, <1>4, BackedKept

LEMMA BackedWorks ==
  ASSUME TypeOK, Shape, Backed, NEW f \in Ratings,
         ReadLink(f) \/ Key(f) \/ Index(f) \/ Trim(f) \/ Flag(f),
         Kept
  PROVE  Backed'
<1> DEFINE undoI == {"key", "index"}
           redoI == {"trim", "flag"}
           undoK == {"key"}
           redoK == {"index", "trim", "flag"}
<1>1. /\ fb[f].pc \notin {"new", "done"}
      /\ UNCHANGED <<content, msg, helpful, vetted>>
      /\ Ends(f) \/ Goes(f, fb'[f].pc)
  BY WorksSteps DEF Goes
<1>2. PICK m \in Messages : m = Rated(f)
  BY <1>1, RatedFacts
<1>3. unsure \subseteq unsure'
  BY DEF ReadLink, Key, Index, Trim, Flag, Lost, Doubted
<1>4. \A k \in Messages : k # m => link'[k] = link[k]
  BY <1>2, TypeParts DEF TypeInv, ReadLink, Key, Index, Trim, Flag, redis
<1>5. \A k \in Messages : k # m =>
        /\ BacksIndex(k) => BacksIndex(k)'
        /\ BacksKey(k) => BacksKey(k)'
  <2>1. \A k \in Messages : k # m =>
          \A undo, redo : Backs(k, undo, redo) => Backs(k, undo, redo)'
    BY <1>1, <1>2, <1>3, <1>4, BacksOther
  <2> QED BY <2>1 DEF BacksIndex, BacksKey
<1>6. m \in unsure' => BacksIndex(m)' /\ BacksKey(m)'
  BY BacksUnsure DEF BacksIndex, BacksKey
<1>7. m \notin unsure => InFlight(m) = {f} /\ (m \in helpful <=> fb[f].helpful)
  BY <1>1, <1>2, RatesAlone
\* While m is not unsure, what it backs depends on where f is.
<1>8. ASSUME m \notin unsure, NEW undo, NEW redo, Backs(m, undo, redo)
      PROVE  \/ fb[f].pc = "read" /\ link[m] = {TRUE}
             \/ fb[f].pc \in undo /\ ~fb[f].helpful
             \/ fb[f].pc \in redo /\ fb[f].helpful
  BY <1>7, <1>8 DEF Backs
<1>8i. m \notin unsure /\ BacksIndex(m) =>
         \/ fb[f].pc = "read" /\ link[m] = {TRUE}
         \/ fb[f].pc \in undoI /\ ~fb[f].helpful
         \/ fb[f].pc \in redoI /\ fb[f].helpful
  BY <1>8 DEF BacksIndex
<1>8k. m \notin unsure /\ BacksKey(m) =>
         \/ fb[f].pc = "read" /\ link[m] = {TRUE}
         \/ fb[f].pc \in undoK /\ ~fb[f].helpful
         \/ fb[f].pc \in redoK /\ fb[f].helpful
  BY <1>8 DEF BacksKey
<1>9. ASSUME NEW pc \in Acting, Goes(f, pc)
      PROVE  /\ (pc \in undoI /\ ~fb[f].helpful) \/ (pc \in redoI /\ fb[f].helpful)
                  => BacksIndex(m)'
             /\ (pc \in undoK /\ ~fb[f].helpful) \/ (pc \in redoK /\ fb[f].helpful)
                  => BacksKey(m)'
  BY <1>1, <1>2, <1>9, BacksGoes DEF BacksIndex, BacksKey
<1>10. ASSUME Ends(f), m \notin unsure, fb[f].helpful, link'[m] = {TRUE}
       PROVE  BacksIndex(m)' /\ BacksKey(m)'
  BY <1>1, <1>2, <1>10, BacksEnds DEF BacksIndex, BacksKey
<1>11. CASE ReadLink(f)
  <2>1. UNCHANGED <<keyed, index, link>> /\ fb[f].pc = "read"
    BY <1>11 DEF ReadLink, redis
  <2>2. BacksIndex(m) \/ BacksKey(m) => BacksIndex(m)' /\ BacksKey(m)'
    <3>1. SUFFICES ASSUME BacksIndex(m) \/ BacksKey(m), m \notin unsure'
                   PROVE  BacksIndex(m)' /\ BacksKey(m)'
      BY <1>6
    <3>2. link[m] = {TRUE} /\ m \notin unsure
      <4>1. m \notin unsure
        BY <1>3, <3>1
      <4>2. BacksIndex(m) => link[m] = {TRUE}
        BY <1>8i, <2>1, <4>1
      <4>3. BacksKey(m) => link[m] = {TRUE}
        BY <1>8k, <2>1, <4>1
      <4> QED BY <3>1, <4>1, <4>2, <4>3
    <3>3. IF link[m] = {~fb[f].helpful} THEN Goes(f, "key") ELSE Ends(f)
      BY <1>2, <1>11, <3>1, GotoGoes, DoneEnds DEF ReadLink, Lost, Doubted
    <3>4. CASE fb[f].helpful
      <4>1. Ends(f)
        BY <3>2, <3>3, <3>4
      <4> QED BY <1>10, <2>1, <3>2, <3>4, <4>1
    <3>5. CASE ~fb[f].helpful
      <4>1. Goes(f, "key")
        <5>1. {~fb[f].helpful} = {TRUE}
          BY <3>5
        <5> QED BY <3>2, <3>3, <5>1
      <4> QED BY <1>9, <3>5, <4>1 DEF Acting
    <3> QED BY <3>4, <3>5
  <2> QED BY <1>5, <2>1, <2>2, BackedKept
<1>12. CASE Key(f)
  <2>1. /\ UNCHANGED <<index, link>> /\ fb[f].pc = "key"
        /\ Goes(f, IF IsAlone(m) THEN "index" ELSE "flag")
    BY <1>2, <1>12, GotoGoes DEF Key
  <2>2. IsAlone(m) /\ BacksIndex(m) => BacksIndex(m)'
    <3>1. SUFFICES ASSUME IsAlone(m), BacksIndex(m), m \notin unsure'
                   PROVE  BacksIndex(m)'
      BY <1>6
    <3>2. ~fb[f].helpful
      BY <1>3, <1>8i, <2>1, <3>1
    <3> QED BY <1>9, <2>1, <3>1, <3>2 DEF Acting
  <2>3. ASSUME fb[f].helpful PROVE BacksKey(m)'
    BY <1>9, <2>1, <2>3 DEF Acting
  <2>4. ASSUME ~fb[f].helpful, m \notin unsure'
        PROVE  keyed'[Prompt(m)] = {}
    <3>1. msg[m].pc = "done"
      BY <1>1, <1>2, <2>1, RatedFacts DEF Acting
    <3>2. Prompt(m) \in Prompts
      BY <3>1, Facts
    <3> QED BY <1>2, <1>12, <2>4, <3>2, TypeParts DEF TypeInv, Key, Lost, Doubted
  <2>5. ASSUME NEW p \in Prompts, NEW a \in keyed'[p]
        PROVE  KeyBacking(p, a)'
    <3>1. CASE a \notin keyed[p]
      <4>1. fb[f].helpful /\ p = Prompt(m) /\ a \in msg[m].answer
        BY <1>2, <1>12, <2>5, <3>1, TypeParts DEF TypeInv, Key
      <4>2. msg[m].from = "model" /\ \E x \in Answers : msg[m].answer = {x}
        BY <1>1, <1>2, <2>1, RatedFacts DEF Acting
      <4>3. m \in Origins(a) /\ m \in Origins(a)' /\ Prompt(m)' = p
        <5>1. m \in Origins(a)
          BY <4>1, <4>2 DEF Origins
        <5> QED BY <4>1, <4>2, <5>1, OriginKept
      <4> QED BY <2>3, <4>1, <4>3 DEF KeyBacking
    <3>2. CASE a \in keyed[p]
      <4>1. KeyBacking(p, a)
        BY <3>2 DEF Backed
      <4>2. \A k \in Origins(a) : Prompt(k) = p /\ BacksKey(k) => BacksKey(k)'
        BY <1>5, <1>6, <2>3, <2>4, <2>5, OriginIs
      <4> QED BY <4>1, <4>2, KeyBackingKept
    <3> QED BY <3>1, <3>2
  <2>6. \A i \in DOMAIN index' : IndexBacking(index[i])'
    <3>1. ASSUME NEW i \in DOMAIN index'
          PROVE  IndexBacking(index[i])'
      <4>1. PICK e : e = index[i] /\ index'[i] = e
        BY <2>1
      <4>2. IndexBacking(e)
        BY <2>1, <3>1, <4>1 DEF Backed
      <4>3. IndexBacking(e)'
        BY <1>5, <2>2, <4>2, OriginIs, IndexBackingKept
      <4> QED BY <4>1, <4>3
    <3> QED BY <3>1
  <2> QED BY <2>5, <2>6 DEF Backed, Prompts
<1>13. CASE Index(f)
  <2>1. /\ UNCHANGED <<keyed, link>> /\ fb[f].pc = "index"
        /\ Goes(f, "trim") \/ Goes(f, "flag")
    BY <1>13, GotoGoes DEF Index
  <2>2. /\ msg[m].from = "model" /\ IsAlone(m)
        /\ \E a \in Answers : msg[m].answer = {a} /\ Entry(m).answer = a
        /\ Entry(m) \in Entries
    BY <1>1, <1>2, <2>1, RatedFacts DEF Acting
  <2>3. fb[f].helpful => BacksKey(m)'
    BY <1>9, <2>1 DEF Acting
  <2>4. BacksKey(m) => BacksKey(m)'
    <3>1. BacksKey(m) /\ m \notin unsure' => fb[f].helpful
      BY <1>3, <1>8k, <2>1
    <3> QED BY <1>6, <2>3, <3>1
  <2>5. ASSUME NEW p \in Prompts, NEW a \in keyed'[p]
        PROVE  KeyBacking(p, a)'
    <3>1. KeyBacking(p, a)
      BY <2>1, <2>5 DEF Backed
    <3> QED BY <1>5, <2>4, <3>1, OriginIs, KeyBackingKept
  <2>6. PICK e : e = Entry(m)
    OBVIOUS
  \* Unless m is unsure, its entry goes in or every one like it comes out.
  <2>7. \/ m \in unsure' /\ index' = index
        \/ fb[f].helpful /\ index' = <<e>> \o index /\ Goes(f, "trim")
        \/ ~fb[f].helpful /\ index' = Without(index, e)
    BY <1>2, <1>13, <2>6, GotoGoes DEF Index, Lost, Doubted
  <2>8. ASSUME NEW x \in Entries, IndexBacking(x),
               m \in unsure' \/ fb[f].helpful \/ x # e
        PROVE  IndexBacking(x)'
    <3>1. ASSUME m \in Origins(x.answer), Ask(m).q = x.q, BacksIndex(m), m \notin unsure'
          PROVE  FALSE
      <4>1. ~fb[f].helpful
        BY <1>3, <1>8i, <2>1, <3>1
      <4>2. x = Entry(m)
        BY <2>2, <2>8, <3>1, OriginIs DEF Entries, Entry
      <4> QED BY <2>6, <2>8, <3>1, <4>1, <4>2
    <3>2. \A k \in Origins(x.answer) :
            Ask(k).q = x.q /\ IsAlone(k) /\ BacksIndex(k) => BacksIndex(k)'
      BY <1>5, <1>6, <3>1, OriginIs
    <3> QED BY <2>8, <3>2, IndexBackingKept
  <2>9. index \in Seq(Entries) /\ DOMAIN index = 1 .. Len(index)
    BY TypeParts DEF TypeInv
  <2>10. \A j \in DOMAIN index :
           m \in unsure' \/ fb[f].helpful \/ index[j] # e =>
             \A x : x = index[j] => IndexBacking(x)'
    <3>1. ASSUME NEW j \in DOMAIN index, NEW x, x = index[j],
                 m \in unsure' \/ fb[f].helpful \/ index[j] # e
          PROVE  IndexBacking(x)'
      <4>1. x \in Entries /\ IndexBacking(x)
        BY <2>9, <3>1 DEF Backed
      <4> QED BY <2>8, <3>1, <4>1
    <3> QED BY <3>1
  <2>11. fb[f].helpful /\ Goes(f, "trim") => IndexBacking(e)'
    <3>1. SUFFICES ASSUME fb[f].helpful, Goes(f, "trim")
                   PROVE  IndexBacking(e)'
      OBVIOUS
    <3>2. BacksIndex(m)'
      BY <1>9, <3>1 DEF Acting
    <3>3. m \in Origins(e.answer) /\ Ask(m).q = e.q
      BY <2>2, <2>6 DEF Origins, Entry
    <3>4. m \in Origins(e.answer)' /\ Ask(m)' = Ask(m) /\ IsAlone(m)'
      BY <2>2, <3>3, OriginKept
    <3> QED BY <3>2, <3>3, <3>4 DEF IndexBacking
  <2>12. ASSUME NEW i \in DOMAIN index'
         PROVE  IndexBacking(index[i])'
    <3>1. PICK x : x = index'[i]
      OBVIOUS
    <3>2. CASE m \in unsure' /\ index' = index
      BY <2>10, <2>12, <3>1, <3>2
    <3>3. CASE fb[f].helpful /\ index' = <<e>> \o index /\ Goes(f, "trim")
      <4>1. CASE i = 1
        <5>1. x = e
          BY <2>9, <3>1, <3>3, <4>1, <2>2, <2>6
        <5> QED BY <2>11, <3>1, <3>3, <5>1
      <4>2. CASE i # 1
        <5>1. i - 1 \in DOMAIN index /\ x = index[i - 1]
          BY <2>2, <2>6, <2>9, <2>12, <3>1, <3>3, <4>2
        <5> QED BY <2>10, <3>1, <3>3, <5>1
      <4> QED BY <4>1, <4>2
    <3>4. CASE ~fb[f].helpful /\ index' = Without(index, e)
      <4>1. \E j \in DOMAIN index : index'[i] = index[j] /\ index[j] # e
        BY <2>9, <2>12, <3>4, WithoutKeeps
      <4> QED BY <2>10, <3>1, <4>1
    <3> QED BY <2>7, <3>2, <3>3, <3>4
  <2> QED BY <2>5, <2>12 DEF Backed, Prompts
<1>14. CASE Trim(f)
  <2>1. /\ UNCHANGED <<keyed, link>> /\ fb[f].pc = "trim" /\ Goes(f, "flag")
    BY <1>14, GotoGoes DEF Trim
  <2>2. /\ BacksIndex(m) => BacksIndex(m)'
        /\ BacksKey(m) => BacksKey(m)'
    <3>1. m \notin unsure /\ (BacksIndex(m) \/ BacksKey(m)) => fb[f].helpful
      BY <1>8i, <1>8k, <2>1
    <3>2. fb[f].helpful => BacksIndex(m)' /\ BacksKey(m)'
      BY <1>9, <2>1 DEF Acting
    <3> QED BY <1>3, <1>6, <3>1, <3>2
  <2>3. ASSUME NEW i \in DOMAIN index'
        PROVE  \E j \in DOMAIN index : index'[i] = index[j]
    <3>1. CASE index' = Trimmed(IndexSize)
      <4>1. index \in Seq(Entries) /\ IndexSize \in Nat
        BY TypeParts, IndexAssumption DEF TypeInv
      <4>2. i \in DOMAIN index /\ index'[i] = index[i]
        BY <2>3, <3>1, <4>1 DEF Trimmed
      <4> QED BY <4>2
    <3> QED BY <1>14, <2>3, <3>1 DEF Trim
  <2> QED BY <1>5, <2>1, <2>2, <2>3, BackedKept
<1>15. CASE Flag(f)
  <2>1. UNCHANGED <<keyed, index>> /\ fb[f].pc = "flag" /\ Ends(f)
    BY <1>15, DoneEnds DEF Flag
  <2>2. BacksIndex(m) \/ BacksKey(m) => BacksIndex(m)' /\ BacksKey(m)'
    <3>1. SUFFICES ASSUME BacksIndex(m) \/ BacksKey(m), m \notin unsure'
                   PROVE  BacksIndex(m)' /\ BacksKey(m)'
      BY <1>6
    <3>2. m \notin unsure /\ fb[f].helpful
      BY <1>3, <1>8i, <1>8k, <2>1, <3>1
    <3>3. fb[f].helpful = TRUE
      BY <1>1, <3>2, RatedFacts DEF FbType
    <3>4. link'[m] = {TRUE}
      BY <1>2, <1>15, <3>1, <3>3, TypeParts DEF TypeInv, Flag, Lost, Doubted
    <3> QED BY <1>10, <2>1, <3>2, <3>4
  <2> QED BY <1>5, <2>1, <2>2, BackedKept
<1> QED BY <1>11, <1>12, <1>13, <1>14, <1>15

LEMMA BackedStep ==
  ASSUME TypeOK, Shape, Backed, [Next]_vars
  PROVE  Backed'
<1>1. Kept
  BY KeptByNext
<1>2. CASE Restart
  BY <1>2 DEF Restart, Backed
<1>3. CASE UNCHANGED vars
  <2>1. \A k \in Messages :
          /\ BacksIndex(k) => BacksIndex(k)'
          /\ BacksKey(k) => BacksKey(k)'
    BY <1>3, BacksSame DEF vars, redis, history, InFlight, BacksIndex, BacksKey
  <2> QED BY <1>1, <1>3, <2>1, BackedKept DEF vars, redis
<1> QED BY <1>1, <1>2, <1>3, NextCases, BackedChat, BackedSubmit, BackedWorks

-----------------------------------------------------------------------------
(* The inductive invariant holds initially and is kept by every step. *)

LEMMA IInvParts == IInv <=> TypeOK /\ Shape /\ Vetted /\ Backed
  BY VettedParts, BackedParts DEF IInv

LEMMA InitIInv == Init => IInv
<1>1. SUFFICES ASSUME Init PROVE TypeOK /\ Shape /\ Vetted /\ Backed
  BY IInvParts
<1>2. TypeOK
  <2>1. /\ {} \in Maybe(Prompts) /\ {} \in Maybe(Answers)
        /\ {} \in Maybe(BOOLEAN) /\ {} \in Maybe(Messages)
    BY Members
  <2>2. msg \in [Messages -> MsgType] /\ fb \in [Ratings -> FbType]
    BY <1>1, <2>1 DEF Init, MsgType, FbType
  <2>3. 0 \in 0 .. MaxUpdates
    BY BoundsAssumption
  <2>4. IndexBounded
    BY <1>1, TrimmingFinite, IndexAssumption DEF Init, IndexBounded
  <2> QED BY <1>1, <2>1, <2>2, <2>3, <2>4, TypeParts DEF TypeInv, Init
<1>3. Shape
  BY <1>1 DEF Init, Shape, MsgShape, LinkShape, InTurn, InFlight, FbShape
<1>4. Vetted
  BY <1>1 DEF Init, Vetted, KeyVetted, ServedVetted, Served
<1>5. Backed
  BY <1>1 DEF Init, Backed
<1> QED BY <1>2, <1>3, <1>4, <1>5

LEMMA StepIInv == IInv /\ [Next]_vars => IInv'
<1>1. SUFFICES ASSUME TypeOK, Shape, Vetted, Backed, [Next]_vars
               PROVE  TypeOK' /\ Shape' /\ Vetted' /\ Backed'
  BY IInvParts, PTL
<1> QED BY <1>1, TypeStep, ShapeStep, VettedStep, BackedStep

(* Every reachable state satisfies the inductive invariant, whatever chat    *)
(* requests, ratings and faults come in whatever order.                      *)
THEOREM Invariance == Spec => []IInv
  BY InitIInv, StepIInv, PTL DEF Spec

(* The state is well typed; while no command was lost, the index exceeds its *)
(* size by no more than the ratings between their LPUSH and their LTRIM.     *)
THEOREM TypeCorrect == Spec => []TypeOK
  BY Invariance, PTL DEF IInv

(* No answer is cached for a prompt, or served without asking the model,     *)
(* that nobody ever rated helpful there or for a near question: the paths by *)
(* which generate_answer_with_ollama reuses an answer are all covered, also  *)
(* when Redis loses commands, forgets links or restarts.                     *)
THEOREM AnswersVetted == Spec => []OnlyVetted
  BY Invariance, PTL DEF IInv

\* Who backs an entry has been rated helpful, is being rated, or lost a command.
LEMMA BacksVouches ==
  ASSUME NEW m, NEW undo, NEW redo, Backs(m, undo, redo)
  PROVE  Vouches(m)
  BY DEF Backs, Vouches

(* A rating that is changed or deleted takes its answer out of the list of    *)
(* answered questions: record_answer_feedback_for_cache leaves no entry there *)
(* without a message that is rated helpful, being rated, or lost a command.  *)
THEOREM IndexMirrors == Spec => []IndexMirrorsRatings
<1>1. IInv => IndexMirrorsRatings
  <2>1. SUFFICES ASSUME IInv, NEW i \in 1 .. Len(index)
                 PROVE  \E m \in Origins(index[i].answer) :
                          Ask(m).q = index[i].q /\ IsAlone(m) /\ Vouches(m)
    BY DEF IndexMirrorsRatings
  <2>2. i \in DOMAIN index
    BY <2>1, TypeParts DEF IInv, TypeInv
  <2>3. PICK m \in Origins(index[i].answer) :
          Ask(m).q = index[i].q /\ IsAlone(m) /\ BacksIndex(m)
    BY <2>1, <2>2 DEF IInv, IndexBacked
  <2> QED BY <2>3, BacksVouches DEF BacksIndex
<1> QED BY <1>1, Invariance, PTL

(* And out of its prompt's own key, unless a paraphrase's answer was copied   *)
(* there, which no rating of the paraphrase's message reaches.               *)
THEOREM KeyMirrors == Spec => []KeyMirrorsRatings
<1>1. IInv => KeyMirrorsRatings
  <2>1. SUFFICES ASSUME IInv, NEW p \in Prompts, NEW a \in keyed[p]
                 PROVE  \/ \E m \in Origins(a) : Prompt(m) = p /\ Vouches(m)
                        \/ \E m \in Served : Prompt(m) = p /\ msg[m].from = "index"
    BY DEF KeyMirrorsRatings
  <2>2. \/ \E m \in Origins(a) : Prompt(m) = p /\ BacksKey(m)
        \/ \E m \in Served : Prompt(m) = p /\ msg[m].from = "index"
    BY <2>1 DEF IInv, KeyBacked
  <2> QED BY <2>2, BacksVouches DEF BacksKey
<1> QED BY <1>1, Invariance, PTL
=============================================================================
