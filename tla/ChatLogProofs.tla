---------------------------- MODULE ChatLogProofs ----------------------------
(***************************************************************************)
(* The safety of ChatLog for any users, requests, calls, sessions and       *)
(* sizes, with any number of failed writes and crashes.                     *)
(*                                                                         *)
(* What a row of an answer holds follows the request that wrote it          *)
(* (RequestOK), since every row is some request's question or answer and    *)
(* names it (RowOK): so no other request writes it.  What a gap is filed    *)
(* under needs that an answer's question is committed in the same session   *)
(* under a smaller id (AnswerFacts): going back by ids from the answer then *)
(* finds that question or a later one, and never leaves the session.  That  *)
(* no negative rating is lost follows the call (CallOK): what it has seen   *)
(* of the gaps is still so, because gaps are never removed nor unflagged    *)
(* (GapsGrow).                                                              *)
(*                                                                         *)
(* What a history holds needs two steps: what History returns when it is    *)
(* read (HistoryRecalls, by the sums and ranks BoundedHistory and Newest    *)
(* are made of), and a second invariant beside the first (HistoriesOK): the *)
(* rows of a history stay, and no step changes the text of an answer whose  *)
(* request has ended (Grown).                                               *)
(***************************************************************************)
EXTENDS ChatLog, FiniteSetTheorems, TLAPS

-----------------------------------------------------------------------------
(* The inductive invariant *)

MessageRow ==
  [session : Session, role : {"user", "assistant"}, ask : Request,
   text : Nat, state : {"open", "kept", "gone"}]

\* A request, with histories from H.
RequestType(H) ==
  [pc : Working \union Over \union {"idle"}, kind : Kind, user : User,
   session : Session \union {None}, own : Nat, msg : Nat,
   sent : (0 .. MaxTokens) \union AnswerSizes, gap : BOOLEAN, lost : BOOLEAN,
   hist : H, before : SUBSET Request]

RatingType == [message : Nat, user : User, rating : Op, live : BOOLEAN]

GapType ==
  [message : Nat, ask : Request \union {None}, by : Call \union {None},
   flagged : BOOLEAN, open : BOOLEAN]

CallType ==
  [pc : {"idle", "read", "rated", "looked"} \union Over, op : Op, user : User,
   message : Nat, row : Nat, gap : Nat, ask : Request \union {None},
   known : BOOLEAN, lost : BOOLEAN]

TypeInv ==
  /\ messages \in Seq(MessageRow)
  /\ owner \in [Session -> User \union {None}]
  /\ ratings \in Seq(RatingType)
  /\ gaps \in Seq(GapType)
  /\ call \in [Call -> CallType]
  /\ faults \in 0 .. MaxFaults

RequestsTyped == \E H : req \in [Request -> RequestType(H)]

\* Where the request's question and its answer are, and what the answer's row
\* holds.
RequestOK(r) ==
  /\ req[r].pc \in {"idle", "refused"} => req[r].own = 0
  /\ req[r].pc \notin {"idle", "refused"} => req[r].own # 0 /\ req[r].session \in Session
  /\ req[r].own # 0 =>
       /\ req[r].own \in 1 .. Len(messages)
       /\ messages[req[r].own].role = "user"
       /\ messages[req[r].own].ask = r
       /\ messages[req[r].own].session = req[r].session
  /\ req[r].pc = "logging" => messages[req[r].own].state = "open"
  /\ req[r].pc \in {"logged", "prepared", "streaming", "rowed"} =>
       messages[req[r].own].state = "kept"
  /\ req[r].pc \in {"idle", "refused", "logging", "logged", "prepared", "failed"} =>
       req[r].msg = 0 /\ req[r].sent = 0 /\ ~req[r].lost
  /\ req[r].msg # 0 =>
       /\ req[r].msg \in 1 .. Len(messages)
       /\ messages[req[r].msg].role = "assistant"
       /\ messages[req[r].msg].ask = r
       /\ messages[req[r].msg].session = req[r].session
       /\ messages[req[r].msg].text \in {0, req[r].sent}
       /\ req[r].pc = "streaming" => messages[req[r].msg].text = 0
       /\ req[r].pc \in {"rowed", "ended"} /\ ~req[r].lost =>
            messages[req[r].msg].text = req[r].sent
       /\ req[r].own # 0 /\ req[r].own < req[r].msg
       /\ messages[req[r].own].state = "kept"
  /\ req[r].pc = "streaming" => req[r].msg # 0

\* Every row is a request's question or answer.
RowOK(i) ==
  LET r == messages[i].ask
  IN  IF messages[i].role = "user" THEN req[r].own = i ELSE req[r].msg = i

LogOK ==
  /\ \A r \in Request : RequestOK(r)
  /\ \A i \in 1 .. Len(messages) : RowOK(i)

\* The question named is that of answer m, or one asked between the two in the
\* same session.
Names(named, m) ==
  \/ named = messages[m].ask
  \/ /\ named \in Request
     /\ req[named].session = messages[m].session
     /\ req[messages[m].ask].own < req[named].own
     /\ req[named].own < m

IsAnswer(m) == m \in 1 .. Len(messages) /\ messages[m].role = "assistant"

GapOK(g) ==
  /\ gaps[g].message # 0 =>
       /\ IsAnswer(gaps[g].message)
       /\ \/ gaps[g].ask = messages[gaps[g].message].ask
          \/ gaps[g].by # None /\ Names(gaps[g].ask, gaps[g].message)
  /\ gaps[g].by # None =>
       /\ call[gaps[g].by].pc = "ended"
       /\ ~call[gaps[g].by].known

CallOK(c) ==
  /\ call[c].message # 0 => IsAnswer(call[c].message)
  /\ call[c].pc \in {"read", "rated", "looked"} => call[c].message # 0
  /\ call[c].pc \in {"idle", "read", "rated"} => call[c].gap = 0
  /\ call[c].row \in 0 .. Len(ratings)
  /\ call[c].gap \in 0 .. Len(gaps)
  /\ call[c].gap # 0 => gaps[call[c].gap].message = call[c].message
  /\ call[c].pc = "looked" /\ call[c].gap = 0 =>
       ~call[c].known /\ Names(call[c].ask, call[c].message)
  /\ call[c].pc \in {"rated", "looked"} /\ call[c].known => GapsOf(call[c].message) # {}
  /\ call[c].pc = "ended" /\ call[c].op = "negative" /\ ~call[c].lost =>
       \E g \in GapsOf(call[c].message) : gaps[g].flagged

RatingsOK ==
  /\ \A g \in 1 .. Len(gaps) : GapOK(g)
  /\ \A c \in Call : CallOK(c)

IInv == TypeInv /\ RequestsTyped /\ LogOK /\ RatingsOK

-----------------------------------------------------------------------------
(* Numbers *)

LEMMA LeastOf ==
  ASSUME NEW S \in SUBSET Nat, S # {}
  PROVE  Min(S) \in S /\ \A y \in S : Min(S) <= y
<1> DEFINE R == OpToRel(<, Nat)
<1>1. PICK x \in S : \A y \in S : ~(<<y, x>> \in R)
  BY NatLessThanWellFounded, WFMin
<1>2. \A y \in S : y < x => <<y, x>> \in R
  <2>1. ASSUME NEW y \in S, y < x
        PROVE  <<y, x>> \in R
    <3>1. <<y, x>> \in Nat \X Nat
      OBVIOUS
    <3>2. <<y, x>>[1] < <<y, x>>[2]
      BY <2>1
    <3> QED BY <3>1, <3>2, Zenon DEF R, OpToRel
  <2> QED BY <2>1
<1>3. \A y \in S : x <= y
  <2>1. \A y \in S : ~(y < x)
    <3> HIDE DEF R
    <3> QED BY <1>1, <1>2
  <2> QED BY <2>1
<1> QED BY <1>3 DEF Min

LEMMA GreatestOf ==
  ASSUME NEW n \in Nat, NEW S \in SUBSET (0 .. n), S # {}
  PROVE  Max(S) \in S /\ \A y \in S : y <= Max(S)
<1> DEFINE T == {n - i : i \in S}
<1>1. T \in SUBSET Nat /\ T # {}
  <2>1. \A i \in S : n - i \in Nat
    OBVIOUS
  <2>2. PICK i \in S : TRUE
    OBVIOUS
  <2> QED BY <2>1, <2>2
<1>2. Min(T) \in T /\ \A y \in T : Min(T) <= y
  BY <1>1, LeastOf
<1>3. PICK x \in S : Min(T) = n - x
  BY <1>2
<1>4. \A y \in S : x >= y
  <2>1. ASSUME NEW y \in S PROVE x >= y
    <3>1. n - x <= n - y
      BY <1>2, <1>3, <2>1
    <3> QED BY <3>1
  <2> QED BY <2>1
<1>5. \A y \in S : Max(S) >= y /\ Max(S) \in S
  BY <1>4 DEF Max
<1> QED BY <1>5

-----------------------------------------------------------------------------
(* Steps of one request *)

\* Of the messages, only those request r asked or answered may change, and no
\* kept message is lost.
MessagesOf(r) ==
  /\ messages' \in Seq(MessageRow)
  /\ Len(messages) <= Len(messages')
  /\ \A i \in 1 .. Len(messages) :
       /\ messages'[i].role = messages[i].role
       /\ messages'[i].session = messages[i].session
       /\ messages'[i].ask = messages[i].ask
       /\ messages[i].ask # r => messages'[i] = messages[i]
       /\ messages[i].state = "kept" => messages'[i].state = "kept"

\* Of the requests, only r moves, and it keeps its rows.
MovesOnly(r) ==
  /\ \A k \in Request : k # r => req'[k] = req[k]
  /\ req[r].own # 0 => req'[r].own = req[r].own /\ req'[r].session = req[r].session
  /\ req[r].msg # 0 => req'[r].msg = req[r].msg

LEMMA RowFacts ==
  ASSUME TypeInv
  PROVE  /\ Len(messages) \in Nat
         /\ DOMAIN messages = 1 .. Len(messages)
         /\ \A i \in 1 .. Len(messages) : messages[i] \in MessageRow
  BY DEF TypeInv

LEMMA RequestFacts ==
  ASSUME RequestsTyped, NEW r \in Request
  PROVE  /\ req[r].pc \in Working \union Over \union {"idle"}
         /\ req[r].kind \in Kind /\ req[r].user \in User
         /\ req[r].session \in Session \union {None}
         /\ req[r].own \in Nat /\ req[r].msg \in Nat
         /\ req[r].sent \in (0 .. MaxTokens) \union AnswerSizes
         /\ req[r].sent \in Nat
         /\ req[r].gap \in BOOLEAN /\ req[r].lost \in BOOLEAN
         /\ req[r].before \in SUBSET Request
<1>1. PICK H : req[r] \in RequestType(H)
  BY DEF RequestsTyped
<1>2. req[r].sent \in Nat
  <2>1. req[r].sent \in (0 .. MaxTokens) \union AnswerSizes
    BY <1>1 DEF RequestType
  <2>2. MaxTokens \in Nat /\ AnswerSizes \subseteq Nat
    BY ChatAssumption
  <2>3. (0 .. MaxTokens) \union AnswerSizes \subseteq Nat
    BY <2>2
  <2> QED BY <2>1, <2>3
<1> QED BY <1>1, <1>2 DEF RequestType

LEMMA StepIs ==
  ASSUME RequestsTyped, NEW r \in Request, NEW H, NEW to \in RequestType(H),
         req' = [req EXCEPT ![r] = to]
  PROVE  /\ req'[r] = to
         /\ \A k \in Request : k # r => req'[k] = req[k]
         /\ RequestsTyped'
<1>1. PICK G : req \in [Request -> RequestType(G)]
  BY DEF RequestsTyped
<1>2. \A x : x \in RequestType(G) \/ x \in RequestType(H) => x \in RequestType(G \union H)
  BY DEF RequestType
<1>3. req' \in [Request -> RequestType(G \union H)]
  BY <1>1, <1>2
<1> QED BY <1>1, <1>3 DEF RequestsTyped

LEMMA LogOKStep ==
  ASSUME TypeInv, RequestsTyped, LogOK, NEW r \in Request,
         MessagesOf(r), MovesOnly(r), RequestOK(r)',
         \A i \in 1 .. Len(messages') : i > Len(messages) => RowOK(i)'
  PROVE  LogOK'
<1>1. ASSUME NEW k \in Request, k # r
      PROVE  RequestOK(k)'
  <2>1. req'[k] = req[k] /\ RequestOK(k)
    BY <1>1 DEF MovesOnly, LogOK
  <2>2. req[k].own # 0 =>
          /\ req[k].own \in 1 .. Len(messages)
          /\ messages[req[k].own].ask = k
          /\ messages'[req[k].own] = messages[req[k].own]
    BY <1>1, <2>1 DEF RequestOK, MessagesOf
  <2>3. req[k].msg # 0 =>
          /\ req[k].msg \in 1 .. Len(messages)
          /\ messages[req[k].msg].ask = k
          /\ messages'[req[k].msg] = messages[req[k].msg]
    BY <1>1, <2>1 DEF RequestOK, MessagesOf
  <2>4. 1 .. Len(messages) \subseteq 1 .. Len(messages')
    BY RowFacts DEF MessagesOf
  <2> QED BY <2>1, <2>2, <2>3, <2>4 DEF RequestOK
<1>2. ASSUME NEW i \in 1 .. Len(messages), i \in 1 .. Len(messages')
      PROVE  RowOK(i)'
  <2>1. PICK k : k = messages[i].ask /\ k = messages'[i].ask
    BY DEF MessagesOf
  <2>2. /\ RowOK(i) /\ messages'[i].role = messages[i].role
        /\ i # 0 /\ k \in Request
    BY <2>1, RowFacts DEF LogOK, MessagesOf, MessageRow
  <2>3. /\ req[k].own # 0 => req'[k].own = req[k].own
        /\ req[k].msg # 0 => req'[k].msg = req[k].msg
    BY <2>2 DEF MovesOnly
  <2> QED BY <2>1, <2>2, <2>3 DEF RowOK
<1>3. \A i \in 1 .. Len(messages') : RowOK(i)'
  BY <1>2, RowFacts DEF MessagesOf
<1> QED BY <1>1, <1>3 DEF LogOK

\* A step that changes no message is one of any request's.
LEMMA MessagesSame ==
  ASSUME TypeInv, messages' = messages, NEW r
  PROVE  MessagesOf(r)
  BY RowFacts DEF MessagesOf, TypeInv

\* A row is added, and it is r's.
LEMMA MessagesAppend ==
  ASSUME TypeInv, NEW r, NEW row \in MessageRow, messages' = Append(messages, row)
  PROVE  /\ MessagesOf(r)
         /\ Len(messages') = Len(messages) + 1
         /\ messages'[Len(messages) + 1] = row
         /\ \A i \in 1 .. Len(messages) : messages'[i] = messages[i]
         /\ \A i \in 1 .. Len(messages') : i > Len(messages) => i = Len(messages) + 1
<1>1. /\ Len(messages') = Len(messages) + 1
      /\ messages'[Len(messages) + 1] = row
      /\ \A i \in 1 .. Len(messages) : messages'[i] = messages[i]
      /\ messages' \in Seq(MessageRow)
      /\ Len(messages) \in Nat
  BY DEF TypeInv
<1> QED BY <1>1 DEF MessagesOf

\* The row at n, which is r's, has its text or state changed.
LEMMA MessagesEdit ==
  ASSUME TypeInv, NEW r, NEW n \in 1 .. Len(messages), messages[n].ask = r,
         messages' = [messages EXCEPT ![n] = messages'[n]],
         messages'[n] \in MessageRow,
         messages'[n].role = messages[n].role,
         messages'[n].session = messages[n].session,
         messages'[n].ask = messages[n].ask,
         messages[n].state = "kept" => messages'[n].state = "kept"
  PROVE  MessagesOf(r) /\ Len(messages') = Len(messages)
<1>1. PICK row \in MessageRow : row = messages'[n]
  OBVIOUS
<1>2. messages' = [messages EXCEPT ![n] = row]
  BY <1>1
<1>3. /\ messages' \in Seq(MessageRow)
      /\ Len(messages') = Len(messages)
      /\ \A i \in 1 .. Len(messages) : i # n => messages'[i] = messages[i]
  BY <1>2 DEF TypeInv
<1> QED BY <1>3, RowFacts DEF MessagesOf

\* The messages and their requests, as the ratings see them.
Stable ==
  /\ Len(messages') \in Nat /\ Len(messages) <= Len(messages')
  /\ \A i \in 1 .. Len(messages) :
       /\ messages'[i].role = messages[i].role
       /\ messages'[i].session = messages[i].session
       /\ messages'[i].ask = messages[i].ask
  /\ \A r \in Request : req[r].own # 0 =>
       req'[r].own = req[r].own /\ req'[r].session = req[r].session

\* What each of a request's actions does: from req[r] to req'[r].
Logs(r) == TypeInv' /\ RequestsTyped' /\ LogOK' /\ Stable

LEMMA StableStep ==
  ASSUME TypeInv, NEW r \in Request, MessagesOf(r), MovesOnly(r)
  PROVE  Stable
  BY RowFacts DEF Stable, MessagesOf, MovesOnly

LEMMA AskLogs ==
  ASSUME TypeInv, RequestsTyped, LogOK, NEW r \in Request, Ask(r)
  PROVE  Logs(r)
<1>1. PICK k \in Kind, s \in Session \union {None} :
        LET unused == {x \in Session : /\ owner[x] = None
                                       /\ \A i \in DOMAIN messages : messages[i].session # x}
            in == IF s = None THEN CHOOSE x \in unused : TRUE ELSE s
            asked == [req[r] EXCEPT !.kind = k,
                                    !.before = {q \in Request : req[q].pc = "ended"}]
        IN  /\ s = None => unused # {}
            /\ IF s # None /\ owner[s] # req[r].user
               THEN /\ Step(r, "idle", [asked EXCEPT !.pc = "refused"])
                    /\ UNCHANGED messages
               ELSE /\ Step(r, "idle", [asked EXCEPT !.pc = "logging", !.session = in,
                                                     !.own = Len(messages) + 1])
                    /\ messages' = Append(messages, Row(in, "user", r, 1, "open"))
            /\ UNCHANGED <<owner, ratings, gaps, call, faults>>
  BY DEF Ask
<1> DEFINE unused == {x \in Session : /\ owner[x] = None
                                      /\ \A i \in DOMAIN messages : messages[i].session # x}
           in == IF s = None THEN CHOOSE x \in unused : TRUE ELSE s
           asked == [req[r] EXCEPT !.kind = k,
                                   !.before = {q \in Request : req[q].pc = "ended"}]
<1>2. PICK G : req \in [Request -> RequestType(G)]
  BY DEF RequestsTyped
<1>3. req[r] \in RequestType(G) /\ req[r].pc = "idle"
  BY <1>1, <1>2 DEF Step
<1>4. asked \in RequestType(G)
  BY <1>3 DEF RequestType
<1>5. /\ RequestOK(r)
      /\ req[r].own = 0 /\ req[r].msg = 0 /\ req[r].sent = 0 /\ ~req[r].lost
  BY <1>3 DEF LogOK, RequestOK
<1>6. /\ asked.own = 0 /\ asked.msg = 0 /\ asked.sent = 0 /\ ~asked.lost
      /\ asked.session = req[r].session
  BY <1>3, <1>5 DEF RequestType
<1> HIDE DEF asked
<1>7. CASE /\ Step(r, "idle", [asked EXCEPT !.pc = "refused"])
           /\ UNCHANGED messages
  <2> DEFINE to == [asked EXCEPT !.pc = "refused"]
  <2>1. to \in RequestType(G)
    BY <1>4 DEF RequestType, Over
  <2>2. to.pc = "refused" /\ to.own = 0 /\ to.msg = 0 /\ to.sent = 0 /\ ~to.lost
    BY <1>4, <1>6 DEF RequestType
  <2> HIDE DEF to
  <2>3. /\ req'[r] = to
        /\ \A q \in Request : q # r => req'[q] = req[q]
        /\ RequestsTyped'
    BY <1>7, <2>1, StepIs DEF Step, to
  <2>4. MovesOnly(r) /\ MessagesOf(r)
    BY <1>5, <1>7, <2>3, MessagesSame DEF MovesOnly
  <2>5. RequestOK(r)'
    BY <2>2, <2>3 DEF RequestOK
  <2>6. LogOK'
    BY <1>7, <2>4, <2>5, LogOKStep, RowFacts
  <2>7. TypeInv'
    BY <1>1, <1>7 DEF TypeInv
  <2> QED BY <2>3, <2>4, <2>6, <2>7, StableStep DEF Logs
<1>8. CASE /\ Step(r, "idle", [asked EXCEPT !.pc = "logging", !.session = in,
                                            !.own = Len(messages) + 1])
           /\ messages' = Append(messages, Row(in, "user", r, 1, "open"))
           /\ s = None => unused # {}
  <2> DEFINE to == [asked EXCEPT !.pc = "logging", !.session = in,
                                 !.own = Len(messages) + 1]
             row == Row(in, "user", r, 1, "open")
  <2>1. in \in Session
    BY <1>8
  <2> HIDE DEF in
  <2>2. Len(messages) + 1 \in Nat /\ Len(messages) + 1 # 0
    BY RowFacts
  <2>3. to \in RequestType(G)
    BY <1>4, <2>1, <2>2 DEF RequestType, Working
  <2>4. /\ to.pc = "logging" /\ to.own = Len(messages) + 1 /\ to.session = in
        /\ to.msg = 0 /\ to.sent = 0 /\ ~to.lost
    BY <1>4, <1>6 DEF RequestType
  <2>5. /\ row \in MessageRow
        /\ row.role = "user" /\ row.ask = r /\ row.session = in /\ row.state = "open"
    BY <2>1 DEF Row, MessageRow
  <2> HIDE DEF to, row
  <2>6. /\ req'[r] = to
        /\ \A q \in Request : q # r => req'[q] = req[q]
        /\ RequestsTyped'
    BY <1>8, <2>3, StepIs DEF Step, to
  <2>7. /\ MessagesOf(r)
        /\ Len(messages') = Len(messages) + 1
        /\ messages'[Len(messages) + 1] = row
        /\ \A i \in 1 .. Len(messages') : i > Len(messages) => i = Len(messages) + 1
    BY <1>8, <2>5, MessagesAppend DEF row
  <2>8. MovesOnly(r)
    BY <1>5, <2>6 DEF MovesOnly
  <2>9. RequestOK(r)'
    BY <2>1, <2>2, <2>4, <2>5, <2>6, <2>7 DEF RequestOK
  <2>10. LogOK'
    <3>1. \A i \in 1 .. Len(messages') : i > Len(messages) => RowOK(i)'
      BY <2>4, <2>5, <2>6, <2>7 DEF RowOK
    <3> QED BY <2>7, <2>8, <2>9, <3>1, LogOKStep
  <2>11. TypeInv'
    BY <1>1, <2>7 DEF TypeInv, MessagesOf
  <2> QED BY <2>6, <2>7, <2>8, <2>10, <2>11, StableStep DEF Logs
<1> QED BY <1>1, <1>7, <1>8 DEF asked

\* A request moves and keeps its rows.
LEMMA RequestLogs ==
  ASSUME TypeInv, RequestsTyped, LogOK, NEW r \in Request,
         NEW H, NEW to \in RequestType(H), req' = [req EXCEPT ![r] = to],
         MessagesOf(r),
         req[r].own # 0 => to.own = req[r].own /\ to.session = req[r].session,
         req[r].msg # 0 => to.msg = req[r].msg,
         RequestOK(r)',
         \A i \in 1 .. Len(messages') : i > Len(messages) => RowOK(i)',
         owner' \in [Session -> User \union {None}],
         UNCHANGED <<ratings, gaps, call>>, faults' \in 0 .. MaxFaults
  PROVE  Logs(r)
<1>1. /\ req'[r] = to
      /\ \A q \in Request : q # r => req'[q] = req[q]
      /\ RequestsTyped'
  BY StepIs
<1>2. MovesOnly(r)
  BY <1>1 DEF MovesOnly
<1>3. LogOK'
  BY <1>2, LogOKStep
<1>4. TypeInv'
  BY DEF TypeInv, MessagesOf
<1> QED BY <1>1, <1>2, <1>3, <1>4, StableStep DEF Logs

\* As above, where no row is added and owners stay.
LEMMA RequestMoves ==
  ASSUME TypeInv, RequestsTyped, LogOK, NEW r \in Request,
         NEW H, NEW to \in RequestType(H), req' = [req EXCEPT ![r] = to],
         messages' = messages,
         to.own = req[r].own, to.session = req[r].session, to.msg = req[r].msg,
         RequestOK(r)',
         UNCHANGED <<owner, ratings, gaps, call>>, faults' \in 0 .. MaxFaults
  PROVE  Logs(r)
<1>1. MessagesOf(r)
  BY MessagesSame
<1>2. \A i \in 1 .. Len(messages') : ~(i > Len(messages))
  BY RowFacts
<1> QED BY <1>1, <1>2, RequestLogs DEF TypeInv

\* The request's own row changes state, its answer's row its text.
LEMMA StateSet ==
  ASSUME TypeInv, NEW r, NEW n \in 1 .. Len(messages), messages[n].ask = r,
         messages[n].state # "kept", NEW to \in {"open", "kept", "gone"},
         messages' = [messages EXCEPT ![n].state = to]
  PROVE  /\ MessagesOf(r) /\ Len(messages') = Len(messages)
         /\ messages'[n] = [messages[n] EXCEPT !.state = to]
<1> DEFINE row == [messages[n] EXCEPT !.state = to]
<1>1. messages[n] \in MessageRow /\ DOMAIN messages = 1 .. Len(messages)
  BY RowFacts
<1>2. row \in MessageRow /\ row.role = messages[n].role
      /\ row.session = messages[n].session /\ row.ask = messages[n].ask
  BY <1>1 DEF MessageRow
<1>3. messages'[n] = row
  BY <1>1
<1>4. messages' = [messages EXCEPT ![n] = messages'[n]]
  BY <1>1, <1>3
<1> HIDE DEF row
<1>5. MessagesOf(r) /\ Len(messages') = Len(messages)
  BY <1>2, <1>3, <1>4, MessagesEdit
<1> QED BY <1>3, <1>5 DEF row

LEMMA TextSet ==
  ASSUME TypeInv, NEW r, NEW n \in 1 .. Len(messages), messages[n].ask = r,
         NEW k \in Nat, messages' = [messages EXCEPT ![n].text = k]
  PROVE  /\ MessagesOf(r) /\ Len(messages') = Len(messages)
         /\ messages'[n] = [messages[n] EXCEPT !.text = k]
<1> DEFINE row == [messages[n] EXCEPT !.text = k]
<1>1. messages[n] \in MessageRow /\ DOMAIN messages = 1 .. Len(messages)
  BY RowFacts
<1>2. row \in MessageRow /\ row.role = messages[n].role /\ row.state = messages[n].state
      /\ row.session = messages[n].session /\ row.ask = messages[n].ask
  BY <1>1 DEF MessageRow
<1>3. messages'[n] = row
  BY <1>1
<1>4. messages' = [messages EXCEPT ![n] = messages'[n]]
  BY <1>1, <1>3
<1> HIDE DEF row
<1>5. MessagesOf(r) /\ Len(messages') = Len(messages)
  BY <1>2, <1>3, <1>4, MessagesEdit
<1> QED BY <1>3, <1>5 DEF row

\* faults' after a fault, or none.
LEMMA FaultsBounded ==
  ASSUME TypeInv, Fault \/ UNCHANGED faults
  PROVE  faults' \in 0 .. MaxFaults
<1>1. MaxFaults \in Nat
  BY ChatAssumption
<1> QED BY <1>1 DEF TypeInv, Fault

LEMMA CommitLogLogs ==
  ASSUME TypeInv, RequestsTyped, LogOK, NEW r \in Request, CommitLog(r)
  PROVE  Logs(r)
<1> DEFINE to == [req[r] EXCEPT !.pc = IF req[r].kind = "search" THEN "ended" ELSE "logged"]
<1>1. PICK G : req[r] \in RequestType(G)
  BY DEF RequestsTyped
<1>2. /\ req[r].pc = "logging"
      /\ req' = [req EXCEPT ![r] = to]
      /\ messages' = [messages EXCEPT ![req[r].own].state = "kept"]
      /\ owner' = [owner EXCEPT ![req[r].session] = req[r].user]
      /\ UNCHANGED <<ratings, gaps, call, faults>>
  BY DEF CommitLog, Step
<1>3. /\ req[r].own # 0 /\ req[r].session \in Session
      /\ req[r].own \in 1 .. Len(messages)
      /\ messages[req[r].own].role = "user"
      /\ messages[req[r].own].ask = r
      /\ messages[req[r].own].session = req[r].session
      /\ messages[req[r].own].state = "open"
      /\ req[r].msg = 0 /\ req[r].sent = 0 /\ ~req[r].lost
  BY <1>2 DEF LogOK, RequestOK
<1>4. /\ to \in RequestType(G)
      /\ to.pc \in {"ended", "logged"}
      /\ to.own = req[r].own /\ to.session = req[r].session
      /\ to.msg = 0 /\ to.sent = 0 /\ ~to.lost
  BY <1>1, <1>3 DEF RequestType, Working, Over
<1> HIDE DEF to
<1>5. PICK n : n = req[r].own
  OBVIOUS
<1>6. /\ MessagesOf(r) /\ Len(messages') = Len(messages)
      /\ messages'[n] = [messages[n] EXCEPT !.state = "kept"]
  BY <1>2, <1>3, <1>5, StateSet
<1>7. req'[r] = to
  BY <1>1, <1>2, <1>4, StepIs
<1>8. /\ messages'[n].state = "kept" /\ messages'[n].role = "user"
      /\ messages'[n].ask = r /\ messages'[n].session = req[r].session
  BY <1>3, <1>5, <1>6, RowFacts DEF MessageRow, MessagesOf
<1>9. RequestOK(r)'
  BY <1>3, <1>4, <1>5, <1>6, <1>7, <1>8 DEF RequestOK
<1>10. owner' \in [Session -> User \union {None}]
  BY <1>2, <1>3, RequestFacts DEF TypeInv
<1>11. \A i \in 1 .. Len(messages') : ~(i > Len(messages))
  BY <1>6, RowFacts
<1>12. faults' \in 0 .. MaxFaults
  BY <1>2 DEF TypeInv
<1> QED BY <1>2, <1>3, <1>4, <1>6, <1>9, <1>10, <1>11, <1>12, RequestLogs

LEMMA RollbackLogLogs ==
  ASSUME TypeInv, RequestsTyped, LogOK, NEW r \in Request, RollbackLog(r)
  PROVE  Logs(r)
<1> DEFINE to == [req[r] EXCEPT !.pc = "failed"]
<1>1. PICK G : req[r] \in RequestType(G)
  BY DEF RequestsTyped
<1>2. /\ req[r].pc = "logging"
      /\ req' = [req EXCEPT ![r] = to]
      /\ messages' = [messages EXCEPT ![req[r].own].state = "gone"]
      /\ UNCHANGED <<owner, ratings, gaps, call>>
      /\ faults' \in 0 .. MaxFaults
  BY FaultsBounded DEF RollbackLog, Step
<1>3. /\ req[r].own # 0 /\ req[r].session \in Session
      /\ req[r].own \in 1 .. Len(messages)
      /\ messages[req[r].own].role = "user"
      /\ messages[req[r].own].ask = r
      /\ messages[req[r].own].session = req[r].session
      /\ messages[req[r].own].state = "open"
      /\ req[r].msg = 0 /\ req[r].sent = 0 /\ ~req[r].lost
  BY <1>2 DEF LogOK, RequestOK
<1>4. /\ to \in RequestType(G)
      /\ to.pc = "failed"
      /\ to.own = req[r].own /\ to.session = req[r].session
      /\ to.msg = 0 /\ to.sent = 0 /\ ~to.lost
  BY <1>1, <1>3 DEF RequestType, Over
<1> HIDE DEF to
<1>5. PICK n : n = req[r].own
  OBVIOUS
<1>6. /\ MessagesOf(r) /\ Len(messages') = Len(messages)
  BY <1>2, <1>3, <1>5, StateSet
<1>7. req'[r] = to
  BY <1>1, <1>2, <1>4, StepIs
<1>8. /\ messages'[n].role = "user"
      /\ messages'[n].ask = r /\ messages'[n].session = req[r].session
  BY <1>3, <1>5, <1>6 DEF MessagesOf
<1>9. RequestOK(r)'
  BY <1>3, <1>4, <1>5, <1>6, <1>7, <1>8 DEF RequestOK
<1>10. owner' \in [Session -> User \union {None}]
  BY <1>2 DEF TypeInv
<1>11. \A i \in 1 .. Len(messages') : ~(i > Len(messages))
  BY <1>6, RowFacts
<1> QED BY <1>2, <1>3, <1>4, <1>6, <1>9, <1>10, <1>11, RequestLogs

LEMMA FailLogs ==
  ASSUME TypeInv, RequestsTyped, LogOK, NEW r \in Request, Fail(r)
  PROVE  Logs(r)
<1> DEFINE to == [req[r] EXCEPT !.pc = "failed"]
<1>1. PICK G : req \in [Request -> RequestType(G)]
  BY DEF RequestsTyped
<1>2. /\ req[r].pc \in {"logged", "prepared"}
      /\ req' = [req EXCEPT ![r] = to]
      /\ UNCHANGED <<messages, owner, ratings, gaps, call>>
      /\ faults' \in 0 .. MaxFaults
  BY <1>1, FaultsBounded DEF Fail
<1>3. /\ to \in RequestType(G)
      /\ to.pc = "failed"
      /\ to.own = req[r].own /\ to.session = req[r].session
      /\ to.msg = req[r].msg /\ to.sent = req[r].sent /\ to.lost = req[r].lost
  BY <1>1 DEF RequestType, Over
<1> HIDE DEF to
<1>4. req'[r] = to
  BY <1>2, <1>3, StepIs
<1>5. RequestOK(r)'
  BY <1>2, <1>3, <1>4 DEF LogOK, RequestOK
<1> QED BY <1>2, <1>3, <1>5, RequestMoves

LEMMA ReadHistoryLogs ==
  ASSUME TypeInv, RequestsTyped, LogOK, NEW r \in Request, ReadHistory(r)
  PROVE  Logs(r)
<1>1. PICK G : req[r] \in RequestType(G)
  BY DEF RequestsTyped
<1>2. PICK h : /\ req[r].pc = "logged"
               /\ req' = [req EXCEPT ![r] = [req[r] EXCEPT !.pc = "prepared", !.hist = h]]
               /\ UNCHANGED <<messages, owner, ratings, gaps, call>>
               /\ faults' \in 0 .. MaxFaults
  BY FaultsBounded DEF ReadHistory, Step
<1> DEFINE to == [req[r] EXCEPT !.pc = "prepared", !.hist = h]
<1>3. /\ to \in RequestType(G \union {h})
      /\ to.pc = "prepared"
      /\ to.own = req[r].own /\ to.session = req[r].session
      /\ to.msg = req[r].msg /\ to.sent = req[r].sent /\ to.lost = req[r].lost
  BY <1>1 DEF RequestType, Working
<1>4. req' = [req EXCEPT ![r] = to]
  BY <1>2
<1> HIDE DEF to
<1>5. req'[r] = to
  BY <1>3, <1>4, StepIs
<1>6. RequestOK(r)'
  BY <1>2, <1>3, <1>5 DEF LogOK, RequestOK
<1> QED BY <1>2, <1>3, <1>4, <1>6, RequestMoves

LEMMA AnswerLogs ==
  ASSUME TypeInv, RequestsTyped, LogOK, NEW r \in Request, Answer(r)
  PROVE  Logs(r)
<1>1. PICK n \in AnswerSizes, g \in BOOLEAN :
        /\ Step(r, "prepared", [req[r] EXCEPT !.pc = "rowed", !.sent = n, !.gap = g,
                                              !.msg = Len(messages) + 1, !.lost = FALSE])
        /\ messages' = Append(messages, Row(req[r].session, "assistant", r, n, "kept"))
        /\ UNCHANGED <<owner, ratings, gaps, call, faults>>
  BY DEF Answer, Answered
<1> DEFINE to == [req[r] EXCEPT !.pc = "rowed", !.sent = n, !.gap = g,
                                !.msg = Len(messages) + 1, !.lost = FALSE]
           row == Row(req[r].session, "assistant", r, n, "kept")
<1>2. PICK G : req[r] \in RequestType(G)
  BY DEF RequestsTyped
<1>3. /\ req[r].pc = "prepared" /\ req' = [req EXCEPT ![r] = to]
      /\ n \in Nat /\ Len(messages) + 1 \in Nat /\ Len(messages) + 1 # 0
  BY <1>1, RowFacts, ChatAssumption DEF Step
<1>4. /\ req[r].own # 0 /\ req[r].session \in Session
      /\ req[r].own \in 1 .. Len(messages)
      /\ messages[req[r].own].role = "user"
      /\ messages[req[r].own].ask = r
      /\ messages[req[r].own].session = req[r].session
      /\ messages[req[r].own].state = "kept"
      /\ req[r].msg = 0
  BY <1>3 DEF LogOK, RequestOK
<1>5. to \in RequestType(G)
  BY <1>2, <1>3 DEF RequestType, Working
<1>6. /\ to.pc = "rowed" /\ to.sent = n /\ ~to.lost /\ to.msg = Len(messages) + 1
      /\ to.own = req[r].own /\ to.session = req[r].session
  BY <1>2 DEF RequestType
<1>7. /\ row \in MessageRow
      /\ row.role = "assistant" /\ row.ask = r /\ row.session = req[r].session
      /\ row.text = n
  BY <1>3, <1>4 DEF Row, MessageRow
<1>8. messages' = Append(messages, row)
  BY <1>1
<1> HIDE DEF to, row
<1>9. req'[r] = to
  BY <1>3, <1>5, StepIs
<1>10. /\ MessagesOf(r)
       /\ Len(messages') = Len(messages) + 1
       /\ messages'[Len(messages) + 1] = row
       /\ \A i \in 1 .. Len(messages) : messages'[i] = messages[i]
       /\ \A i \in 1 .. Len(messages') : i > Len(messages) => i = Len(messages) + 1
  BY <1>7, <1>8, MessagesAppend
<1>11. messages'[req[r].own] = messages[req[r].own]
  BY <1>4, <1>10
<1>12. req[r].own < Len(messages) + 1 /\ req[r].own \in 1 .. Len(messages')
       /\ Len(messages) + 1 \in 1 .. Len(messages')
  BY <1>3, <1>4, <1>10
<1>13. RequestOK(r)'
  BY <1>3, <1>4, <1>6, <1>7, <1>9, <1>10, <1>11, <1>12 DEF RequestOK
<1>14. \A i \in 1 .. Len(messages') : i > Len(messages) => RowOK(i)'
  BY <1>6, <1>7, <1>9, <1>10 DEF RowOK
<1> QED BY <1>1, <1>3, <1>4, <1>5, <1>6, <1>10, <1>13, <1>14, RequestLogs DEF TypeInv

LEMMA AnswerLostLogs ==
  ASSUME TypeInv, RequestsTyped, LogOK, NEW r \in Request, AnswerLost(r)
  PROVE  Logs(r)
<1>1. PICK n \in AnswerSizes, g \in BOOLEAN :
        /\ Step(r, "prepared", [req[r] EXCEPT !.pc = "rowed", !.sent = n, !.gap = g,
                                              !.msg = 0, !.lost = TRUE])
        /\ messages' = messages
        /\ UNCHANGED <<owner, ratings, gaps, call>>
  BY DEF AnswerLost, Answered
<1> DEFINE to == [req[r] EXCEPT !.pc = "rowed", !.sent = n, !.gap = g,
                                !.msg = 0, !.lost = TRUE]
<1>2. PICK G : req[r] \in RequestType(G)
  BY DEF RequestsTyped
<1>3. req[r].pc = "prepared" /\ req' = [req EXCEPT ![r] = to]
  BY <1>1 DEF Step
<1>4. req[r].msg = 0
  BY <1>3 DEF LogOK, RequestOK
<1>5. to \in RequestType(G)
  BY <1>2 DEF RequestType, Working
<1>6. /\ to.pc = "rowed" /\ to.msg = 0
      /\ to.own = req[r].own /\ to.session = req[r].session
  BY <1>2 DEF RequestType
<1> HIDE DEF to
<1>7. req'[r] = to
  BY <1>3, <1>5, StepIs
<1>8. RequestOK(r)'
  BY <1>1, <1>3, <1>6, <1>7 DEF LogOK, RequestOK
<1>9. faults' \in 0 .. MaxFaults
  BY FaultsBounded DEF AnswerLost
<1> QED BY <1>1, <1>3, <1>4, <1>5, <1>6, <1>8, <1>9, RequestMoves

LEMMA OpenStreamLogs ==
  ASSUME TypeInv, RequestsTyped, LogOK, NEW r \in Request, OpenStream(r)
  PROVE  Logs(r)
<1> DEFINE to == [req[r] EXCEPT !.pc = "streaming", !.msg = Len(messages) + 1]
           row == Row(req[r].session, "assistant", r, 0, "kept")
<1>1. PICK G : req[r] \in RequestType(G)
  BY DEF RequestsTyped
<1>2. /\ req[r].pc = "prepared" /\ req' = [req EXCEPT ![r] = to]
      /\ messages' = Append(messages, row)
      /\ UNCHANGED <<owner, ratings, gaps, call, faults>>
  BY DEF OpenStream, Step
<1>3. Len(messages) + 1 \in Nat /\ Len(messages) + 1 # 0
  BY RowFacts
<1>4. /\ req[r].own # 0 /\ req[r].session \in Session
      /\ req[r].own \in 1 .. Len(messages)
      /\ messages[req[r].own].role = "user"
      /\ messages[req[r].own].ask = r
      /\ messages[req[r].own].session = req[r].session
      /\ messages[req[r].own].state = "kept"
      /\ req[r].msg = 0 /\ req[r].sent = 0
  BY <1>2 DEF LogOK, RequestOK
<1>5. to \in RequestType(G)
  BY <1>1, <1>3 DEF RequestType, Working
<1>6. /\ to.pc = "streaming" /\ to.sent = 0 /\ to.msg = Len(messages) + 1
      /\ to.own = req[r].own /\ to.session = req[r].session
  BY <1>1, <1>4 DEF RequestType
<1>7. /\ row \in MessageRow
      /\ row.role = "assistant" /\ row.ask = r /\ row.session = req[r].session
      /\ row.text = 0
  BY <1>4 DEF Row, MessageRow
<1> HIDE DEF to, row
<1>8. req'[r] = to
  BY <1>2, <1>5, StepIs
<1>9. /\ MessagesOf(r)
      /\ Len(messages') = Len(messages) + 1
      /\ messages'[Len(messages) + 1] = row
      /\ \A i \in 1 .. Len(messages) : messages'[i] = messages[i]
      /\ \A i \in 1 .. Len(messages') : i > Len(messages) => i = Len(messages) + 1
  BY <1>2, <1>7, MessagesAppend
<1>10. messages'[req[r].own] = messages[req[r].own]
  BY <1>4, <1>9
<1>11. req[r].own < Len(messages) + 1 /\ req[r].own \in 1 .. Len(messages')
       /\ Len(messages) + 1 \in 1 .. Len(messages')
  BY <1>3, <1>4, <1>9
<1>12. RequestOK(r)'
  BY <1>3, <1>4, <1>6, <1>7, <1>8, <1>9, <1>10, <1>11 DEF RequestOK
<1>13. \A i \in 1 .. Len(messages') : i > Len(messages) => RowOK(i)'
  BY <1>6, <1>7, <1>8, <1>9 DEF RowOK
<1> QED BY <1>2, <1>4, <1>5, <1>6, <1>9, <1>12, <1>13, RequestLogs DEF TypeInv

LEMMA TokenLogs ==
  ASSUME TypeInv, RequestsTyped, LogOK, NEW r \in Request, Token(r)
  PROVE  Logs(r)
<1> DEFINE to == [req[r] EXCEPT !.sent = @ + 1]
<1>1. PICK G : req[r] \in RequestType(G)
  BY DEF RequestsTyped
<1>2. /\ req[r].pc = "streaming" /\ req[r].sent < MaxTokens
      /\ req' = [req EXCEPT ![r] = to]
      /\ UNCHANGED <<messages, owner, ratings, gaps, call, faults>>
  BY DEF Token, Step
<1>3. req[r].sent + 1 \in 0 .. MaxTokens
  BY <1>2, RequestFacts, ChatAssumption
<1>4. /\ to \in RequestType(G) /\ to.pc = "streaming"
      /\ to.own = req[r].own /\ to.session = req[r].session /\ to.msg = req[r].msg
  BY <1>1, <1>2, <1>3 DEF RequestType, Working
<1> HIDE DEF to
<1>5. req'[r] = to
  BY <1>2, <1>4, StepIs
<1>6. RequestOK(r)'
  BY <1>2, <1>4, <1>5 DEF LogOK, RequestOK
<1> QED BY <1>2, <1>4, <1>6, RequestMoves DEF TypeInv

\* The stream's end writes its row, or fails to.
LEMMA ClosedLogs ==
  ASSUME TypeInv, RequestsTyped, LogOK, NEW r \in Request, NEW lost \in BOOLEAN,
         Closed(r, lost), faults' \in 0 .. MaxFaults
  PROVE  Logs(r)
<1>1. PICK g \in BOOLEAN :
        Step(r, "streaming", [req[r] EXCEPT !.pc = "rowed", !.gap = g, !.lost = lost])
  BY DEF Closed
<1> DEFINE to == [req[r] EXCEPT !.pc = "rowed", !.gap = g, !.lost = lost]
<1>2. PICK G : req[r] \in RequestType(G)
  BY DEF RequestsTyped
<1>3. /\ req[r].pc = "streaming" /\ req' = [req EXCEPT ![r] = to]
      /\ UNCHANGED <<owner, ratings, gaps, call>>
      /\ req[r].sent \in Nat
  BY <1>1, RequestFacts DEF Step, Closed
<1>4. to \in RequestType(G)
  BY <1>2 DEF RequestType, Working
<1>5. /\ to.pc = "rowed" /\ to.lost = lost /\ to.sent = req[r].sent
      /\ to.own = req[r].own /\ to.session = req[r].session /\ to.msg = req[r].msg
  BY <1>2 DEF RequestType
<1> HIDE DEF to
<1>6. req'[r] = to
  BY <1>3, <1>4, StepIs
<1>7. /\ req[r].own # 0 /\ req[r].session \in Session
      /\ req[r].own \in 1 .. Len(messages)
      /\ messages[req[r].own].role = "user"
      /\ messages[req[r].own].ask = r
      /\ messages[req[r].own].session = req[r].session
      /\ messages[req[r].own].state = "kept"
      /\ req[r].msg # 0
      /\ req[r].msg \in 1 .. Len(messages)
      /\ messages[req[r].msg].role = "assistant"
      /\ messages[req[r].msg].ask = r
      /\ messages[req[r].msg].session = req[r].session
      /\ messages[req[r].msg].text = 0
      /\ req[r].own < req[r].msg
  BY <1>3 DEF LogOK, RequestOK
<1>8. PICK n, k, o : n = req[r].msg /\ k = req[r].sent /\ o = req[r].own
  OBVIOUS
<1>9. /\ req'[r].pc = "rowed" /\ req'[r].msg = n /\ req'[r].own = o /\ req'[r].sent = k
      /\ req'[r].session = req[r].session /\ req'[r].lost = lost
  BY <1>5, <1>6, <1>8
<1>10. CASE lost
  <2>1. messages' = messages
    BY <1>10 DEF Closed
  <2>2. req'[r].lost
    BY <1>9, <1>10
  <2>3. RequestOK(r)'
    BY <1>7, <1>8, <1>9, <2>1, <2>2 DEF RequestOK
  <2> QED BY <1>3, <1>4, <1>5, <2>1, <2>3, RequestMoves
<1>11. CASE ~lost
  <2>1. /\ n \in 1 .. Len(messages) /\ messages[n].ask = r /\ k \in Nat
        /\ messages' = [messages EXCEPT ![n].text = k]
    BY <1>3, <1>7, <1>8, <1>11 DEF Closed
  <2>2. /\ MessagesOf(r) /\ Len(messages') = Len(messages)
        /\ messages'[n] = [messages[n] EXCEPT !.text = k]
    <3>1. n \in 1 .. Len(messages) /\ messages[n].ask = r /\ k \in Nat
      BY <2>1
    <3>2. messages' = [messages EXCEPT ![n].text = k]
      BY <2>1
    <3>3. MessagesOf(r)
      BY <3>1, <3>2, TextSet, Zenon
    <3>4. Len(messages') = Len(messages)
      BY <3>1, <3>2, TextSet, Zenon
    <3>5. messages'[n] = [messages[n] EXCEPT !.text = k]
      BY <3>1, <3>2, RowFacts
    <3> QED BY <3>3, <3>4, <3>5
  <2>3. messages'[n].text = k
    BY <2>1, <2>2, RowFacts DEF MessageRow
  <2>4. \A i \in {n, o} :
          /\ messages'[i].role = messages[i].role
          /\ messages'[i].session = messages[i].session
          /\ messages'[i].ask = messages[i].ask
          /\ messages[i].state = "kept" => messages'[i].state = "kept"
    BY <1>7, <1>8, <2>2 DEF MessagesOf
  <2>5. RequestOK(r)'
    BY <1>7, <1>8, <1>9, <2>2, <2>3, <2>4 DEF RequestOK
  <2>6. \A i \in 1 .. Len(messages') : ~(i > Len(messages))
    BY <2>2, RowFacts
  <2> QED BY <1>3, <1>4, <1>5, <2>2, <2>5, <2>6, RequestLogs DEF TypeInv
<1> QED BY <1>10, <1>11

LEMMA CloseLogs ==
  ASSUME TypeInv, RequestsTyped, LogOK, NEW r \in Request, Close(r) \/ CloseLost(r)
  PROVE  Logs(r)
<1>1. PICK lost \in BOOLEAN : Closed(r, lost)
  BY DEF Close, CloseLost
<1>2. faults' \in 0 .. MaxFaults
  BY FaultsBounded DEF Close, CloseLost
<1> QED BY <1>1, <1>2, ClosedLogs

\* The last step of a request: its gap is recorded, or lost.
LEMMA RowedEnds ==
  ASSUME TypeInv, RequestsTyped, LogOK, NEW r \in Request, RecordGap(r) \/ GapLost(r)
  PROVE  RequestsTyped' /\ LogOK' /\ Stable
<1> DEFINE to == [req[r] EXCEPT !.pc = "ended"]
<1>1. PICK G : req[r] \in RequestType(G)
  BY DEF RequestsTyped
<1>2. /\ req[r].pc = "rowed" /\ req' = [req EXCEPT ![r] = to]
      /\ messages' = messages
  BY DEF RecordGap, GapLost, Step
<1>3. /\ to \in RequestType(G) /\ to.pc = "ended"
      /\ to.own = req[r].own /\ to.session = req[r].session
      /\ to.msg = req[r].msg /\ to.sent = req[r].sent /\ to.lost = req[r].lost
  BY <1>1 DEF RequestType, Over
<1> HIDE DEF to
<1>4. /\ req'[r] = to
      /\ \A q \in Request : q # r => req'[q] = req[q]
      /\ RequestsTyped'
  BY <1>2, <1>3, StepIs
<1>5. MovesOnly(r) /\ MessagesOf(r)
  BY <1>2, <1>3, <1>4, MessagesSame DEF MovesOnly
<1>6. RequestOK(r)'
  BY <1>2, <1>3, <1>4 DEF LogOK, RequestOK
<1>7. LogOK'
  BY <1>2, <1>5, <1>6, LogOKStep, RowFacts
<1> QED BY <1>4, <1>5, <1>7, StableStep

\* Every step of a request but the last.
LEMMA RequestStepLogs ==
  ASSUME TypeInv, RequestsTyped, LogOK, NEW r \in Request,
         Ask(r) \/ RequestStep(r) \/ Token(r) \/ RequestFault(r),
         ~RecordGap(r), ~GapLost(r)
  PROVE  Logs(r)
  BY AskLogs, CommitLogLogs, ReadHistoryLogs, AnswerLogs, OpenStreamLogs, CloseLogs,
     TokenLogs, RollbackLogLogs, FailLogs, AnswerLostLogs DEF RequestStep, RequestFault

-----------------------------------------------------------------------------
(* What steps leave of the ratings *)

\* Gaps stay, and stay flagged; ratings stay.
GapsGrow ==
  /\ gaps' \in Seq(GapType) /\ Len(gaps) <= Len(gaps')
  /\ \A g \in 1 .. Len(gaps) :
       /\ gaps'[g].message = gaps[g].message
       /\ gaps'[g].ask = gaps[g].ask
       /\ gaps'[g].by = gaps[g].by
       /\ gaps[g].flagged => gaps'[g].flagged

RatingsGrow == ratings' \in Seq(RatingType) /\ Len(ratings) <= Len(ratings')

LEMMA GapFacts ==
  ASSUME TypeInv
  PROVE  /\ Len(gaps) \in Nat /\ DOMAIN gaps = 1 .. Len(gaps)
         /\ \A g \in 1 .. Len(gaps) : gaps[g] \in GapType
         /\ Len(ratings) \in Nat /\ DOMAIN ratings = 1 .. Len(ratings)
         /\ \A i \in 1 .. Len(ratings) : ratings[i] \in RatingType
  BY DEF TypeInv

LEMMA GrowsSame ==
  ASSUME TypeInv
  PROVE  /\ gaps' = gaps => GapsGrow
         /\ ratings' = ratings => RatingsGrow
  BY GapFacts DEF TypeInv, GapsGrow, RatingsGrow

LEMMA StableSame ==
  ASSUME TypeInv, UNCHANGED <<messages, req>>
  PROVE  Stable
  BY RowFacts DEF Stable

LEMMA AnswerFacts ==
  ASSUME TypeInv, RequestsTyped, LogOK, NEW m, IsAnswer(m)
  PROVE  /\ m \in Nat /\ messages[m].session \in Session
         /\ messages[m].ask \in Request
         /\ req[messages[m].ask].own \in 1 .. Len(messages)
         /\ req[messages[m].ask].own < m
         /\ messages[req[messages[m].ask].own].role = "user"
         /\ messages[req[messages[m].ask].own].state = "kept"
         /\ messages[req[messages[m].ask].own].ask = messages[m].ask
         /\ messages[req[messages[m].ask].own].session = messages[m].session
<1>1. m \in 1 .. Len(messages) /\ messages[m].role = "assistant" /\ m # 0 /\ m \in Nat
  BY RowFacts DEF IsAnswer
<1>2. messages[m].session \in Session /\ messages[m].ask \in Request
  BY <1>1, RowFacts DEF MessageRow
<1>3. PICK r \in Request : r = messages[m].ask
  BY <1>2
<1>4. req[r].msg = m
  BY <1>1, <1>3 DEF LogOK, RowOK
<1>5. RequestOK(r)
  BY DEF LogOK
<1> QED BY <1>1, <1>2, <1>3, <1>4, <1>5 DEF RequestOK

LEMMA AnswerKept ==
  ASSUME TypeInv, RequestsTyped, LogOK, Stable, NEW m, IsAnswer(m)
  PROVE  /\ IsAnswer(m)'
         /\ messages'[m].ask = messages[m].ask
         /\ \A named : Names(named, m) => Names(named, m)'
<1>1. /\ IsAnswer(m)' /\ messages'[m].ask = messages[m].ask
      /\ messages'[m].session = messages[m].session
  BY RowFacts DEF IsAnswer, Stable
<1>2. PICK r \in Request : r = messages[m].ask
  BY AnswerFacts
<1>3. req[r].own \in Nat /\ req[r].own # 0 /\ req'[r].own = req[r].own
  BY <1>2, AnswerFacts, RequestFacts DEF Stable
<1>4. ASSUME NEW named \in Request, req[r].own < req[named].own
      PROVE  req'[named].own = req[named].own /\ req'[named].session = req[named].session
  <2>1. req[named].own # 0
    BY <1>3, <1>4, RequestFacts
  <2> QED BY <2>1 DEF Stable
<1> QED BY <1>1, <1>2, <1>3, <1>4 DEF Names

LEMMA GapKept ==
  ASSUME TypeInv, RequestsTyped, LogOK, Stable, GapsGrow,
         NEW g \in 1 .. Len(gaps), GapOK(g),
         gaps[g].by # None => call'[gaps[g].by] = call[gaps[g].by]
  PROVE  GapOK(g)'
<1>1. gaps'[g].message = gaps[g].message /\ gaps'[g].ask = gaps[g].ask
      /\ gaps'[g].by = gaps[g].by
  BY DEF GapsGrow
<1>2. PICK m, a : m = gaps[g].message /\ a = gaps[g].ask
  OBVIOUS
<1>3. m # 0 => /\ IsAnswer(m)' /\ messages'[m].ask = messages[m].ask
               /\ Names(a, m) => Names(a, m)'
  <2>1. ASSUME m # 0 PROVE IsAnswer(m)
    BY <1>2, <2>1 DEF GapOK
  <2> QED BY <2>1, AnswerKept
<1>4. m # 0 => /\ IsAnswer(m)'
               /\ a = messages'[m].ask \/ (gaps[g].by # None /\ Names(a, m)')
  BY <1>2, <1>3 DEF GapOK
<1>5. gaps[g].by # None =>
        call'[gaps'[g].by].pc = "ended" /\ ~call'[gaps'[g].by].known
  BY <1>1 DEF GapOK
<1> QED BY <1>1, <1>2, <1>4, <1>5 DEF GapOK

LEMMA CallKept ==
  ASSUME TypeInv, RequestsTyped, LogOK, Stable, GapsGrow, RatingsGrow,
         NEW c \in Call, CallOK(c), call'[c] = call[c]
  PROVE  CallOK(c)'
<1>1. PICK m, a : m = call[c].message /\ a = call[c].ask
  OBVIOUS
<1>2. m # 0 => /\ IsAnswer(m)'
               /\ Names(a, m) => Names(a, m)'
  <2>1. ASSUME m # 0 PROVE IsAnswer(m)
    BY <1>1, <2>1 DEF CallOK
  <2> QED BY <2>1, AnswerKept
<1>3. /\ Len(gaps) \in Nat /\ DOMAIN gaps = 1 .. Len(gaps) /\ Len(ratings) \in Nat
      /\ Len(gaps') \in Nat /\ DOMAIN gaps' = 1 .. Len(gaps') /\ Len(ratings') \in Nat
  BY GapFacts DEF GapsGrow, RatingsGrow
<1>4. \A g \in GapsOf(m) : g \in GapsOf(m)' /\ (gaps[g].flagged => gaps'[g].flagged)
  BY <1>3 DEF GapsOf, GapsGrow
<1>5. call'[c].row \in 0 .. Len(ratings') /\ call'[c].gap \in 0 .. Len(gaps')
  BY <1>3 DEF CallOK, GapsGrow, RatingsGrow
<1>6. call[c].gap # 0 => gaps'[call[c].gap].message = call[c].message
  <2>1. call[c].gap # 0 => call[c].gap \in 1 .. Len(gaps)
    BY <1>3 DEF CallOK
  <2> QED BY <2>1 DEF CallOK, GapsGrow
<1>7. call[c].pc \in {"read", "rated", "looked"} => m # 0
  BY <1>1 DEF CallOK
<1>8. call[c].pc = "looked" /\ call[c].gap = 0 =>
        ~call[c].known /\ Names(a, m)'
  BY <1>1, <1>2, <1>7 DEF CallOK
<1>9. call[c].pc \in {"rated", "looked"} /\ call[c].known => GapsOf(m)' # {}
  BY <1>1, <1>4 DEF CallOK
<1>10. call[c].pc = "ended" /\ call[c].op = "negative" /\ ~call[c].lost =>
         \E g \in GapsOf(m)' : gaps'[g].flagged
  BY <1>1, <1>4 DEF CallOK
<1>11. call[c].pc \in {"idle", "read", "rated"} => call[c].gap = 0
  BY DEF CallOK
<1>12. m # 0 => IsAnswer(m)'
  BY <1>2
<1>13. call'[c].message = m /\ call'[c].ask = a
  BY <1>1
<1> QED BY <1>1, <1>5, <1>6, <1>7, <1>8, <1>9, <1>10, <1>11, <1>12, <1>13 DEF CallOK

\* Calls of C move, none of which had ended.
LEMMA RatingsStep ==
  ASSUME TypeInv, RequestsTyped, LogOK, RatingsOK, Stable, GapsGrow, RatingsGrow,
         NEW C \in SUBSET Call,
         \A c \in C : call[c].pc # "ended" /\ CallOK(c)',
         \A c \in Call \ C : call'[c] = call[c],
         \A g \in 1 .. Len(gaps') : g > Len(gaps) => GapOK(g)'
  PROVE  RatingsOK'
<1>1. ASSUME NEW c \in Call PROVE CallOK(c)'
  <2>1. CASE c \in C
    BY <2>1
  <2>2. CASE c \notin C
    BY <2>2, CallKept DEF RatingsOK
  <2> QED BY <2>1, <2>2
<1>2. ASSUME NEW g \in 1 .. Len(gaps) PROVE GapOK(g)'
  <2>1. GapOK(g) /\ gaps[g] \in GapType
    BY GapFacts DEF RatingsOK
  <2>2. gaps[g].by # None => gaps[g].by \in Call \ C
    BY <2>1 DEF GapOK, GapType
  <2> QED BY <2>1, <2>2, GapKept
<1>3. \A g \in 1 .. Len(gaps') : g \in 1 .. Len(gaps) \/ g > Len(gaps)
  BY GapFacts DEF GapsGrow
<1> QED BY <1>1, <1>2, <1>3 DEF RatingsOK

-----------------------------------------------------------------------------
(* Steps of a call *)

LEMMA CallFacts ==
  ASSUME TypeInv, NEW c \in Call
  PROVE  /\ call[c] \in CallType
         /\ call[c].pc \in {"idle", "read", "rated", "looked"} \union Over
         /\ call[c].op \in Op /\ call[c].user \in User
         /\ call[c].message \in Nat /\ call[c].row \in Nat /\ call[c].gap \in Nat
         /\ call[c].ask \in Request \union {None}
         /\ call[c].known \in BOOLEAN /\ call[c].lost \in BOOLEAN
  BY DEF TypeInv, CallType

\* A call moves; of the conversations nothing changes.
LEMMA CallMoves ==
  ASSUME IInv, NEW c \in Call, call[c].pc # "ended",
         NEW to \in CallType, call' = [call EXCEPT ![c] = to],
         UNCHANGED <<messages, owner, req>>, faults' \in 0 .. MaxFaults,
         RatingsGrow, GapsGrow, CallOK(c)',
         \A g \in 1 .. Len(gaps') : g > Len(gaps) => GapOK(g)'
  PROVE  IInv'
<1>1. TypeInv /\ RequestsTyped /\ LogOK /\ RatingsOK
  BY DEF IInv
<1>2. TypeInv'
  BY <1>1 DEF TypeInv, RatingsGrow, GapsGrow
<1>3. RequestsTyped' /\ LogOK' /\ Stable
  BY <1>1, StableSame DEF RequestsTyped, LogOK, RequestOK, RowOK
<1>4. \A k \in Call \ {c} : call'[k] = call[k]
  BY <1>1 DEF TypeInv
<1>5. \A k \in {c} : call[k].pc # "ended" /\ CallOK(k)'
  OBVIOUS
<1>6. {c} \in SUBSET Call
  OBVIOUS
<1>7. RatingsOK'
  BY <1>1, <1>3, <1>4, <1>5, <1>6, RatingsStep
<1> QED BY <1>2, <1>3, <1>7 DEF IInv

\* No gap is added.
LEMMA NoNewGap ==
  ASSUME TypeInv, gaps' = gaps
  PROVE  GapsGrow /\ \A g \in 1 .. Len(gaps') : g > Len(gaps) => GapOK(g)'
  BY GrowsSame, GapFacts

LEMMA ReadRatingStep ==
  ASSUME IInv, NEW c \in Call, ReadRating(c)
  PROVE  IInv'
<1>1. TypeInv /\ RequestsTyped /\ LogOK /\ CallOK(c)
  BY DEF IInv, RatingsOK
<1>2. PICK o \in Op, i \in DOMAIN messages :
        LET u == call[c].user
            mine == RatingsOf(i, u)
            row == IF mine = {} THEN 0 ELSE Min(mine)
        IN  /\ messages[i].state = "kept" /\ messages[i].role = "assistant"
            /\ CallStep(c, "idle",
                 [call[c] EXCEPT
                    !.pc = IF u \notin Admins /\ owner[messages[i].session] # u THEN "refused"
                           ELSE IF o = "delete" /\ row = 0 THEN "ended" ELSE "read",
                    !.op = o, !.message = i, !.row = row])
  BY DEF ReadRating
<1> DEFINE u == call[c].user
           mine == RatingsOf(i, u)
           row == IF mine = {} THEN 0 ELSE Min(mine)
           next == IF u \notin Admins /\ owner[messages[i].session] # u THEN "refused"
                   ELSE IF o = "delete" /\ row = 0 THEN "ended" ELSE "read"
<1>3. row \in 0 .. Len(ratings)
  <2>1. mine \in SUBSET (1 .. Len(ratings)) /\ Len(ratings) \in Nat
    BY <1>1, GapFacts DEF RatingsOf
  <2>2. mine \in SUBSET Nat
    BY <2>1
  <2> HIDE DEF mine
  <2>3. mine # {} => Min(mine) \in mine
    BY <2>2, LeastOf
  <2>4. mine # {} => Min(mine) \in 0 .. Len(ratings)
    <3>1. SUFFICES ASSUME mine # {} PROVE Min(mine) \in 0 .. Len(ratings)
      OBVIOUS
    <3>2. PICK k \in mine : k = Min(mine)
      BY <2>3, <3>1
    <3>3. k \in 1 .. Len(ratings) /\ Len(ratings) \in Nat
      BY <2>1
    <3>4. k \in 0 .. Len(ratings)
      BY <3>3
    <3> QED BY <3>2, <3>4
  <2>5. mine = {} => 0 \in 0 .. Len(ratings)
    BY <2>1
  <2> QED BY <2>4, <2>5
<1>4. next \in {"refused", "ended", "read"} /\ (next = "ended" => o = "delete")
  OBVIOUS
<1>5. /\ call[c].pc = "idle"
      /\ call' = [call EXCEPT ![c] = [call[c] EXCEPT !.pc = next, !.op = o,
                                                     !.message = i, !.row = row]]
      /\ messages[i].role = "assistant"
  BY <1>2 DEF CallStep
<1> HIDE DEF row, next
<1> DEFINE to == [call[c] EXCEPT !.pc = next, !.op = o, !.message = i, !.row = row]
<1>6. i \in Nat /\ i # 0 /\ row \in Nat /\ IsAnswer(i)
  BY <1>1, <1>3, <1>5, RowFacts, GapFacts DEF IsAnswer
<1>7. to \in CallType
  BY <1>1, <1>4, <1>6, CallFacts DEF CallType, Over
<1>8. /\ to.pc = next /\ to.op = o /\ to.message = i /\ to.row = row
      /\ to.gap = 0
  BY <1>1, <1>5, CallFacts DEF CallType, CallOK
<1>9. call' = [call EXCEPT ![c] = to]
  BY <1>5
<1> HIDE DEF to
<1>10. call'[c] = to
  BY <1>1, <1>9 DEF TypeInv
<1>11. UNCHANGED <<messages, owner, req, ratings, gaps, faults>>
  BY DEF ReadRating
<1>12. Len(gaps) \in Nat
  BY <1>1, GapFacts
<1>13. CallOK(c)'
  BY <1>3, <1>4, <1>6, <1>8, <1>10, <1>11, <1>12 DEF CallOK, IsAnswer
<1> QED BY <1>1, <1>5, <1>7, <1>9, <1>11, <1>13, CallMoves, NoNewGap, GrowsSame DEF TypeInv

LEMMA RatingLostStep ==
  ASSUME IInv, NEW c \in Call, RatingLost(c)
  PROVE  IInv'
<1>1. TypeInv /\ RequestsTyped /\ LogOK /\ CallOK(c)
  BY DEF IInv, RatingsOK
<1> DEFINE to == [call[c] EXCEPT !.pc = "failed"]
<1>2. /\ call[c].pc = "read" /\ call' = [call EXCEPT ![c] = to]
      /\ UNCHANGED <<messages, owner, req, ratings, gaps>>
      /\ faults' \in 0 .. MaxFaults
  BY <1>1, FaultsBounded DEF RatingLost, CallStep
<1>3. /\ to \in CallType /\ to.pc = "failed"
      /\ to.message = call[c].message /\ to.row = call[c].row /\ to.gap = call[c].gap
  BY <1>1, CallFacts DEF CallType, Over
<1> HIDE DEF to
<1>4. call'[c] = to
  BY <1>1, <1>2 DEF TypeInv
<1>5. CallOK(c)'
  BY <1>1, <1>2, <1>3, <1>4 DEF CallOK, IsAnswer
<1> QED BY <1>1, <1>2, <1>3, <1>5, CallMoves, NoNewGap, GrowsSame

LEMMA FlagLostStep ==
  ASSUME IInv, NEW c \in Call, FlagLost(c)
  PROVE  IInv'
<1>1. TypeInv /\ RequestsTyped /\ LogOK /\ CallOK(c)
  BY DEF IInv, RatingsOK
<1> DEFINE to == [call[c] EXCEPT !.pc = "ended", !.lost = TRUE]
<1>2. /\ call[c].pc = "looked" /\ call' = [call EXCEPT ![c] = to]
      /\ UNCHANGED <<messages, owner, req, ratings, gaps>>
      /\ faults' \in 0 .. MaxFaults
  BY <1>1, FaultsBounded DEF FlagLost, CallStep
<1>3. /\ to \in CallType /\ to.pc = "ended" /\ to.lost
      /\ to.message = call[c].message /\ to.row = call[c].row /\ to.gap = call[c].gap
  BY <1>1, CallFacts DEF CallType, Over
<1> HIDE DEF to
<1>4. call'[c] = to
  BY <1>1, <1>2 DEF TypeInv
<1>5. CallOK(c)'
  BY <1>1, <1>2, <1>3, <1>4 DEF CallOK, IsAnswer
<1> QED BY <1>1, <1>2, <1>3, <1>5, CallMoves, NoNewGap, GrowsSame

LEMMA SeqSet ==
  ASSUME NEW S, NEW s \in Seq(S), NEW n, NEW x, n \in 1 .. Len(s) => x \in S
  PROVE  LET t == [s EXCEPT ![n] = x] IN t \in Seq(S) /\ Len(t) = Len(s)
<1> DEFINE t == [s EXCEPT ![n] = x]
<1>1. DOMAIN s = 1 .. Len(s) /\ Len(s) \in Nat /\ \A i \in 1 .. Len(s) : s[i] \in S
  OBVIOUS
<1>2. t \in [1 .. Len(s) -> S]
  BY <1>1
<1> HIDE DEF t
<1>3. t \in Seq(S) /\ Len(t) = Len(s)
  BY <1>1, <1>2
<1> QED BY <1>3 DEF t

LEMMA RatingsSet ==
  ASSUME TypeInv, NEW n, NEW x, n \in 1 .. Len(ratings) => x \in RatingType,
         ratings' = [ratings EXCEPT ![n] = x]
  PROVE  RatingsGrow
<1>1. ratings \in Seq(RatingType)
  BY DEF TypeInv
<1>2. ratings' \in Seq(RatingType) /\ Len(ratings') = Len(ratings)
  BY <1>1, SeqSet
<1> QED BY <1>2, GapFacts DEF RatingsGrow

LEMMA CommitRatingStep ==
  ASSUME IInv, NEW c \in Call, CommitRating(c)
  PROVE  IInv'
<1>1. TypeInv /\ RequestsTyped /\ LogOK /\ CallOK(c)
  BY DEF IInv, RatingsOK
<1> DEFINE me == call[c]
           stale == me.row # 0 /\ ~ratings[me.row].live
           next == IF stale /\ me.op # "delete" THEN "failed"
                   ELSE IF me.op = "negative" THEN "rated" ELSE "ended"
           known == GapsOf(me.message) # {}
           to == [me EXCEPT !.pc = next, !.known = known]
<1>2. /\ call[c].pc = "read" /\ call' = [call EXCEPT ![c] = to]
      /\ UNCHANGED <<messages, owner, req, gaps, faults>>
  BY DEF CommitRating, CallStep
<1>3. next \in {"failed", "rated", "ended"} /\ (next = "ended" => me.op # "negative")
  OBVIOUS
<1>4. RatingsGrow
  <2>1. PICK n, o : n = me.row /\ o = me.op
    OBVIOUS
  <2>2. n \in 0 .. Len(ratings) /\ o \in Op /\ Len(ratings) \in Nat
    BY <1>1, <2>1, CallFacts, GapFacts DEF CallOK
  <2> DEFINE row == [message |-> me.message, user |-> me.user, rating |-> o, live |-> TRUE]
  <2>3. row \in RatingType
    BY <1>1, <2>2, CallFacts DEF RatingType
  <2> HIDE DEF row
  <2>4. \/ ratings' = ratings
        \/ ratings' = [ratings EXCEPT ![n].live = FALSE]
        \/ n = 0 /\ ratings' = Append(ratings, row)
        \/ n # 0 /\ ratings' = [ratings EXCEPT ![n].rating = o]
    BY <2>1 DEF CommitRating, row
  <2>5. \A i \in 1 .. Len(ratings) :
          /\ [ratings[i] EXCEPT !.live = FALSE] \in RatingType
          /\ [ratings[i] EXCEPT !.rating = o] \in RatingType
    BY <1>1, <2>2, GapFacts DEF RatingType
  <2>6. CASE ratings' = ratings
    BY <1>1, <2>6, GrowsSame
  <2>7. CASE ratings' = [ratings EXCEPT ![n].live = FALSE]
    <3>1. PICK x : x = [ratings[n] EXCEPT !.live = FALSE]
      OBVIOUS
    <3>2. ratings' = [ratings EXCEPT ![n] = x] /\ (n \in 1 .. Len(ratings) => x \in RatingType)
      BY <2>5, <2>7, <3>1
    <3> QED BY <1>1, <3>2, RatingsSet
  <2>8. CASE ratings' = Append(ratings, row)
    BY <1>1, <2>2, <2>3, <2>8 DEF RatingsGrow, TypeInv
  <2>9. CASE n # 0 /\ ratings' = [ratings EXCEPT ![n].rating = o]
    <3>1. PICK x : x = [ratings[n] EXCEPT !.rating = o]
      OBVIOUS
    <3>2. ratings' = [ratings EXCEPT ![n] = x] /\ (n \in 1 .. Len(ratings) => x \in RatingType)
      BY <2>5, <2>9, <3>1
    <3> QED BY <1>1, <3>2, RatingsSet
  <2> QED BY <2>4, <2>6, <2>7, <2>8, <2>9
<1>5. known \in BOOLEAN
  OBVIOUS
<1> HIDE DEF next
<1>6. /\ to \in CallType /\ to.pc = next /\ to.known = known /\ to.op = me.op
      /\ to.message = call[c].message /\ to.row = call[c].row /\ to.gap = call[c].gap
  <2> HIDE DEF known
  <2> QED BY <1>1, <1>3, <1>5, CallFacts DEF CallType, Over
<1> HIDE DEF to
<1>7. call'[c] = to
  BY <1>1, <1>2 DEF TypeInv
<1>8. call'[c].row \in 0 .. Len(ratings')
  BY <1>1, <1>4, <1>6, <1>7, GapFacts DEF CallOK, RatingsGrow
<1>9. GapsOf(me.message)' = GapsOf(me.message)
  <2>1. PICK m : m = me.message /\ m = call'[c].message
    BY <1>6, <1>7
  <2> QED BY <1>2, <2>1 DEF GapsOf
<1>10. call'[c].known => GapsOf(call'[c].message) # {}
  BY <1>6, <1>7
<1>11. CallOK(c)'
  <2>1. PICK m : m = call[c].message
    OBVIOUS
  <2>2. call'[c].known => GapsOf(m)' # {}
    BY <1>2, <1>10, <1>6, <1>7, <2>1 DEF GapsOf
  <2>3. call'[c].pc = next /\ call'[c].message = m /\ call'[c].gap = 0
        /\ call'[c].op = me.op /\ m # 0 /\ Len(gaps) \in Nat
    BY <1>1, <1>2, <1>6, <1>7, <2>1, GapFacts DEF CallOK
  <2>4. IsAnswer(m)'
    BY <1>1, <1>2, <2>1, <2>3 DEF CallOK, IsAnswer
  <2> QED BY <1>2, <1>3, <1>8, <2>2, <2>3, <2>4 DEF CallOK
<1>12. faults' \in 0 .. MaxFaults
  BY <1>1, <1>2 DEF TypeInv
<1> QED BY <1>1, <1>2, <1>4, <1>6, <1>11, <1>12, CallMoves, NoNewGap

\* The question a rating is filed under.
LEMMA PrecedingNames ==
  ASSUME TypeInv, RequestsTyped, LogOK, NEW m, IsAnswer(m)
  PROVE  Names(PrecedingQuestion(m), m)
<1> DEFINE earlier == {i \in Kept("user", messages[m].session) : i < m}
<1>1. PICK r \in Request : r = messages[m].ask
  BY AnswerFacts
<1>2. /\ m \in Nat /\ req[r].own \in earlier
      /\ req[r].own \in 1 .. Len(messages) /\ req[r].own < m
  BY <1>1, AnswerFacts, RowFacts DEF Kept
<1>3. earlier \in SUBSET (0 .. Len(messages))
  BY RowFacts DEF Kept
<1>4. PICK j \in earlier : j = Max(earlier) /\ \A y \in earlier : y <= j
  <2> HIDE DEF earlier
  <2> QED BY <1>2, <1>3, RowFacts, GreatestOf
<1>5. /\ j \in 1 .. Len(messages) /\ j < m /\ messages[j].role = "user"
      /\ messages[j].session = messages[m].session /\ j # 0
  BY RowFacts DEF Kept
<1>6. PICK q \in Request : q = messages[j].ask
  BY <1>5, RowFacts DEF MessageRow
<1>7. req[q].own = j
  BY <1>5, <1>6 DEF LogOK, RowOK
<1>8. req[q].session = messages[m].session
  BY <1>5, <1>7 DEF LogOK, RequestOK
<1>9. PrecedingQuestion(m) = q
  BY <1>2, <1>4, <1>6 DEF PrecedingQuestion
<1>10. req[r].own <= j
  BY <1>2, <1>4
<1>11. CASE req[r].own = j
  <2>1. messages[j].ask = r
    BY <1>2, <1>11 DEF LogOK, RequestOK
  <2> QED BY <1>1, <1>6, <1>9, <2>1 DEF Names
<1>12. CASE req[r].own # j
  <2>1. req[r].own < req[q].own /\ req[q].own < m
    BY <1>2, <1>5, <1>7, <1>10, <1>12
  <2> QED BY <1>1, <1>8, <1>9, <2>1 DEF Names
<1> QED BY <1>11, <1>12

LEMMA ReadGapStep ==
  ASSUME IInv, NEW c \in Call, ReadGap(c)
  PROVE  IInv'
<1>1. TypeInv /\ RequestsTyped /\ LogOK /\ CallOK(c)
  BY DEF IInv, RatingsOK
<1>2. PICK m, a : m = call[c].message /\ a = PrecedingQuestion(m)
  OBVIOUS
<1>3. PICK g \in IF GapsOf(m) = {} THEN {0} ELSE GapsOf(m) :
        CallStep(c, "rated", [call[c] EXCEPT !.pc = "looked", !.gap = g, !.ask = a])
  BY <1>2 DEF ReadGap
<1> DEFINE to == [call[c] EXCEPT !.pc = "looked", !.gap = g, !.ask = a]
<1>4. /\ call[c].pc = "rated" /\ call' = [call EXCEPT ![c] = to]
      /\ UNCHANGED <<messages, owner, req, ratings, gaps, faults>>
  BY <1>3 DEF ReadGap, CallStep
<1>5. /\ g \in 0 .. Len(gaps) /\ g \in Nat /\ (g # 0 => gaps[g].message = m)
      /\ (g = 0 => GapsOf(m) = {})
  BY <1>1, <1>3, GapFacts DEF GapsOf
<1>6. m # 0 /\ IsAnswer(m)
  BY <1>1, <1>2, <1>4 DEF CallOK
<1>7. Names(a, m)
  BY <1>1, <1>2, <1>6, PrecedingNames
<1>8. a \in Request \union {None}
  BY <1>1, <1>6, <1>7, AnswerFacts DEF Names
<1>9. /\ to \in CallType /\ to.pc = "looked" /\ to.gap = g /\ to.ask = a
      /\ to.known = call[c].known
      /\ to.message = m /\ to.row = call[c].row
  BY <1>1, <1>2, <1>5, <1>8, CallFacts DEF CallType
<1> HIDE DEF to
<1>10. call'[c] = to
  BY <1>1, <1>4 DEF TypeInv
<1>11. Names(a, m)' /\ IsAnswer(m)'
  BY <1>4, <1>6, <1>7 DEF Names, IsAnswer
<1>12. call[c].known => GapsOf(m) # {} /\ GapsOf(m)' # {}
  BY <1>1, <1>2, <1>4 DEF CallOK, GapsOf
<1>13. CallOK(c)'
  BY <1>1, <1>4, <1>5, <1>6, <1>9, <1>10, <1>11, <1>12 DEF CallOK
<1>14. faults' \in 0 .. MaxFaults
  BY <1>1, <1>4 DEF TypeInv
<1> QED BY <1>1, <1>4, <1>9, <1>13, <1>14, CallMoves, NoNewGap, GrowsSame

\* A gap is added.
LEMMA GapAdded ==
  ASSUME TypeInv, NEW gap \in GapType, gaps' = Append(gaps, gap)
  PROVE  /\ GapsGrow
         /\ Len(gaps') = Len(gaps) + 1 /\ gaps'[Len(gaps) + 1] = gap
         /\ DOMAIN gaps' = 1 .. Len(gaps')
         /\ \A g \in 1 .. Len(gaps') : g > Len(gaps) => g = Len(gaps) + 1
<1>1. /\ Len(gaps') = Len(gaps) + 1 /\ gaps'[Len(gaps) + 1] = gap
      /\ \A g \in 1 .. Len(gaps) : gaps'[g] = gaps[g]
      /\ gaps' \in Seq(GapType) /\ Len(gaps) \in Nat
  BY DEF TypeInv
<1> QED BY <1>1 DEF GapsGrow

\* A gap is flagged, or resolved.
LEMMA GapSet ==
  ASSUME TypeInv, NEW g \in 1 .. Len(gaps),
         gaps' = [gaps EXCEPT ![g].flagged = TRUE] \/ gaps' = [gaps EXCEPT ![g].open = FALSE]
  PROVE  /\ GapsGrow /\ Len(gaps') = Len(gaps)
         /\ gaps' = [gaps EXCEPT ![g].flagged = TRUE] => gaps'[g].flagged
<1>1. \A i \in 1 .. Len(gaps) :
        /\ [gaps[i] EXCEPT !.flagged = TRUE] \in GapType
        /\ [gaps[i] EXCEPT !.open = FALSE] \in GapType
  BY GapFacts DEF GapType
<1>2. gaps' \in Seq(GapType) /\ Len(gaps') = Len(gaps) /\ Len(gaps) \in Nat
  <2>1. PICK x \in GapType : gaps' = [gaps EXCEPT ![g] = x]
    BY <1>1
  <2> QED BY <2>1, SeqSet, GapFacts DEF TypeInv
<1>3. \A i \in 1 .. Len(gaps) :
        /\ gaps'[i].message = gaps[i].message
        /\ gaps'[i].ask = gaps[i].ask
        /\ gaps'[i].by = gaps[i].by
        /\ gaps[i].flagged => gaps'[i].flagged
  BY GapFacts DEF GapType
<1>4. gaps' = [gaps EXCEPT ![g].flagged = TRUE] => gaps'[g].flagged
  BY GapFacts DEF GapType
<1> QED BY <1>2, <1>3, <1>4 DEF GapsGrow

LEMMA CommitGapStep ==
  ASSUME IInv, NEW c \in Call, CommitGap(c)
  PROVE  IInv'
<1>1. TypeInv /\ RequestsTyped /\ LogOK /\ CallOK(c)
  BY DEF IInv, RatingsOK
<1> DEFINE to == [call[c] EXCEPT !.pc = "ended"]
<1>2. /\ call[c].pc = "looked" /\ call' = [call EXCEPT ![c] = to]
      /\ UNCHANGED <<messages, owner, req, ratings, faults>>
  BY DEF CommitGap, CallStep
<1>3. /\ to \in CallType /\ to.pc = "ended" /\ to.ask = call[c].ask
      /\ to.message = call[c].message /\ to.row = call[c].row /\ to.gap = call[c].gap
      /\ to.known = call[c].known
  BY <1>1, CallFacts DEF CallType, Over
<1> HIDE DEF to
<1>4. call'[c] = to
  BY <1>1, <1>2 DEF TypeInv
<1>5. PICK m, n, a : m = call[c].message /\ n = call[c].gap /\ a = call[c].ask
  OBVIOUS
<1>6. /\ m # 0 /\ m \in Nat /\ IsAnswer(m) /\ IsAnswer(m)'
      /\ n \in 0 .. Len(gaps) /\ (n # 0 => gaps[n].message = m)
      /\ n = 0 => ~call[c].known /\ Names(a, m)
      /\ a \in Request \union {None}
      /\ call[c].row \in 0 .. Len(ratings)
  BY <1>1, <1>2, <1>5, CallFacts DEF CallOK, IsAnswer
\* A gap of the answer is flagged once the step is done, and the call's own gap
\* is right.
<1>7. /\ GapsGrow /\ n \in 0 .. Len(gaps')
      /\ n # 0 => gaps'[n].message = m
      /\ \E g \in GapsOf(m)' : gaps'[g].flagged
      /\ \A g \in 1 .. Len(gaps') : g > Len(gaps) => GapOK(g)'
  <2>1. CASE n # 0
    <3>1. n \in 1 .. Len(gaps)
      BY <1>1, <1>6, <2>1, GapFacts
    <3>2. gaps' = [gaps EXCEPT ![n].flagged = TRUE]
      BY <1>5, <2>1 DEF CommitGap
    <3>3. GapsGrow /\ Len(gaps') = Len(gaps) /\ gaps'[n].flagged
      BY <1>1, <3>1, <3>2, GapSet
    <3>4. gaps'[n].message = m
      BY <1>6, <2>1, <3>1, <3>3 DEF GapsGrow
    <3>5. n \in GapsOf(m)'
      BY <3>1, <3>3, <3>4 DEF GapsOf, GapsGrow
    <3>6. \A g \in 1 .. Len(gaps') : ~(g > Len(gaps))
      BY <1>1, <3>3, GapFacts
    <3> QED BY <1>6, <3>3, <3>4, <3>5, <3>6
  <2>2. CASE n = 0
    <3> DEFINE gap == [message |-> m, ask |-> a, by |-> c, flagged |-> TRUE, open |-> TRUE]
               new == Len(gaps) + 1
    <3>1. gap \in GapType
      BY <1>6 DEF GapType
    <3>2. gaps' = Append(gaps, gap)
      BY <1>5, <2>2 DEF CommitGap
    <3>3. gap.message = m /\ gap.ask = a /\ gap.by = c /\ gap.flagged
      OBVIOUS
    <3> HIDE DEF gap
    <3>4. /\ GapsGrow /\ Len(gaps') = new /\ gaps'[new] = gap
          /\ DOMAIN gaps' = 1 .. Len(gaps')
          /\ \A g \in 1 .. Len(gaps') : g > Len(gaps) => g = new
      BY <1>1, <3>1, <3>2, GapAdded
    <3>5. new \in 1 .. Len(gaps') /\ 0 \in 0 .. Len(gaps')
      BY <1>1, <3>4, GapFacts
    <3>6. new \in GapsOf(m)'
      BY <3>3, <3>4, <3>5 DEF GapsOf
    <3>7. Names(a, m)'
      BY <1>2, <1>6, <2>2 DEF Names
    <3>8. call'[c].pc = "ended" /\ ~call'[c].known
      BY <1>3, <1>4, <1>6, <2>2
    <3>9. \A g \in 1 .. Len(gaps') : g > Len(gaps) => GapOK(g)'
      <4>1. PICK k : k = new
        OBVIOUS
      <4>2. gaps'[k].message = m /\ gaps'[k].ask = a /\ gaps'[k].by = c
        BY <3>3, <3>4, <4>1
      <4>3. c # None
        BY ChatAssumption
      <4>4. GapOK(k)'
        BY <1>6, <3>7, <3>8, <4>2, <4>3 DEF GapOK
      <4> QED BY <3>4, <4>1, <4>4
    <3> QED BY <2>2, <3>3, <3>4, <3>5, <3>6, <3>9
  <2> QED BY <2>1, <2>2
<1>8. CallOK(c)'
  BY <1>2, <1>3, <1>4, <1>5, <1>6, <1>7 DEF CallOK
<1>9. faults' \in 0 .. MaxFaults
  BY <1>1, <1>2 DEF TypeInv
<1> QED BY <1>1, <1>2, <1>3, <1>7, <1>8, <1>9, CallMoves, GrowsSame

-----------------------------------------------------------------------------
(* The other steps *)

\* A step in which no call moves.
LEMMA CallsKept ==
  ASSUME IInv, TypeInv', RequestsTyped', LogOK', Stable, GapsGrow,
         UNCHANGED <<ratings, call>>,
         \A g \in 1 .. Len(gaps') : g > Len(gaps) => GapOK(g)'
  PROVE  IInv'
<1>1. TypeInv /\ RequestsTyped /\ LogOK /\ RatingsOK
  BY DEF IInv
<1>2. {} \in SUBSET Call /\ RatingsGrow
  BY <1>1, GrowsSame
<1>3. RatingsOK'
  BY <1>1, <1>2, RatingsStep
<1> QED BY <1>3 DEF IInv

LEMMA RequestInv ==
  ASSUME IInv, NEW r \in Request,
         Ask(r) \/ RequestStep(r) \/ Token(r) \/ RequestFault(r)
  PROVE  IInv'
<1>1. TypeInv /\ RequestsTyped /\ LogOK /\ RatingsOK
  BY DEF IInv
<1>2. CASE ~RecordGap(r) /\ ~GapLost(r)
  <2>1. TypeInv' /\ RequestsTyped' /\ LogOK' /\ Stable
    BY <1>1, <1>2, RequestStepLogs DEF Logs
  <2>2. UNCHANGED <<ratings, gaps, call>>
    BY <1>2 DEF Ask, RequestStep, Token, RequestFault, CommitLog, ReadHistory, Answer,
                Answered, OpenStream, Close, Closed, RollbackLog, Fail, AnswerLost, CloseLost
  <2> QED BY <1>1, <2>1, <2>2, CallsKept, NoNewGap
<1>3. CASE GapLost(r)
  <2>1. RequestsTyped' /\ LogOK' /\ Stable
    BY <1>1, <1>3, RowedEnds
  <2>2. UNCHANGED <<messages, owner, ratings, gaps, call>> /\ faults' \in 0 .. MaxFaults
    BY <1>1, <1>3, FaultsBounded DEF GapLost
  <2>3. TypeInv'
    BY <1>1, <2>2 DEF TypeInv
  <2> QED BY <1>1, <2>1, <2>2, <2>3, CallsKept, NoNewGap
<1>4. CASE RecordGap(r)
  <2>1. RequestsTyped' /\ LogOK' /\ Stable
    BY <1>1, <1>4, RowedEnds
  <2>2. UNCHANGED <<messages, owner, ratings, call, faults>>
    BY <1>4 DEF RecordGap
  <2>3. CASE ~req[r].gap
    <3>1. gaps' = gaps
      BY <1>4, <2>3 DEF RecordGap
    <3>2. TypeInv'
      BY <1>1, <2>2, <3>1 DEF TypeInv
    <3> QED BY <1>1, <2>1, <2>2, <3>1, <3>2, CallsKept, NoNewGap
  <2>4. CASE req[r].gap
    <3>1. PICK m : m = req[r].msg
      OBVIOUS
    <3> DEFINE gap == [message |-> m, ask |-> r, by |-> None, flagged |-> FALSE, open |-> TRUE]
               new == Len(gaps) + 1
    <3>2. gap \in GapType
      BY <1>1, <3>1, RequestFacts DEF GapType
    <3>3. gaps' = Append(gaps, gap)
      BY <1>4, <2>4, <3>1 DEF RecordGap
    <3>4. gap.message = m /\ gap.ask = r /\ gap.by = None
      OBVIOUS
    <3> HIDE DEF gap
    <3>5. /\ GapsGrow /\ Len(gaps') = new /\ gaps'[new] = gap
          /\ \A g \in 1 .. Len(gaps') : g > Len(gaps) => g = new
      BY <1>1, <3>2, <3>3, GapAdded
    <3>6. TypeInv'
      BY <1>1, <2>2, <3>5 DEF TypeInv, GapsGrow
    <3>7. m # 0 => IsAnswer(m)' /\ messages'[m].ask = r
      BY <1>1, <2>2, <3>1 DEF LogOK, RequestOK, IsAnswer
    <3>8. \A g \in 1 .. Len(gaps') : g > Len(gaps) => GapOK(g)'
      <4>1. PICK k : k = new
        OBVIOUS
      <4>2. gaps'[k].message = m /\ gaps'[k].ask = r /\ gaps'[k].by = None
        BY <3>4, <3>5, <4>1
      <4>3. GapOK(k)'
        BY <3>7, <4>2 DEF GapOK
      <4> QED BY <3>5, <4>1, <4>3
    <3> QED BY <2>1, <2>2, <3>5, <3>6, <3>8, CallsKept
  <2> QED BY <2>3, <2>4
<1> QED BY <1>2, <1>3, <1>4

LEMMA ResolveStep ==
  ASSUME IInv, NEW g \in DOMAIN gaps, Resolve(g)
  PROVE  IInv'
<1>1. TypeInv /\ RequestsTyped /\ LogOK
  BY DEF IInv
<1>2. /\ gaps' = [gaps EXCEPT ![g].open = FALSE]
      /\ UNCHANGED <<messages, owner, req, ratings, call, faults>>
  BY DEF Resolve
<1>3. g \in 1 .. Len(gaps)
  BY <1>1, GapFacts
<1>4. GapsGrow /\ Len(gaps') = Len(gaps)
  BY <1>1, <1>2, <1>3, GapSet
<1>5. \A k \in 1 .. Len(gaps') : ~(k > Len(gaps))
  BY <1>1, <1>4, GapFacts
<1>6. RequestsTyped' /\ LogOK' /\ Stable
  BY <1>1, <1>2, StableSame DEF RequestsTyped, LogOK, RequestOK, RowOK
<1>7. TypeInv'
  BY <1>1, <1>2, <1>4 DEF TypeInv, GapsGrow
<1> QED BY <1>2, <1>4, <1>5, <1>6, <1>7, CallsKept

LEMMA CrashStep ==
  ASSUME IInv, Crash
  PROVE  IInv'
<1>1. TypeInv /\ RequestsTyped /\ LogOK /\ RatingsOK
  BY DEF IInv
<1>2. /\ UNCHANGED <<owner, ratings, gaps>> /\ faults' \in 0 .. MaxFaults
      /\ req' = [r \in Request |-> IF req[r].pc \in Working
                                   THEN [req[r] EXCEPT !.pc = "crashed"] ELSE req[r]]
      /\ call' = [c \in Call |-> IF call[c].pc \in {"read", "rated", "looked"}
                                 THEN [call[c] EXCEPT !.pc = "crashed"] ELSE call[c]]
      /\ messages' = [i \in DOMAIN messages |->
                        IF messages[i].state = "open"
                        THEN [messages[i] EXCEPT !.state = "gone"] ELSE messages[i]]
  BY <1>1, FaultsBounded DEF Crash
\* The messages keep all but the state of what was not committed.
<1>3. /\ messages' \in Seq(MessageRow) /\ Len(messages') = Len(messages)
      /\ \A i \in 1 .. Len(messages) :
           /\ messages'[i].role = messages[i].role
           /\ messages'[i].session = messages[i].session
           /\ messages'[i].ask = messages[i].ask
           /\ messages'[i].text = messages[i].text
           /\ messages[i].state = "kept" => messages'[i].state = "kept"
  <2> DEFINE row(i) == IF messages[i].state = "open"
                       THEN [messages[i] EXCEPT !.state = "gone"] ELSE messages[i]
  <2>1. \A i \in 1 .. Len(messages) : messages'[i] = row(i)
    BY <1>1, <1>2, RowFacts
  <2>2. \A i \in 1 .. Len(messages) :
          /\ row(i) \in MessageRow
          /\ row(i).role = messages[i].role
          /\ row(i).session = messages[i].session
          /\ row(i).ask = messages[i].ask
          /\ row(i).text = messages[i].text
          /\ messages[i].state = "kept" => row(i).state = "kept"
    BY <1>1, RowFacts DEF MessageRow
  <2>3. messages' = [i \in 1 .. Len(messages) |-> row(i)]
    BY <1>1, <1>2, RowFacts
  <2> HIDE DEF row
  <2>4. messages' \in [1 .. Len(messages) -> MessageRow]
    BY <2>2, <2>3
  <2>5. Len(messages) \in Nat
    BY <1>1, RowFacts
  <2>6. messages' \in Seq(MessageRow) /\ Len(messages') = Len(messages)
    BY <2>4, <2>5
  <2> QED BY <2>1, <2>2, <2>6
\* The requests keep all but their place.
<1>4. /\ RequestsTyped'
      /\ \A r \in Request :
           /\ req'[r].pc = IF req[r].pc \in Working THEN "crashed" ELSE req[r].pc
           /\ req'[r].own = req[r].own /\ req'[r].session = req[r].session
           /\ req'[r].msg = req[r].msg /\ req'[r].sent = req[r].sent
           /\ req'[r].lost = req[r].lost
  <2>1. PICK G : req \in [Request -> RequestType(G)]
    BY <1>1 DEF RequestsTyped
  <2>2. \A r \in Request : req'[r] = IF req[r].pc \in Working
                                     THEN [req[r] EXCEPT !.pc = "crashed"] ELSE req[r]
    BY <1>2
  <2>3. req' \in [Request -> RequestType(G)]
    <3>1. \A r \in Request : [req[r] EXCEPT !.pc = "crashed"] \in RequestType(G)
      BY <2>1 DEF RequestType, Over
    <3> QED BY <1>2, <2>1, <3>1
  <2>4. \A r \in Request : req[r] \in RequestType(G)
    BY <2>1
  <2> QED BY <2>2, <2>3, <2>4 DEF RequestsTyped, RequestType
<1>5. Stable
  BY <1>1, <1>3, <1>4, RowFacts DEF Stable
<1>6. LogOK'
  <2>1. ASSUME NEW r \in Request PROVE RequestOK(r)'
    <3>1. RequestOK(r)
      BY <1>1 DEF LogOK
    <3>2. CASE req[r].pc \in Working
      <4>1. req'[r].pc = "crashed" /\ req[r].pc \notin {"idle", "refused"}
        BY <1>4, <3>2 DEF Working
      <4> QED BY <1>3, <1>4, <3>1, <4>1 DEF RequestOK
    <3>3. CASE req[r].pc \notin Working
      <4>1. req'[r].pc = req[r].pc /\ req[r].pc \notin {"logging", "logged", "prepared", "streaming", "rowed"}
        BY <1>4, <3>3 DEF Working
      <4> QED BY <1>3, <1>4, <3>1, <4>1 DEF RequestOK
    <3> QED BY <3>2, <3>3
  <2>2. ASSUME NEW i \in 1 .. Len(messages), i \in 1 .. Len(messages')
        PROVE  RowOK(i)'
    <3>1. PICK r \in Request : r = messages[i].ask
      BY <1>1, RowFacts DEF MessageRow
    <3>2. messages'[i].ask = r /\ messages'[i].role = messages[i].role /\ RowOK(i)
      BY <1>1, <1>3, <3>1 DEF LogOK
    <3> QED BY <1>4, <3>1, <3>2 DEF RowOK
  <2> QED BY <1>3, <2>1, <2>2 DEF LogOK
<1>7. \A c \in Call :
        call'[c] = IF call[c].pc \in {"read", "rated", "looked"}
                   THEN [call[c] EXCEPT !.pc = "crashed"] ELSE call[c]
  BY <1>2
<1>8. TypeInv'
  <2>1. \A c \in Call : [call[c] EXCEPT !.pc = "crashed"] \in CallType
    BY <1>1, CallFacts DEF CallType, Over
  <2>2. call' \in [Call -> CallType]
    BY <1>1, <1>2, <2>1 DEF TypeInv
  <2> QED BY <1>1, <1>2, <1>3, <2>2 DEF TypeInv
<1>9. GapsGrow /\ RatingsGrow /\ \A g \in 1 .. Len(gaps') : ~(g > Len(gaps))
  BY <1>1, <1>2, GrowsSame, GapFacts
<1>10. RatingsOK'
  <2> DEFINE C == {c \in Call : call[c].pc \in {"read", "rated", "looked"}}
  <2>1. ASSUME NEW c \in C PROVE call[c].pc # "ended" /\ CallOK(c)'
    <3>1. CallOK(c) /\ c \in Call
      BY <1>1 DEF RatingsOK
    <3>2. /\ call'[c].pc = "crashed" /\ call'[c].message = call[c].message
          /\ call'[c].row = call[c].row /\ call'[c].gap = call[c].gap
      BY <1>1, <1>7, CallFacts DEF CallType
    <3>3. PICK m : m = call[c].message
      OBVIOUS
    <3>4. m # 0 => IsAnswer(m)'
      BY <1>1, <1>5, <3>1, <3>3, AnswerKept DEF CallOK
    <3> QED BY <1>2, <3>1, <3>2, <3>3, <3>4 DEF CallOK
  <2>2. \A c \in Call \ C : call'[c] = call[c]
    BY <1>7
  <2> HIDE DEF C
  <2>3. C \in SUBSET Call
    BY DEF C
  <2> QED BY <1>1, <1>5, <1>9, <2>1, <2>2, <2>3, RatingsStep
<1> QED BY <1>4, <1>6, <1>8, <1>10 DEF IInv

-----------------------------------------------------------------------------
(* Recursion, sums and ranks *)

\* What holds of 0 and passes from each number to the next holds up to n.
LEMMA UpTo ==
  ASSUME NEW n \in Nat, NEW P, 0 \in P, \A k \in 1 .. n : k - 1 \in P => k \in P
  PROVE  \A k \in 0 .. n : k \in P
<1> DEFINE Bad == {k \in 0 .. n : k \notin P}
<1>1. ASSUME Bad # {}
      PROVE  FALSE
  <2>1. PICK m \in Bad : \A j \in Bad : m <= j
    <3>1. Bad \in SUBSET Nat
      OBVIOUS
    <3> HIDE DEF Bad
    <3> QED
      BY <1>1, <3>1, LeastOf
  <2>2. m \in 1 .. n /\ m \notin P
    OBVIOUS
  <2>3. m - 1 \in 0 .. n /\ m - 1 \notin Bad
    BY <2>1, <2>2
  <2> QED
    BY <2>2, <2>3
<1> QED
  BY <1>1

\* The functions that obey one recursion are one.
LEMMA SameRun ==
  ASSUME NEW n \in Nat, NEW f, NEW g, f[0] = g[0],
         \A k \in 1 .. n : f[k - 1] = g[k - 1] => f[k] = g[k]
  PROVE  \A k \in 0 .. n : f[k] = g[k]
<1> DEFINE P == {k \in 0 .. n : f[k] = g[k]}
<1>1. 0 \in P /\ \A k \in 1 .. n : k - 1 \in P => k \in P
  OBVIOUS
<1>2. \A k \in 0 .. n : k \in P
  <2> HIDE DEF P
  <2> QED
    BY <1>1, UpTo
<1> QED
  BY <1>2

\* f runs step over 1 .. n from base on.
Scans(f, step, base, n, A) ==
  /\ f \in [0 .. n -> A] /\ f[0] = base
  /\ \A k \in 1 .. n : f[k] = step[<<f[k - 1], k>>]

\* There is such a run.
LEMMA Scan ==
  ASSUME NEW A, NEW n \in Nat, NEW base \in A, NEW step \in [A \X (1 .. n) -> A]
  PROVE  \E f : Scans(f, step, base, n, A)
<1> DEFINE P == {m \in 0 .. n : \E f \in [0 .. m -> A] :
                   f[0] = base /\ \A k \in 1 .. m : f[k] = step[<<f[k - 1], k>>]}
<1>1. 0 \in P
  <2> DEFINE g == [i \in 0 .. 0 |-> base]
  <2>1. g \in [0 .. 0 -> A] /\ g[0] = base
    OBVIOUS
  <2>2. \A k \in 1 .. 0 : g[k] = step[<<g[k - 1], k>>]
    OBVIOUS
  <2> HIDE DEF g
  <2> QED
    BY <2>1, <2>2
<1>2. ASSUME NEW m \in 1 .. n, m - 1 \in P
      PROVE  m \in P
  <2>1. PICK f \in [0 .. m - 1 -> A] :
          f[0] = base /\ \A k \in 1 .. m - 1 : f[k] = step[<<f[k - 1], k>>]
    BY <1>2
  <2> DEFINE last == step[<<f[m - 1], m>>]
             g == [i \in 0 .. m |-> IF i = m THEN last ELSE f[i]]
  <2>2. last \in A
    <3>1. <<f[m - 1], m>> \in A \X (1 .. n)
      BY <2>1
    <3> QED
      BY <3>1
  <2>3. g \in [0 .. m -> A]
    <3>1. \A i \in 0 .. m : i # m => f[i] \in A
      BY <2>1
    <3> HIDE DEF last
    <3> QED
      BY <2>2, <3>1
  <2>4. g[0] = base
    BY <2>1
  <2>5. ASSUME NEW k \in 1 .. m
        PROVE  g[k] = step[<<g[k - 1], k>>]
    <3> HIDE DEF last
    <3>1. g[k - 1] = f[k - 1] /\ g[k] = IF k = m THEN last ELSE f[k]
      OBVIOUS
    <3>2. CASE k = m
      BY <3>1, <3>2 DEF last
    <3>3. CASE k # m
      <4>1. k \in 1 .. m - 1
        BY <3>3
      <4> QED
        BY <2>1, <3>1, <3>3, <4>1
    <3> QED
      BY <3>2, <3>3
  <2> HIDE DEF g
  <2> QED
    BY <2>3, <2>4, <2>5
<1>3. n \in P
  <2> HIDE DEF P
  <2> QED
    BY <1>1, <1>2, UpTo
<1>4. PICK f \in [0 .. n -> A] : f[0] = base /\ \A k \in 1 .. n : f[k] = step[<<f[k - 1], k>>]
  BY <1>3
<1> QED
  BY <1>4 DEF Scans


\* The sums Chars takes are those of a running sum.
Sums(u, f, n) ==
  /\ u \in [0 .. n -> Nat] /\ u[0] = 0
  /\ \A k \in 1 .. n : u[k] = u[k - 1] + f[k]

LEMMA CharsRun ==
  ASSUME NEW n \in Nat, NEW f, \A k \in 1 .. n : f[k] \in Nat
  PROVE  \E u : Sums(u, f, n) /\ \A k \in 0 .. n : Chars(f, k) = u[k]
<1> DEFINE step == [p \in Nat \X (1 .. n) |-> p[1] + f[p[2]]]
<1>1. step \in [Nat \X (1 .. n) -> Nat] /\ \A x \in Nat, k \in 1 .. n : step[<<x, k>>] = x + f[k]
  <2>1. \A p \in Nat \X (1 .. n) : p[1] + f[p[2]] \in Nat
    OBVIOUS
  <2> QED
    BY <2>1
<1> HIDE DEF step
<1>2. PICK u : Scans(u, step, 0, n, Nat)
  BY <1>1, Scan
<1>3. Sums(u, f, n)
  <2>1. u \in [0 .. n -> Nat] /\ u[0] = 0
    BY <1>2 DEF Scans
  <2>2. ASSUME NEW k \in 1 .. n
        PROVE  u[k] = u[k - 1] + f[k]
    <3>1. u[k - 1] \in Nat /\ u[k] = step[<<u[k - 1], k>>]
      BY <1>2, <2>1 DEF Scans
    <3> QED
      BY <1>1, <3>1
  <2> QED
    BY <2>1, <2>2 DEF Sums
<1>4. ASSUME NEW k \in 0 .. n
      PROVE  Chars(f, k) = u[k]
  <2> DEFINE next(g) == [i \in 0 .. k |-> IF i = 0 THEN 0 ELSE g[i - 1] + f[i]]
             w == [i \in 0 .. k |-> u[i]]
             read == CHOOSE g : g = next(g)
  <2>1. w = next(w)
    <3>1. \A i \in 0 .. k : w[i] = next(w)[i]
      BY <1>3 DEF Sums
    <3> QED
      BY <3>1
  <2>2. read = next(read)
    <3> HIDE DEF next, w
    <3> QED
      BY <2>1
  <2>3. \A i \in 0 .. k : read[i] = next(read)[i]
    <3> HIDE DEF next, read
    <3> QED
      BY <2>2
  <2>4. /\ read[0] = 0 /\ w[0] = 0
        /\ \A i \in 1 .. k : read[i] = read[i - 1] + f[i] /\ w[i] = w[i - 1] + f[i]
    <3> HIDE DEF read
    <3> QED
      BY <1>3, <2>3 DEF Sums
  <2>5. Chars(f, k) = read[k]
    BY Zenon DEF Chars
  <2> HIDE DEF next, read
  <2>6. w[k] = u[k]
    OBVIOUS
  <2> HIDE DEF w
  <2>7. \A i \in 0 .. k : read[i] = w[i]
    <3>1. read[0] = w[0] /\ \A i \in 1 .. k : read[i - 1] = w[i - 1] => read[i] = w[i]
      BY <2>4
    <3>2. k \in Nat
      OBVIOUS
    <3> QED
      BY <3>1, <3>2, SameRun
  <2> QED
    BY <2>5, <2>6, <2>7
<1> QED
  BY <1>3, <1>4

\* Texts counted from the last to the first are as many.
LEMMA CharsReversed ==
  ASSUME NEW n \in Nat, NEW f, \A k \in 1 .. n : f[k] \in Nat,
         NEW g, \A k \in 1 .. n : g[k] = f[(n - k) + 1]
  PROVE  Chars(g, n) = Chars(f, n)
<1>1. PICK u : Sums(u, f, n) /\ \A k \in 0 .. n : Chars(f, k) = u[k]
  BY CharsRun
<1>2. \A k \in 1 .. n : g[k] \in Nat
  OBVIOUS
<1>3. PICK v : Sums(v, g, n) /\ \A k \in 0 .. n : Chars(g, k) = v[k]
  BY <1>2, CharsRun
<1> DEFINE P == {k \in 0 .. n : v[k] + u[n - k] = u[n]}
<1>4. 0 \in P
  BY <1>1, <1>3 DEF Sums
<1>5. ASSUME NEW k \in 1 .. n, k - 1 \in P
      PROVE  k \in P
  <2>1. v[k - 1] + u[n - (k - 1)] = u[n]
    BY <1>5
  <2>2. v[k] = v[k - 1] + f[(n - k) + 1]
    BY <1>3 DEF Sums
  <2>3. (n - k) + 1 \in 1 .. n /\ n - (k - 1) = (n - k) + 1 /\ ((n - k) + 1) - 1 = n - k
    OBVIOUS
  <2>4. u[(n - k) + 1] = u[n - k] + f[(n - k) + 1]
    BY <1>1, <2>3 DEF Sums
  <2>5. v[k - 1] \in Nat /\ u[n - k] \in Nat /\ f[(n - k) + 1] \in Nat /\ u[n] \in Nat
    BY <1>1, <1>3, <2>3 DEF Sums
  <2>6. v[k] + u[n - k] = u[n]
    BY <2>1, <2>2, <2>3, <2>4, <2>5
  <2> QED
    BY <2>6
<1>6. \A k \in 0 .. n : k \in P
  <2> HIDE DEF P
  <2> QED
    BY <1>4, <1>5, UpTo
<1>7. v[n] + u[n - n] = u[n] /\ n - n = 0
  BY <1>6
<1>8. v[n] \in Nat /\ u[0] = 0 /\ u[n] \in Nat
  BY <1>1, <1>3 DEF Sums
<1> QED
  BY <1>1, <1>3, <1>7, <1>8

\* The newest rows, the newest first.
LEMMA NewestFacts ==
  ASSUME NEW n \in Nat, NEW ids \in SUBSET (1 .. n), NEW limit \in Nat
  PROVE  /\ Newest(ids, limit) \in Seq(ids) /\ Len(Newest(ids, limit)) <= limit
         /\ \A j, k \in 1 .. Len(Newest(ids, limit)) :
              j < k => Newest(ids, limit)[k] < Newest(ids, limit)[j]
<1> DEFINE newer(i) == {j \in ids : j > i}
           rank == [i \in ids |-> Cardinality(newer(i))]
           c == Cardinality(ids)
<1>0. \A i \in ids : i \in Nat
  OBVIOUS
<1>1. IsFiniteSet(ids) /\ c \in Nat
  <2>1. IsFiniteSet(1 .. n)
    BY FS_Interval
  <2>2. IsFiniteSet(ids)
    BY <2>1, FS_Subset
  <2> QED
    BY <2>2, FS_CardinalityType
<1>2. \A i \in ids : newer(i) \in SUBSET ids /\ IsFiniteSet(newer(i)) /\ rank[i] \in Nat
  <2>1. \A i \in ids : newer(i) \in SUBSET ids
    OBVIOUS
  <2>2. \A i \in ids : IsFiniteSet(newer(i)) /\ Cardinality(newer(i)) \in Nat
    <3> HIDE DEF newer
    <3> QED
      BY <1>1, <2>1, FS_Subset, FS_CardinalityType
  <2> QED
    BY <2>1, <2>2
<1>3. ASSUME NEW i \in ids
      PROVE  rank[i] \in 0 .. c - 1
  <2>1. newer(i) # ids
    OBVIOUS
  <2>2. Cardinality(newer(i)) <= c /\ (c = Cardinality(newer(i)) => ids = newer(i))
    <3> HIDE DEF newer
    <3> QED
      BY <1>1, <1>2, FS_Subset
  <2> HIDE DEF newer, c
  <2> QED
    BY <1>1, <1>2, <2>1, <2>2
<1>4. ASSUME NEW i \in ids, NEW j \in ids, i < j
      PROVE  rank[j] < rank[i]
  <2>1. newer(j) \in SUBSET newer(i) /\ j \in newer(i) /\ j \notin newer(j)
    <3>1. ASSUME NEW x \in newer(j)
          PROVE  x \in newer(i)
      <4>1. x \in Nat /\ i \in Nat /\ j \in Nat /\ x > j
        BY <1>0
      <4>2. x > i
        BY <1>4, <4>1
      <4> QED
        BY <4>2
    <3>2. j > i /\ ~(j > j)
      BY <1>0, <1>4
    <3> QED
      BY <3>1, <3>2
  <2> HIDE DEF newer
  <2>2. Cardinality(newer(j)) <= Cardinality(newer(i)) /\ Cardinality(newer(i)) # Cardinality(newer(j))
    BY <1>2, <2>1, FS_Subset
  <2> QED
    BY <1>2, <2>2
<1>5. rank \in Surjection(ids, 0 .. c - 1)
  <2>1. rank \in Injection(ids, 0 .. c - 1)
    <3>1. rank \in [ids -> 0 .. c - 1]
      <4> HIDE DEF c
      <4> QED
        BY <1>3
    <3>2. ASSUME NEW i \in ids, NEW j \in ids, rank[i] = rank[j]
          PROVE  i = j
      <4> HIDE DEF rank, c, newer
      <4>1. i \in Nat /\ j \in Nat /\ rank[i] \in Nat /\ rank[j] \in Nat
        BY <1>0, <1>2
      <4>2. (i < j => rank[j] < rank[i]) /\ (j < i => rank[i] < rank[j])
        BY <1>4
      <4> QED
        BY <3>2, <4>1, <4>2
    <3> HIDE DEF rank, c
    <3> QED
      BY <3>1, <3>2 DEF Injection, IsInjective
  <2>2. IsFiniteSet(0 .. c - 1) /\ Cardinality(0 .. c - 1) = c
    <3>1. c - 1 \in Int /\ 0 \in Int
      BY <1>1
    <3>2. IsFiniteSet(0 .. c - 1) /\ Cardinality(0 .. c - 1) = IF 0 > c - 1 THEN 0 ELSE (c - 1) - 0 + 1
      <4> HIDE DEF c
      <4> QED
        BY <3>1, FS_Interval
    <3> HIDE DEF c
    <3> QED
      BY <1>1, <3>2
  <2> HIDE DEF rank
  <2> QED
    BY <2>1, <2>2, FS_Injection
<1> DEFINE s == Newest(ids, limit)
           m == Min({c, limit})
<1>6. m \in Nat /\ m <= c /\ m <= limit
  <2>1. {c, limit} \in SUBSET Nat /\ {c, limit} # {}
    BY <1>1
  <2>2. Min({c, limit}) \in {c, limit} /\ \A y \in {c, limit} : Min({c, limit}) <= y
    BY <2>1, LeastOf
  <2> HIDE DEF c
  <2> QED
    BY <1>1, <2>2
<1>7. s = [k \in 1 .. m |-> CHOOSE i \in ids : rank[i] = k - 1]
  <2>1. \A k : (CHOOSE i \in ids : Cardinality({j \in ids : j > i}) = k - 1)
               = (CHOOSE i \in ids : rank[i] = k - 1)
    <3> TAKE k
    <3>1. \A i \in ids : Cardinality({j \in ids : j > i}) = k - 1 <=> rank[i] = k - 1
      OBVIOUS
    <3> HIDE DEF rank
    <3> QED
      BY <3>1
  <2>2. s = [k \in 1 .. m |-> CHOOSE i \in ids : Cardinality({j \in ids : j > i}) = k - 1]
    BY DEF Newest
  <2> DEFINE first(k) == CHOOSE i \in ids : Cardinality({j \in ids : j > i}) = k - 1
             second(k) == CHOOSE i \in ids : rank[i] = k - 1
  <2>3. \A k : first(k) = second(k)
    BY <2>1
  <2>4. s = [k \in 1 .. m |-> first(k)]
    BY <2>2
  <2> HIDE DEF first, second, m, s
  <2>5. s = [k \in 1 .. m |-> second(k)]
    BY <2>3, <2>4
  <2> QED
    BY <2>5 DEF second
<1>8. ASSUME NEW k \in 1 .. m
      PROVE  s[k] \in ids /\ rank[s[k]] = k - 1
  <2>1. k - 1 \in 0 .. c - 1
    <3> HIDE DEF m, c
    <3> QED
      BY <1>1, <1>6
  <2>2. \E i \in ids : rank[i] = k - 1
    <3> HIDE DEF rank, c
    <3> QED
      BY <1>5, <2>1 DEF Surjection, Range
  <2>3. s[k] = CHOOSE i \in ids : rank[i] = k - 1
    <3> HIDE DEF m, rank, s
    <3> QED
      BY <1>7
  <2> HIDE DEF rank, s
  <2> QED
    BY <2>2, <2>3
<1>9. s \in Seq(ids) /\ Len(s) = m
  <2>1. s \in [1 .. m -> ids]
    <3>1. s = [k \in 1 .. m |-> s[k]]
      <4> HIDE DEF m, rank
      <4> QED
        BY <1>7
    <3> HIDE DEF s, m
    <3> QED
      BY <1>8, <3>1
  <2> HIDE DEF s, m
  <2> QED
    BY <1>6, <2>1
<1>10. ASSUME NEW j \in 1 .. m, NEW k \in 1 .. m, j < k
       PROVE  s[k] < s[j]
  <2>1. s[j] \in ids /\ s[k] \in ids /\ rank[s[j]] = j - 1 /\ rank[s[k]] = k - 1
    BY <1>8
  <2> HIDE DEF s, rank, m
  <2>2. s[j] \in Nat /\ s[k] \in Nat
    BY <1>0, <2>1
  <2>3. s[j] # s[k] /\ ~(s[j] < s[k])
    <3>1. j \in Nat /\ k \in Nat /\ j - 1 < k - 1 /\ ~(k - 1 < j - 1)
      BY <1>6, <1>10
    <3>2. s[j] < s[k] => rank[s[k]] < rank[s[j]]
      BY <1>4, <2>1
    <3> QED
      BY <2>1, <3>1, <3>2
  <2> QED
    BY <2>2, <2>3
<1> HIDE DEF s, m
<1>11. /\ s \in Seq(ids) /\ Len(s) <= limit
       /\ \A j, k \in 1 .. Len(s) : j < k => s[k] < s[j]
  BY <1>6, <1>9, <1>10
<1> QED
  BY <1>11 DEF s

\* What a history takes of rows: the first ones, each cut to MaxChars, as many
\* as hold MaxChars together.
Takes(h, ids, cut, n) ==
  /\ n \in 0 .. Len(ids)
  /\ h = [k \in 1 .. n |-> [id |-> ids[k], text |-> cut[k]]]
  /\ \A k \in 1 .. n : cut[k] \in Nat /\ cut[k] = Min({messages[ids[k]].text, MaxChars})
  /\ Chars(cut, n) <= MaxChars

LEMMA LeastOfTwo ==
  ASSUME NEW a \in Nat, NEW b \in Nat
  PROVE  /\ Min({a, b}) \in Nat /\ Min({a, b}) <= a /\ Min({a, b}) <= b
         /\ a <= b => Min({a, b}) = a
<1>1. {a, b} \in SUBSET Nat /\ {a, b} # {}
  OBVIOUS
<1>2. Min({a, b}) \in {a, b} /\ \A y \in {a, b} : Min({a, b}) <= y
  BY <1>1, LeastOf
<1> QED
  BY <1>2

LEMMA BoundedTakes ==
  ASSUME TypeInv, NEW ids \in Seq(1 .. Len(messages))
  PROVE  \E cut, n : Takes(BoundedHistory(ids), ids, cut, n)
<1> DEFINE cut == [k \in 1 .. Len(ids) |->
                     IF k = 1 THEN Min({messages[ids[1]].text, MaxChars})
                     ELSE messages[ids[k]].text]
           taken == {n \in 0 .. Len(ids) : \A k \in 2 .. n : Chars(cut, k) <= MaxChars}
           n == Max(taken)
<1>1. MaxChars \in Nat /\ Len(ids) \in Nat
  BY ChatAssumption
<1>2. \A k \in 1 .. Len(ids) : messages[ids[k]].text \in Nat
  <2>1. \A k \in 1 .. Len(ids) : ids[k] \in 1 .. Len(messages)
    OBVIOUS
  <2> QED
    BY <2>1, RowFacts DEF MessageRow
<1>3. \A k \in 1 .. Len(ids) :
        /\ cut[k] \in Nat
        /\ k = 1 => cut[k] = Min({messages[ids[k]].text, MaxChars})
        /\ k # 1 => cut[k] = messages[ids[k]].text
  <2>1. Len(ids) >= 1 => Min({messages[ids[1]].text, MaxChars}) \in Nat
    <3>1. Len(ids) >= 1 => 1 \in 1 .. Len(ids)
      BY <1>1
    <3> QED
      BY <1>1, <1>2, <3>1, LeastOfTwo
  <2>2. PICK first : first = Min({messages[ids[1]].text, MaxChars})
    OBVIOUS
  <2>3. cut = [k \in 1 .. Len(ids) |-> IF k = 1 THEN first ELSE messages[ids[k]].text]
    BY <2>2
  <2> HIDE DEF cut
  <2> TAKE k \in 1 .. Len(ids)
  <2>4. k \in Nat /\ (k = 1 => Len(ids) >= 1) /\ messages[ids[k]].text \in Nat
    BY <1>1, <1>2
  <2>5. cut[k] = IF k = 1 THEN first ELSE messages[ids[k]].text
    BY <2>3
  <2>6. CASE k = 1
    BY <2>1, <2>2, <2>4, <2>5, <2>6
  <2>7. CASE k # 1
    BY <2>4, <2>5, <2>7
  <2> QED
    BY <2>6, <2>7
<1>4. BoundedHistory(ids) = [k \in 1 .. n |-> [id |-> ids[k], text |-> cut[k]]]
  BY DEF BoundedHistory
<1> HIDE DEF cut
<1>5. n \in 0 .. Len(ids) /\ \A k \in 2 .. n : Chars(cut, k) <= MaxChars
  <2>1. 0 \in taken
    BY <1>1
  <2>2. taken \in SUBSET (0 .. Len(ids)) /\ taken # {}
    BY <2>1
  <2>3. n \in taken
    <3> HIDE DEF taken
    <3> QED
      BY <1>1, <2>2, GreatestOf
  <2> HIDE DEF n
  <2> QED
    BY <2>3
<1> HIDE DEF n, taken
<1>6. PICK u : Sums(u, cut, Len(ids)) /\ \A k \in 0 .. Len(ids) : Chars(cut, k) = u[k]
  <2>1. \A k \in 1 .. Len(ids) : cut[k] \in Nat
    BY <1>3
  <2> QED
    BY <1>1, <2>1, CharsRun
<1>7. \A k \in 1 .. Len(ids) :
        u[k] \in Nat /\ u[k - 1] \in Nat /\ u[k] = u[k - 1] + cut[k] /\ Chars(cut, k) = u[k]
  BY <1>1, <1>6 DEF Sums
<1>8. \A k \in 1 .. n : cut[k] \in Nat /\ cut[k] = Min({messages[ids[k]].text, MaxChars})
  <2> SUFFICES ASSUME NEW k \in 1 .. n
               PROVE  cut[k] \in Nat /\ cut[k] = Min({messages[ids[k]].text, MaxChars})
    OBVIOUS
  <2>1. k \in 1 .. Len(ids) /\ k \in Nat
    BY <1>1, <1>5
  <2>2. CASE k = 1
    BY <1>3, <2>1, <2>2
  <2>3. CASE k # 1
    <3>1. k \in 2 .. n
      BY <2>1, <2>3
    <3>2. u[k] <= MaxChars
      BY <1>5, <1>7, <2>1, <3>1
    <3>3. cut[k] <= MaxChars
      <4>1. cut[k] \in Nat /\ u[k] \in Nat /\ u[k - 1] \in Nat /\ u[k] = u[k - 1] + cut[k]
        BY <1>3, <1>7, <2>1
      <4> QED
        BY <1>1, <3>2, <4>1
    <3>4. cut[k] = messages[ids[k]].text /\ cut[k] \in Nat
      BY <1>3, <2>1, <2>3
    <3> QED
      BY <1>1, <3>3, <3>4, LeastOfTwo
  <2> QED
    BY <2>2, <2>3
<1>9. Chars(cut, n) <= MaxChars
  <2>1. CASE n = 0
    <3>1. Chars(cut, n) = 0
      BY <1>1, <1>6, <2>1 DEF Sums
    <3> QED
      BY <1>1, <3>1
  <2>2. CASE n = 1
    <3>1. 1 \in 1 .. Len(ids) /\ 1 - 1 = 0
      BY <1>1, <1>5, <2>2
    <3>2. Chars(cut, n) = cut[1] /\ cut[1] = Min({messages[ids[1]].text, MaxChars})
      <4>1. u[1] = u[0] + cut[1] /\ u[0] = 0 /\ Chars(cut, 1) = u[1] /\ cut[1] \in Nat
        BY <1>3, <1>6, <1>7, <3>1 DEF Sums
      <4> QED
        BY <1>3, <2>2, <3>1, <4>1
    <3> QED
      BY <1>1, <1>2, <3>1, <3>2, LeastOfTwo
  <2>3. CASE n >= 2
    <3>1. n \in 2 .. n
      BY <1>1, <1>5, <2>3
    <3> QED
      BY <1>5, <3>1
  <2> QED
    BY <1>1, <1>5, <2>1, <2>2, <2>3
<1>10. Takes(BoundedHistory(ids), ids, cut, n)
  BY <1>4, <1>5, <1>8, <1>9 DEF Takes
<1> QED
  BY <1>10

-----------------------------------------------------------------------------
(* What a history holds when it is read *)

HistoryType == [id : Nat, text : Nat]

\* Rows of session s before own, in their order, each as it stands, within the
\* bounds.
Recalls(h, s, own) ==
  /\ h \in Seq(HistoryType)
  /\ Chars([k \in DOMAIN h |-> h[k].text], Len(h)) <= MaxChars
  /\ Len(h) <= 2 * MaxTurns
  /\ \A k \in 1 .. Len(h) :
       /\ h[k].id \in 1 .. Len(messages)
       /\ messages[h[k].id].session = s
       /\ messages[h[k].id].state = "kept"
       /\ h[k].id < own
       /\ h[k].text = Min({messages[h[k].id].text, MaxChars})
  /\ \A k \in 2 .. Len(h) : h[k - 1].id < h[k].id

LEMMA RecallsReversed ==
  ASSUME TypeInv, NEW s, NEW own \in Nat,
         NEW rows \in SUBSET (1 .. Len(messages)),
         \A i \in rows : messages[i].session = s /\ messages[i].state = "kept" /\ i < own,
         NEW ids \in Seq(rows), Len(ids) <= 2 * MaxTurns,
         \A j, k \in 1 .. Len(ids) : j < k => ids[k] < ids[j],
         NEW b, NEW cut, NEW n, Takes(b, ids, cut, n)
  PROVE  Recalls(Reverse(b), s, own)
<1>1. MaxTurns \in Nat /\ MaxChars \in Nat /\ 2 * MaxTurns \in Nat /\ Len(messages) \in Nat
  BY ChatAssumption, RowFacts
<1>2. n \in Nat /\ n <= Len(ids) /\ Len(ids) \in Nat
  BY DEF Takes
<1>3. /\ b = [k \in 1 .. n |-> [id |-> ids[k], text |-> cut[k]]]
      /\ Chars(cut, n) <= MaxChars
  BY DEF Takes
<1>4. \A k \in 1 .. n : cut[k] \in Nat /\ cut[k] = Min({messages[ids[k]].text, MaxChars})
  BY DEF Takes
<1>5. \A k \in 1 .. n : ids[k] \in rows
  BY <1>2
<1>6. Len(b) = n
  BY <1>2, <1>3
<1>7. PICK h : h = Reverse(b)
  OBVIOUS
<1>8. h = [k \in 1 .. n |-> b[(n - k) + 1]]
  BY <1>6, <1>7 DEF Reverse
<1>9. ASSUME NEW k \in 1 .. n
      PROVE  /\ (n - k) + 1 \in 1 .. n
             /\ h[k].id = ids[(n - k) + 1] /\ h[k].text = cut[(n - k) + 1]
             /\ h[k] \in HistoryType
             /\ h[k].id \in rows /\ h[k].text \in Nat
             /\ h[k].text = Min({messages[h[k].id].text, MaxChars})
  <2>1. PICK j \in 1 .. n : j = (n - k) + 1
    BY <1>2
  <2>2. h[k] = b[j] /\ b[j] = [id |-> ids[j], text |-> cut[j]]
    BY <1>3, <1>8, <2>1
  <2>3. PICK i \in rows, c \in Nat : i = ids[j] /\ c = cut[j] /\ c = Min({messages[i].text, MaxChars})
    BY <1>4, <1>5
  <2>4. h[k] = [id |-> i, text |-> c]
    BY <2>2, <2>3
  <2>5. h[k].id = i /\ h[k].text = c
    BY <2>4
  <2>6. h[k] \in HistoryType
    <3>1. i \in Nat
      BY <1>1
    <3> QED
      BY <2>4, <3>1 DEF HistoryType
  <2> QED
    BY <2>1, <2>3, <2>5, <2>6
<1>10. h \in Seq(HistoryType) /\ Len(h) = n
  <2>1. \A k \in 1 .. n : h[k] \in HistoryType
    BY <1>9
  <2>2. h = [k \in 1 .. n |-> h[k]]
    BY <1>8
  <2>3. h \in [1 .. n -> HistoryType]
    BY <2>1, <2>2
  <2> QED
    BY <1>2, <2>3
<1>11. Chars([k \in DOMAIN h |-> h[k].text], Len(h)) <= MaxChars
  <2> DEFINE texts == [k \in DOMAIN h |-> h[k].text]
  <2>1. DOMAIN h = 1 .. n
    BY <1>8
  <2>2. \A k \in 1 .. n : texts[k] = h[k].text
    BY <2>1
  <2> HIDE DEF texts
  <2>3. \A k \in 1 .. n : texts[k] = cut[(n - k) + 1]
    BY <1>9, <2>2
  <2>4. \A k \in 1 .. n : cut[k] \in Nat
    BY <1>4
  <2>5. Chars(texts, n) = Chars(cut, n)
    BY <1>2, <2>3, <2>4, CharsReversed
  <2>6. Chars(texts, Len(h)) <= MaxChars
    BY <1>3, <1>10, <2>5
  <2> QED
    BY <2>6 DEF texts
<1>12. Len(h) <= 2 * MaxTurns
  BY <1>1, <1>2, <1>10
<1>13. \A k \in 1 .. n :
         /\ h[k].id \in 1 .. Len(messages)
         /\ messages[h[k].id].session = s
         /\ messages[h[k].id].state = "kept"
         /\ h[k].id < own
         /\ h[k].text = Min({messages[h[k].id].text, MaxChars})
  BY <1>9
<1>14. ASSUME NEW k \in 2 .. n
       PROVE  h[k - 1].id < h[k].id
  <2>1. k \in 1 .. n /\ k - 1 \in 1 .. n
    BY <1>2
  <2>2. PICK i, j \in 1 .. Len(ids) : i = (n - k) + 1 /\ j = (n - (k - 1)) + 1 /\ i < j
    BY <1>2
  <2>3. h[k].id = ids[i] /\ h[k - 1].id = ids[j]
    BY <1>9, <2>1, <2>2
  <2> QED
    BY <2>2, <2>3
<1>15. Recalls(h, s, own)
  BY <1>10, <1>11, <1>12, <1>13, <1>14 DEF Recalls
<1> QED
  BY <1>7, <1>15

LEMMA HistoryRecalls ==
  ASSUME TypeInv, NEW s, NEW own \in Nat
  PROVE  Recalls(History(s, own), s, own)
<1> DEFINE rows == {i \in Kept("user", s) \union Kept("assistant", s) : i < own}
           ids == Newest(rows, 2 * MaxTurns)
           b == BoundedHistory(ids)
<1>1. MaxTurns \in Nat /\ MaxChars \in Nat /\ 2 * MaxTurns \in Nat /\ Len(messages) \in Nat
  BY ChatAssumption, RowFacts
<1>2. /\ rows \in SUBSET (1 .. Len(messages))
      /\ \A i \in rows : messages[i].session = s /\ messages[i].state = "kept" /\ i < own
  BY RowFacts DEF Kept
<1>3. History(s, own) = Reverse(b)
  BY DEF History
<1> HIDE DEF rows
<1>4. /\ ids \in Seq(rows) /\ Len(ids) <= 2 * MaxTurns
      /\ \A j, k \in 1 .. Len(ids) : j < k => ids[k] < ids[j]
  BY <1>1, <1>2, NewestFacts
<1> HIDE DEF ids
<1>5. ids \in Seq(1 .. Len(messages))
  <2>1. PICK dom : dom = 1 .. Len(messages)
    OBVIOUS
  <2>2. rows \in SUBSET dom
    BY <1>2, <2>1
  <2>3. ids \in Seq(dom)
    BY <1>4, <2>2
  <2> QED
    BY <2>1, <2>3
<1>6. PICK cut, n : Takes(b, ids, cut, n)
  BY <1>5, BoundedTakes
<1> HIDE DEF b
<1>7. Recalls(Reverse(b), s, own)
  BY <1>2, <1>4, <1>6, RecallsReversed
<1> QED
  BY <1>3, <1>7

-----------------------------------------------------------------------------
(* What a history goes on holding *)

\* As Recalls; only the answers that were complete before are still as they were.
Remembers(h, s, own, before) ==
  /\ h \in Seq(HistoryType)
  /\ Chars([k \in DOMAIN h |-> h[k].text], Len(h)) <= MaxChars
  /\ Len(h) <= 2 * MaxTurns
  /\ \A k \in 1 .. Len(h) :
       /\ h[k].id \in 1 .. Len(messages)
       /\ messages[h[k].id].session = s
       /\ messages[h[k].id].state = "kept"
       /\ h[k].id < own
       /\ messages[h[k].id].role = "assistant" /\ messages[h[k].id].ask \in before =>
            h[k].text = Min({messages[h[k].id].text, MaxChars})
  /\ \A k \in 2 .. Len(h) : h[k - 1].id < h[k].id

HistoryOK(r) ==
  /\ \A q \in req[r].before : req[q].pc = "ended"
  /\ req[r].pc = "idle" => req[r].hist = <<>>
  /\ Remembers(req[r].hist, req[r].session, req[r].own, req[r].before)

HistoriesOK == \A r \in Request : HistoryOK(r)

\* Rows are added, committed and, until their request has ended, filled.
Grown ==
  /\ Len(messages) \in Nat /\ Len(messages') \in Nat /\ Len(messages) <= Len(messages')
  /\ \A i \in 1 .. Len(messages) :
       /\ messages'[i].role = messages[i].role
       /\ messages'[i].session = messages[i].session
       /\ messages'[i].ask = messages[i].ask
       /\ messages[i].state = "kept" => messages'[i].state = "kept"
       /\ req[messages[i].ask].pc = "ended" => messages'[i].text = messages[i].text
  /\ \A q \in Request : req[q].pc = "ended" => req'[q].pc = "ended"

LEMMA RemembersGrown ==
  ASSUME Grown, NEW h, NEW s, NEW own, NEW before,
         \A q \in before : req[q].pc = "ended",
         Remembers(h, s, own, before)
  PROVE  Remembers(h, s, own, before)'
<1>1. ASSUME NEW k \in 1 .. Len(h)
      PROVE  /\ h[k].id \in 1 .. Len(messages')
             /\ messages'[h[k].id].session = s
             /\ messages'[h[k].id].state = "kept"
             /\ h[k].id < own
             /\ messages'[h[k].id].role = "assistant" /\ messages'[h[k].id].ask \in before =>
                  h[k].text = Min({messages'[h[k].id].text, MaxChars})
  <2>1. PICK i : i = h[k].id
    OBVIOUS
  <2>2. /\ i \in 1 .. Len(messages) /\ messages[i].session = s
        /\ messages[i].state = "kept" /\ i < own
        /\ messages[i].role = "assistant" /\ messages[i].ask \in before =>
             h[k].text = Min({messages[i].text, MaxChars})
    BY <2>1 DEF Remembers
  <2>3. /\ i \in 1 .. Len(messages')
        /\ messages'[i].session = s /\ messages'[i].state = "kept"
        /\ messages'[i].role = messages[i].role
        /\ messages'[i].ask = messages[i].ask
        /\ messages[i].ask \in before => messages'[i].text = messages[i].text
    BY <2>2 DEF Grown
  <2> QED
    BY <2>1, <2>2, <2>3
<1> QED
  BY <1>1 DEF Remembers

LEMMA HistoryStays ==
  ASSUME Grown, NEW r \in Request, HistoryOK(r), req[r].before \in SUBSET Request,
         req'[r].hist = req[r].hist, req'[r].before = req[r].before,
         req'[r].session = req[r].session, req'[r].own = req[r].own,
         req'[r].pc = "idle" => req[r].pc = "idle"
  PROVE  HistoryOK(r)'
<1>1. PICK h, s, own, before : h = req[r].hist /\ s = req[r].session
                               /\ own = req[r].own /\ before = req[r].before
  OBVIOUS
<1>2. /\ \A q \in before : req[q].pc = "ended"
      /\ req[r].pc = "idle" => h = <<>>
      /\ Remembers(h, s, own, before)
  BY <1>1 DEF HistoryOK
<1>3. Remembers(h, s, own, before)'
  BY <1>2, RemembersGrown
<1>4. \A q \in before : req'[q].pc = "ended"
  BY <1>1, <1>2 DEF Grown
<1>5. /\ req'[r].hist = h /\ req'[r].session = s
      /\ req'[r].own = own /\ req'[r].before = before
  BY <1>1
<1> QED
  BY <1>2, <1>3, <1>4, <1>5 DEF HistoryOK

\* The steps of one request that leave its history.
Follows(r) ==
  /\ MessagesOf(r) /\ req[r].pc # "ended"
  /\ \A q \in Request : q # r => req'[q] = req[q]

LEMMA FollowsGrown ==
  ASSUME TypeInv, NEW r \in Request, Follows(r)
  PROVE  Grown
<1>1. Len(messages) \in Nat /\ Len(messages') \in Nat /\ Len(messages) <= Len(messages')
  BY RowFacts DEF Follows, MessagesOf
<1>2. ASSUME NEW i \in 1 .. Len(messages)
      PROVE  /\ messages'[i].role = messages[i].role
             /\ messages'[i].session = messages[i].session
             /\ messages'[i].ask = messages[i].ask
             /\ messages[i].state = "kept" => messages'[i].state = "kept"
             /\ req[messages[i].ask].pc = "ended" => messages'[i].text = messages[i].text
  BY DEF Follows, MessagesOf
<1>3. \A q \in Request : req[q].pc = "ended" => req'[q].pc = "ended"
  BY DEF Follows
<1> QED
  BY <1>1, <1>2, <1>3 DEF Grown

LEMMA OthersStay ==
  ASSUME TypeInv, RequestsTyped, HistoriesOK, NEW r \in Request, Follows(r),
         HistoryOK(r)'
  PROVE  HistoriesOK'
<1>1. Grown
  BY FollowsGrown
<1>2. ASSUME NEW q \in Request, q # r
      PROVE  HistoryOK(q)'
  <2>1. req'[q] = req[q] /\ HistoryOK(q) /\ req[q].before \in SUBSET Request
    BY <1>2, RequestFacts DEF Follows, HistoriesOK
  <2> QED
    BY <1>1, <2>1, HistoryStays
<1> QED
  BY <1>2 DEF HistoriesOK

LEMMA MovedHistories ==
  ASSUME TypeInv, RequestsTyped, HistoriesOK, NEW r \in Request, NEW to,
         req' = [req EXCEPT ![r] = to], MessagesOf(r), req[r].pc # "ended",
         to.hist = req[r].hist, to.before = req[r].before,
         to.session = req[r].session, to.own = req[r].own, to.pc # "idle"
  PROVE  HistoriesOK'
<1>1. req'[r] = to /\ \A q \in Request : q # r => req'[q] = req[q]
  BY DEF RequestsTyped
<1>2. Follows(r)
  BY <1>1 DEF Follows
<1>3. HistoryOK(r) /\ req[r].before \in SUBSET Request
  BY RequestFacts DEF HistoriesOK
<1>4. HistoryOK(r)'
  BY <1>1, <1>2, <1>3, FollowsGrown, HistoryStays
<1> QED
  BY <1>2, <1>4, OthersStay

\* A field the step does not name.
LEMMA FieldsKept ==
  ASSUME RequestsTyped, NEW r \in Request
  PROVE  /\ \A p : LET to == [req[r] EXCEPT !.pc = p]
                   IN  /\ to.hist = req[r].hist /\ to.before = req[r].before
                       /\ to.session = req[r].session /\ to.own = req[r].own
                       /\ to.pc = p
         /\ \A p, h : LET to == [req[r] EXCEPT !.pc = p, !.hist = h]
                      IN  /\ to.hist = h /\ to.before = req[r].before
                          /\ to.session = req[r].session /\ to.own = req[r].own
                          /\ to.pc = p
         /\ \A n, g, m, lost :
              LET to == [req[r] EXCEPT !.pc = "rowed", !.sent = n, !.gap = g,
                                       !.msg = m, !.lost = lost]
              IN  /\ to.hist = req[r].hist /\ to.before = req[r].before
                  /\ to.session = req[r].session /\ to.own = req[r].own
                  /\ to.pc = "rowed"
         /\ \A m : LET to == [req[r] EXCEPT !.pc = "streaming", !.msg = m]
                   IN  /\ to.hist = req[r].hist /\ to.before = req[r].before
                       /\ to.session = req[r].session /\ to.own = req[r].own
                       /\ to.pc = "streaming"
         /\ \A n : LET to == [req[r] EXCEPT !.sent = n]
                   IN  /\ to.hist = req[r].hist /\ to.before = req[r].before
                       /\ to.session = req[r].session /\ to.own = req[r].own
                       /\ to.pc = req[r].pc
         /\ \A g, lost :
              LET to == [req[r] EXCEPT !.pc = "rowed", !.gap = g, !.lost = lost]
              IN  /\ to.hist = req[r].hist /\ to.before = req[r].before
                  /\ to.session = req[r].session /\ to.own = req[r].own
                  /\ to.pc = "rowed"
<1>1. PICK G : req[r] \in RequestType(G)
  BY DEF RequestsTyped
<1>2. PICK d : req[r] = d /\ d \in RequestType(G)
  BY <1>1
<1>3. DOMAIN d = {"pc", "kind", "user", "session", "own", "msg", "sent", "gap", "lost",
                  "hist", "before"}
  BY <1>2 DEF RequestType
<1> QED
  BY <1>2 DEF RequestType

-----------------------------------------------------------------------------
(* The steps, of histories *)

LEMMA LogHistories ==
  ASSUME TypeInv, RequestsTyped, LogOK, HistoriesOK, NEW r \in Request,
         CommitLog(r) \/ RollbackLog(r)
  PROVE  HistoriesOK'
<1>1. PICK p \in {"ended", "logged", "failed"}, state \in {"kept", "gone"} :
        /\ req[r].pc = "logging"
        /\ req' = [req EXCEPT ![r] = [req[r] EXCEPT !.pc = p]]
        /\ messages' = [messages EXCEPT ![req[r].own].state = state]
  BY DEF CommitLog, RollbackLog, Step
<1>2. PICK n : n = req[r].own
  OBVIOUS
<1>3. /\ n \in 1 .. Len(messages) /\ messages[n].ask = r
      /\ messages[n].state # "kept"
  BY <1>1, <1>2 DEF LogOK, RequestOK
<1>4. MessagesOf(r)
  <2>1. messages' = [messages EXCEPT ![n].state = state]
    BY <1>1, <1>2
  <2> QED
    BY <1>3, <2>1, StateSet
<1> DEFINE to == [req[r] EXCEPT !.pc = p]
<1>5. /\ to.hist = req[r].hist /\ to.before = req[r].before
      /\ to.session = req[r].session /\ to.own = req[r].own /\ to.pc = p
  BY FieldsKept
<1>6. req' = [req EXCEPT ![r] = to] /\ req[r].pc # "ended"
  BY <1>1
<1> HIDE DEF to
<1>7. to.pc # "idle"
  BY <1>5
<1> QED
  BY <1>4, <1>5, <1>6, <1>7, MovedHistories

LEMMA FailHistories ==
  ASSUME TypeInv, RequestsTyped, HistoriesOK, NEW r \in Request,
         Fail(r) \/ RecordGap(r) \/ GapLost(r)
  PROVE  HistoriesOK'
<1>1. PICK p \in {"failed", "ended"} :
        /\ req[r].pc # "ended"
        /\ req' = [req EXCEPT ![r] = [req[r] EXCEPT !.pc = p]]
        /\ messages' = messages
  <2>1. PICK G : req \in [Request -> RequestType(G)]
    BY DEF RequestsTyped
  <2> QED
    BY <2>1 DEF Fail, RecordGap, GapLost, Step
<1>2. MessagesOf(r)
  BY <1>1, MessagesSame
<1> DEFINE to == [req[r] EXCEPT !.pc = p]
<1>3. /\ to.hist = req[r].hist /\ to.before = req[r].before
      /\ to.session = req[r].session /\ to.own = req[r].own /\ to.pc = p
  BY FieldsKept
<1>4. req' = [req EXCEPT ![r] = to] /\ req[r].pc # "ended"
  BY <1>1
<1> HIDE DEF to
<1>5. to.pc # "idle"
  BY <1>3
<1> QED
  BY <1>2, <1>3, <1>4, <1>5, MovedHistories

LEMMA AnswerHistories ==
  ASSUME TypeInv, RequestsTyped, LogOK, HistoriesOK, NEW r \in Request,
         Answer(r) \/ AnswerLost(r)
  PROVE  HistoriesOK'
<1>1. PICK n \in AnswerSizes, g \in BOOLEAN, m \in {0, Len(messages) + 1}, lost \in BOOLEAN :
        /\ req[r].pc = "prepared"
        /\ req' = [req EXCEPT ![r] = [req[r] EXCEPT !.pc = "rowed", !.sent = n, !.gap = g,
                                                    !.msg = m, !.lost = lost]]
        /\ messages' = IF lost THEN messages
                       ELSE Append(messages, Row(req[r].session, "assistant", r, n, "kept"))
  BY DEF Answer, AnswerLost, Answered, Step
<1>2. MessagesOf(r)
  <2>1. CASE lost
    BY <1>1, <2>1, MessagesSame
  <2>2. CASE ~lost
    <3> DEFINE row == Row(req[r].session, "assistant", r, n, "kept")
    <3>1. req[r].session \in Session /\ n \in Nat
      BY <1>1, ChatAssumption DEF LogOK, RequestOK
    <3>2. row \in MessageRow
      BY <3>1 DEF Row, MessageRow
    <3>3. messages' = Append(messages, row)
      BY <1>1, <2>2
    <3> HIDE DEF row
    <3> QED
      BY <3>2, <3>3, MessagesAppend
  <2> QED
    BY <2>1, <2>2
<1> DEFINE to == [req[r] EXCEPT !.pc = "rowed", !.sent = n, !.gap = g, !.msg = m, !.lost = lost]
<1>3. /\ to.hist = req[r].hist /\ to.before = req[r].before
      /\ to.session = req[r].session /\ to.own = req[r].own /\ to.pc = "rowed"
  BY FieldsKept
<1>4. req' = [req EXCEPT ![r] = to] /\ req[r].pc # "ended"
  BY <1>1
<1> HIDE DEF to
<1>5. to.pc # "idle"
  BY <1>3
<1> QED
  BY <1>2, <1>3, <1>4, <1>5, MovedHistories

LEMMA OpenStreamHistories ==
  ASSUME TypeInv, RequestsTyped, LogOK, HistoriesOK, NEW r \in Request, OpenStream(r)
  PROVE  HistoriesOK'
<1> DEFINE to == [req[r] EXCEPT !.pc = "streaming", !.msg = Len(messages) + 1]
           row == Row(req[r].session, "assistant", r, 0, "kept")
<1>1. /\ req[r].pc = "prepared" /\ req' = [req EXCEPT ![r] = to]
      /\ messages' = Append(messages, row)
  BY DEF OpenStream, Step
<1>2. req[r].session \in Session /\ req[r].pc # "ended"
  BY <1>1 DEF LogOK, RequestOK
<1>3. row \in MessageRow
  BY <1>2 DEF Row, MessageRow
<1>4. /\ to.hist = req[r].hist /\ to.before = req[r].before
      /\ to.session = req[r].session /\ to.own = req[r].own /\ to.pc = "streaming"
  BY FieldsKept
<1> HIDE DEF to, row
<1>5. MessagesOf(r)
  BY <1>1, <1>3, MessagesAppend
<1>6. to.pc # "idle"
  BY <1>4
<1> QED
  BY <1>1, <1>2, <1>4, <1>5, <1>6, MovedHistories

LEMMA TokenHistories ==
  ASSUME TypeInv, RequestsTyped, HistoriesOK, NEW r \in Request, Token(r)
  PROVE  HistoriesOK'
<1> DEFINE to == [req[r] EXCEPT !.sent = req[r].sent + 1]
<1>1. req[r].pc = "streaming" /\ req' = [req EXCEPT ![r] = to] /\ messages' = messages
  BY DEF Token, Step
<1>2. MessagesOf(r)
  BY <1>1, MessagesSame
<1>3. /\ to.hist = req[r].hist /\ to.before = req[r].before
      /\ to.session = req[r].session /\ to.own = req[r].own /\ to.pc = req[r].pc
  BY FieldsKept
<1> HIDE DEF to
<1>4. to.pc # "idle" /\ req[r].pc # "ended"
  BY <1>1, <1>3
<1> QED
  BY <1>1, <1>2, <1>3, <1>4, MovedHistories

LEMMA CloseHistories ==
  ASSUME TypeInv, RequestsTyped, LogOK, HistoriesOK, NEW r \in Request,
         Close(r) \/ CloseLost(r)
  PROVE  HistoriesOK'
<1>1. PICK lost \in BOOLEAN : Closed(r, lost)
  BY DEF Close, CloseLost
<1>2. PICK g \in BOOLEAN :
        Step(r, "streaming", [req[r] EXCEPT !.pc = "rowed", !.gap = g, !.lost = lost])
  BY <1>1 DEF Closed
<1> DEFINE to == [req[r] EXCEPT !.pc = "rowed", !.gap = g, !.lost = lost]
<1>3. req[r].pc = "streaming" /\ req' = [req EXCEPT ![r] = to]
  BY <1>2 DEF Step
<1>4. /\ to.hist = req[r].hist /\ to.before = req[r].before
      /\ to.session = req[r].session /\ to.own = req[r].own /\ to.pc = "rowed"
  BY FieldsKept
<1> HIDE DEF to
<1>5. MessagesOf(r)
  <2>1. PICK n, k : n = req[r].msg /\ k = req[r].sent
    OBVIOUS
  <2>2. n \in 1 .. Len(messages) /\ messages[n].ask = r /\ k \in Nat
    BY <1>3, <2>1, RequestFacts DEF LogOK, RequestOK
  <2>3. CASE lost
    <3>1. messages' = messages
      BY <1>1, <2>3 DEF Closed
    <3> QED
      BY <3>1, MessagesSame
  <2>4. CASE ~lost
    <3>1. messages' = [messages EXCEPT ![n].text = k]
      BY <1>1, <2>1, <2>4 DEF Closed
    <3> QED
      BY <2>2, <3>1, TextSet, Zenon
  <2> QED
    BY <2>3, <2>4
<1>6. to.pc # "idle" /\ req[r].pc # "ended"
  BY <1>3, <1>4
<1> QED
  BY <1>3, <1>4, <1>5, <1>6, MovedHistories

LEMMA ReadHistories ==
  ASSUME TypeInv, RequestsTyped, HistoriesOK, NEW r \in Request, ReadHistory(r)
  PROVE  HistoriesOK'
<1>1. PICK h, s, own, before : /\ h = History(s, own) /\ s = req[r].session
                               /\ own = req[r].own /\ before = req[r].before
  OBVIOUS
<1>2. /\ req[r].pc = "logged" /\ messages' = messages
      /\ req' = [req EXCEPT ![r] = [req[r] EXCEPT !.pc = "prepared", !.hist = h]]
  BY <1>1 DEF ReadHistory, Step
<1> DEFINE to == [req[r] EXCEPT !.pc = "prepared", !.hist = h]
<1>3. /\ to.hist = h /\ to.before = before /\ to.session = s /\ to.own = own
      /\ to.pc = "prepared"
  BY <1>1, FieldsKept
<1>4. req' = [req EXCEPT ![r] = to]
  BY <1>2
<1> HIDE DEF to
<1>5. req'[r] = to /\ \A q \in Request : q # r => req'[q] = req[q]
  BY <1>4 DEF RequestsTyped
<1>6. MessagesOf(r)
  BY <1>2, MessagesSame
<1>7. Follows(r)
  BY <1>2, <1>5, <1>6 DEF Follows
<1>8. Grown
  BY <1>7, FollowsGrown
<1>9. own \in Nat /\ \A q \in before : q \in Request /\ req[q].pc = "ended"
  BY <1>1, RequestFacts DEF HistoriesOK, HistoryOK
<1>10. Recalls(h, s, own)
  BY <1>1, <1>9, HistoryRecalls
<1>11. Remembers(h, s, own, before)
  BY <1>10 DEF Recalls, Remembers
<1>12. Remembers(h, s, own, before)'
  BY <1>8, <1>9, <1>11, RemembersGrown
<1>13. \A q \in before : req'[q].pc = "ended"
  BY <1>8, <1>9 DEF Grown
<1>14. HistoryOK(r)'
  BY <1>3, <1>5, <1>12, <1>13 DEF HistoryOK
<1> QED
  BY <1>7, <1>14, OthersStay

LEMMA NothingRemembered ==
  ASSUME NEW s, NEW own, NEW before
  PROVE  Remembers(<<>>, s, own, before)
<1> DEFINE texts == [k \in DOMAIN <<>> |-> <<>>[k].text]
<1>1. MaxChars \in Nat /\ MaxTurns \in Nat
  BY ChatAssumption
<1>2. PICK n \in Nat : n = 0 /\ \A k \in 1 .. n : texts[k] \in Nat
  OBVIOUS
<1>3. Chars(texts, 0) = 0
  <2> HIDE DEF texts
  <2>1. PICK u : Sums(u, texts, n) /\ \A k \in 0 .. n : Chars(texts, k) = u[k]
    BY <1>2, CharsRun
  <2> QED
    BY <1>2, <2>1 DEF Sums
<1>4. <<>> \in Seq(HistoryType) /\ Len(<<>>) = 0
  OBVIOUS
<1>5. Chars([k \in DOMAIN <<>> |-> <<>>[k].text], Len(<<>>)) <= MaxChars
  BY <1>1, <1>3, <1>4
<1> HIDE DEF texts
<1> QED
  BY <1>1, <1>4, <1>5 DEF Remembers

LEMMA AskHistories ==
  ASSUME IInv, HistoriesOK, NEW r \in Request, Ask(r)
  PROVE  HistoriesOK'
<1>0. TypeInv /\ RequestsTyped /\ LogOK
  BY DEF IInv
<1>1. PICK k \in Kind, s \in Session \union {None} :
        LET unused == {x \in Session : /\ owner[x] = None
                                       /\ \A i \in DOMAIN messages : messages[i].session # x}
            in == IF s = None THEN CHOOSE x \in unused : TRUE ELSE s
            asked == [req[r] EXCEPT !.kind = k,
                                    !.before = {q \in Request : req[q].pc = "ended"}]
        IN  /\ s = None => unused # {}
            /\ IF s # None /\ owner[s] # req[r].user
               THEN /\ Step(r, "idle", [asked EXCEPT !.pc = "refused"])
                    /\ UNCHANGED messages
               ELSE /\ Step(r, "idle", [asked EXCEPT !.pc = "logging", !.session = in,
                                                     !.own = Len(messages) + 1])
                    /\ messages' = Append(messages, Row(in, "user", r, 1, "open"))
  BY DEF Ask
<1> DEFINE unused == {x \in Session : /\ owner[x] = None
                                      /\ \A i \in DOMAIN messages : messages[i].session # x}
           in == IF s = None THEN CHOOSE x \in unused : TRUE ELSE s
           over == {q \in Request : req[q].pc = "ended"}
           asked == [req[r] EXCEPT !.kind = k, !.before = over]
           refused == [asked EXCEPT !.pc = "refused"]
           logging == [asked EXCEPT !.pc = "logging", !.session = in, !.own = Len(messages) + 1]
<1>2. in \in Session
  <2>1. s = None => unused # {}
    BY <1>1
  <2> QED
    BY <2>1
<1>3. req[r].pc = "idle" /\ MessagesOf(r)
      /\ \E to \in {refused, logging} : req' = [req EXCEPT ![r] = to]
  <2>1. CASE s # None /\ owner[s] # req[r].user
    <3>1. Step(r, "idle", refused) /\ messages' = messages
      BY <1>1, <2>1
    <3> HIDE DEF refused, logging
    <3> QED
      BY <1>0, <3>1, MessagesSame DEF Step
  <2>2. CASE ~(s # None /\ owner[s] # req[r].user)
    <3> DEFINE row == Row(in, "user", r, 1, "open")
    <3>1. Step(r, "idle", logging) /\ messages' = Append(messages, row)
      BY <1>1, <2>2
    <3> HIDE DEF in
    <3>2. row \in MessageRow
      BY <1>2 DEF Row, MessageRow
    <3> HIDE DEF refused, logging, row
    <3>3. MessagesOf(r)
      BY <1>0, <3>1, <3>2, MessagesAppend
    <3> QED
      BY <3>1, <3>3 DEF Step
  <2> QED
    BY <2>1, <2>2
<1>4. \A to \in {refused, logging} :
        to.pc # "idle" /\ to.hist = req[r].hist /\ to.before = over
  <2>1. PICK G : req[r] \in RequestType(G)
    BY <1>0 DEF RequestsTyped
  <2> HIDE DEF in, over
  <2>2. PICK d, l, o : req[r] = d /\ l = Len(messages) + 1 /\ o = over
    OBVIOUS
  <2> QED
    BY <2>1, <2>2 DEF RequestType
<1> HIDE DEF refused, logging, over
<1>5. PICK to \in {refused, logging} : req' = [req EXCEPT ![r] = to]
  BY <1>3
<1>6. req'[r] = to /\ \A q \in Request : q # r => req'[q] = req[q]
  BY <1>0, <1>5 DEF RequestsTyped
<1>7. Follows(r)
  BY <1>3, <1>6 DEF Follows
<1>8. Grown
  BY <1>0, <1>7, FollowsGrown
<1>9. req'[r].pc # "idle" /\ req'[r].hist = <<>> /\ req'[r].before = over
  BY <1>3, <1>4, <1>6 DEF HistoriesOK, HistoryOK
<1>10. \A q \in over : req'[q].pc = "ended"
  BY <1>8 DEF Grown, over
<1>11. HistoryOK(r)'
  <2>1. PICK t, own, o : t = req'[r].session /\ own = req'[r].own /\ o = over
    OBVIOUS
  <2>2. Remembers(<<>>, t, own, o)'
    BY NothingRemembered DEF Remembers
  <2> QED
    BY <1>9, <1>10, <2>1, <2>2 DEF HistoryOK
<1> QED
  BY <1>0, <1>7, <1>11, OthersStay

LEMMA CrashHistories ==
  ASSUME IInv, HistoriesOK, Crash
  PROVE  HistoriesOK'
<1>0. TypeInv /\ RequestsTyped
  BY DEF IInv
<1>1. /\ req' = [r \in Request |-> IF req[r].pc \in Working
                                   THEN [req[r] EXCEPT !.pc = "crashed"] ELSE req[r]]
      /\ messages' = [i \in DOMAIN messages |->
                        IF messages[i].state = "open"
                        THEN [messages[i] EXCEPT !.state = "gone"] ELSE messages[i]]
  BY DEF Crash
<1>2. \A r \in Request :
        /\ req'[r].hist = req[r].hist /\ req'[r].before = req[r].before
        /\ req'[r].session = req[r].session /\ req'[r].own = req[r].own
        /\ req'[r].pc = IF req[r].pc \in Working THEN "crashed" ELSE req[r].pc
  <2> TAKE r \in Request
  <2> DEFINE to == [req[r] EXCEPT !.pc = "crashed"]
  <2>1. /\ to.hist = req[r].hist /\ to.before = req[r].before
        /\ to.session = req[r].session /\ to.own = req[r].own /\ to.pc = "crashed"
    BY <1>0, FieldsKept
  <2>2. req'[r] = IF req[r].pc \in Working THEN to ELSE req[r]
    BY <1>1
  <2> HIDE DEF to
  <2> QED
    BY <2>1, <2>2
<1>3. Len(messages') = Len(messages) /\ Len(messages) \in Nat
  <2>1. Len(messages) \in Nat /\ DOMAIN messages = 1 .. Len(messages)
    BY <1>0, RowFacts
  <2> QED
    BY <1>1, <2>1
<1>4. \A i \in 1 .. Len(messages) :
        /\ messages'[i].role = messages[i].role
        /\ messages'[i].session = messages[i].session
        /\ messages'[i].ask = messages[i].ask
        /\ messages'[i].text = messages[i].text
        /\ messages[i].state = "kept" => messages'[i].state = "kept"
  BY <1>0, <1>1, RowFacts DEF MessageRow
<1>5. Grown
  BY <1>2, <1>3, <1>4 DEF Grown, Working
<1>6. \A r \in Request : HistoryOK(r) /\ req[r].before \in SUBSET Request
  BY <1>0, RequestFacts DEF HistoriesOK
<1>7. \A r \in Request : req'[r].pc = "idle" => req[r].pc = "idle"
  BY <1>2
<1>8. \A r \in Request : HistoryOK(r)'
  BY <1>2, <1>5, <1>6, <1>7, HistoryStays
<1> QED
  BY <1>8 DEF HistoriesOK

LEMMA SameHistories ==
  ASSUME HistoriesOK, UNCHANGED <<messages, req>>
  PROVE  HistoriesOK'
BY DEF HistoriesOK, HistoryOK, Remembers

LEMMA InitHistories == Init => HistoriesOK
<1> SUFFICES ASSUME Init PROVE HistoriesOK
  OBVIOUS
<1>1. PICK by \in [Request -> User] :
        req = [r \in Request |-> [IdleRequest EXCEPT !.user = by[r]]]
  BY DEF Init
<1>2. \A r \in Request : req[r].hist = <<>> /\ req[r].before = {}
  BY <1>1 DEF IdleRequest
<1> QED
  BY <1>2, NothingRemembered DEF HistoriesOK, HistoryOK

LEMMA StepHistories == IInv /\ HistoriesOK /\ [Next]_chatVars => HistoriesOK'
<1> SUFFICES ASSUME IInv, HistoriesOK, [Next]_chatVars PROVE HistoriesOK'
  OBVIOUS
<1>0. TypeInv /\ RequestsTyped /\ LogOK
  BY DEF IInv
<1>1. CASE UNCHANGED chatVars
  BY <1>1, SameHistories DEF chatVars
<1>2. ASSUME NEW r \in Request,
             Ask(r) \/ RequestStep(r) \/ Token(r) \/ RequestFault(r)
      PROVE  HistoriesOK'
  BY <1>0, <1>2, AskHistories, LogHistories, ReadHistories, AnswerHistories,
     OpenStreamHistories, CloseHistories, FailHistories, TokenHistories
     DEF RequestStep, RequestFault
<1>3. ASSUME NEW c \in Call,
             ReadRating(c) \/ RateStep(c) \/ RatingLost(c) \/ FlagLost(c)
      PROVE  HistoriesOK'
  <2>1. UNCHANGED <<messages, req>>
    BY <1>3 DEF ReadRating, RateStep, CommitRating, ReadGap, CommitGap, RatingLost, FlagLost
  <2> QED
    BY <2>1, SameHistories
<1>4. ASSUME NEW g \in DOMAIN gaps, Resolve(g)
      PROVE  HistoriesOK'
  BY <1>4, SameHistories DEF Resolve
<1>5. CASE Crash
  BY <1>5, CrashHistories
<1> QED
  BY <1>1, <1>2, <1>3, <1>4, <1>5 DEF Next, Quiescent

-----------------------------------------------------------------------------
(* The theorems *)

LEMMA InitIInv == Init => IInv
<1> SUFFICES ASSUME Init PROVE IInv
  OBVIOUS
<1>1. PICK by \in [Request -> User] :
        req = [r \in Request |-> [IdleRequest EXCEPT !.user = by[r]]]
  BY DEF Init
<1>2. PICK who \in [Call -> User] :
        call = [c \in Call |-> [IdleCall EXCEPT !.user = who[c]]]
  BY DEF Init
<1>3. /\ messages = <<>> /\ ratings = <<>> /\ gaps = <<>> /\ faults = 0
      /\ owner = [s \in Session |-> None]
      /\ MaxFaults \in Nat /\ MaxTokens \in Nat
  BY ChatAssumption DEF Init
<1>4. RequestsTyped
  <2>1. 0 \in (0 .. MaxTokens) \union AnswerSizes
    BY <1>3
  <2>2. \A r \in Request : [IdleRequest EXCEPT !.user = by[r]] \in RequestType({<<>>})
    BY <2>1 DEF IdleRequest, RequestType, Kind
  <2> QED BY <1>1, <2>2 DEF RequestsTyped
<1>5. \A c \in Call : [IdleCall EXCEPT !.user = who[c]] \in CallType
  BY DEF IdleCall, CallType, Op
<1>6. TypeInv
  BY <1>2, <1>3, <1>5 DEF TypeInv
<1>7. \A r \in Request : /\ req[r].pc = "idle" /\ req[r].own = 0 /\ req[r].msg = 0
                         /\ req[r].sent = 0 /\ ~req[r].lost
  BY <1>1 DEF IdleRequest
<1>8. LogOK
  <2>1. 1 .. Len(messages) = {}
    BY <1>3
  <2> QED BY <1>7, <2>1 DEF LogOK, RequestOK
<1>9. \A c \in Call : /\ call[c].pc = "idle" /\ call[c].message = 0
                      /\ call[c].row = 0 /\ call[c].gap = 0
  BY <1>2 DEF IdleCall
<1>10. RatingsOK
  <2>1. 1 .. Len(gaps) = {} /\ 0 \in 0 .. Len(gaps) /\ 0 \in 0 .. Len(ratings)
    BY <1>3
  <2> QED BY <1>9, <2>1 DEF RatingsOK, CallOK
<1> QED BY <1>4, <1>6, <1>8, <1>10 DEF IInv

LEMMA StepIInv == IInv /\ [Next]_chatVars => IInv'
<1> SUFFICES ASSUME IInv, [Next]_chatVars PROVE IInv'
  OBVIOUS
<1>1. CASE UNCHANGED chatVars
  BY <1>1 DEF chatVars, IInv, TypeInv, RequestsTyped, LogOK, RequestOK, RowOK, RatingsOK,
              GapOK, CallOK, Names, IsAnswer, GapsOf
<1>2. ASSUME NEW r \in Request,
             Ask(r) \/ RequestStep(r) \/ Token(r) \/ RequestFault(r)
      PROVE  IInv'
  BY <1>2, RequestInv
<1>3. ASSUME NEW c \in Call,
             ReadRating(c) \/ RateStep(c) \/ RatingLost(c) \/ FlagLost(c)
      PROVE  IInv'
  BY <1>3, ReadRatingStep, CommitRatingStep, ReadGapStep, CommitGapStep, RatingLostStep,
     FlagLostStep DEF RateStep
<1>4. ASSUME NEW g \in DOMAIN gaps, Resolve(g)
      PROVE  IInv'
  BY <1>4, ResolveStep
<1>5. CASE Crash
  BY <1>5, CrashStep
<1> QED BY <1>1, <1>2, <1>3, <1>4, <1>5 DEF Next, Quiescent

(* Of every row, request, rating and gap: where it is and what it names.     *)
THEOREM Invariance == Spec => []IInv
  BY InitIInv, StepIInv, PTL DEF Spec

(* Every variable keeps its type: the ids that requests, calls and gaps hold *)
(* are those of rows that exist.                                             *)
THEOREM TypeCorrect == Spec => []TypeOK
<1>1. IInv => TypeOK
  <2> SUFFICES ASSUME IInv PROVE TypeOK
    OBVIOUS
  <2>1. TypeInv /\ RequestsTyped /\ LogOK /\ RatingsOK
    BY DEF IInv
  <2>2. ASSUME NEW r \in Request
        PROVE  {req[r].own, req[r].msg} \subseteq 0 .. Len(messages)
    BY <2>1, RowFacts DEF LogOK, RequestOK
  <2>3. ASSUME NEW c \in Call
        PROVE  call[c].message \in 0 .. Len(messages)
    <3>1. CallOK(c) /\ call[c].message \in Nat /\ Len(messages) \in Nat
      BY <2>1, CallFacts, RowFacts DEF RatingsOK
    <3> QED BY <3>1 DEF CallOK, IsAnswer
  <2>4. \A c \in Call : call[c].row \in 0 .. Len(ratings) /\ call[c].gap \in 0 .. Len(gaps)
    BY <2>1 DEF RatingsOK, CallOK
  <2> QED BY <2>1, <2>2, <2>3, <2>4, RequestFacts, CallFacts DEF TypeOK, TypeInv, MessageRow
<1> QED BY <1>1, Invariance, PTL

(* The row of an answer is what its reader saw, whatever ends the stream and *)
(* whichever requests run beside it: log_assistant_message and the finally   *)
(* of the stream write what was sent, once.                                  *)
THEOREM RowKept == Spec => []RowIsWhatWasSent
<1>1. IInv => RowIsWhatWasSent
  BY DEF IInv, LogOK, RequestOK, RowIsWhatWasSent
<1> QED BY <1>1, Invariance, PTL

(* A gap is filed under the question of its answer, or under one asked in    *)
(* the same conversation while that answer was on its way: what              *)
(* flag_knowledge_gap_from_feedback finds by going back from the answer.     *)
THEOREM GapNamed == Spec => []GapNamesItsQuestion
<1>1. IInv => GapNamesItsQuestion
  <2> SUFFICES ASSUME IInv, NEW g \in DOMAIN gaps, gaps[g].message # 0
               PROVE  LET row == messages[gaps[g].message]
                          named == gaps[g].ask
                      IN  \/ named = row.ask
                          \/ /\ gaps[g].by # None /\ named # None
                             /\ req[named].session = row.session
                             /\ req[row.ask].own < req[named].own
                             /\ req[named].own < gaps[g].message
    BY DEF GapNamesItsQuestion
  <2>1. GapOK(g)
    BY GapFacts DEF IInv, RatingsOK
  <2>2. None \notin Request
    BY ChatAssumption
  <2> QED BY <2>1, <2>2 DEF GapOK, Names
<1> QED BY <1>1, Invariance, PTL

(* A negative rating that was answered with a 200 is on a flagged gap of its *)
(* answer, unless that write failed, and is never a second gap for an answer *)
(* known to have one: submit_feedback commits the rating before it looks.    *)
THEOREM NegativeKept == Spec => []NegativeRatingKept
<1>1. IInv => NegativeRatingKept
  <2> SUFFICES ASSUME IInv PROVE NegativeRatingKept
    OBVIOUS
  <2>1. \A c \in Call : CallOK(c)
    BY DEF IInv, RatingsOK
  <2>2. \A g \in DOMAIN gaps : GapOK(g)
    BY GapFacts DEF IInv, RatingsOK
  <2> QED BY <2>1, <2>2 DEF NegativeRatingKept, CallOK, GapOK
<1> QED BY <1>1, Invariance, PTL

(* A question has in its history whole answers where they were whole when it *)
(* was asked, and of its conversation only what was committed before it, in  *)
(* order and within the bounds, however the requests run beside each other:  *)
(* what get_bounded_conversation_history reads.                              *)
THEOREM HistoryKept == Spec => []HistoryRemembers
<1>1. Spec => []HistoriesOK
  BY InitHistories, StepHistories, Invariance, PTL DEF Spec
<1>2. IInv /\ HistoriesOK => HistoryRemembers
  <2> SUFFICES ASSUME IInv, HistoriesOK, NEW r \in Request
               PROVE  LET h == req[r].hist
                      IN  /\ Chars([k \in DOMAIN h |-> h[k].text], Len(h)) <= MaxChars
                          /\ Len(h) <= 2 * MaxTurns
                          /\ \A k \in DOMAIN h :
                               LET row == messages[h[k].id]
                               IN  /\ row.session = req[r].session /\ row.state = "kept"
                                   /\ h[k].id < req[r].own
                                   /\ k > 1 => h[k - 1].id < h[k].id
                                   /\ row.role = "assistant" /\ row.ask \in req[r].before =>
                                        h[k].text = Min({row.text, MaxChars})
    BY DEF HistoryRemembers
  <2>1. PICK h : h = req[r].hist
    OBVIOUS
  <2>2. Remembers(h, req[r].session, req[r].own, req[r].before)
    BY <2>1 DEF HistoriesOK, HistoryOK
  <2>3. DOMAIN h = 1 .. Len(h) /\ \A k \in 1 .. Len(h) : k > 1 => k \in 2 .. Len(h)
    BY <2>2 DEF Remembers
  <2> QED
    BY <2>1, <2>2, <2>3 DEF Remembers
<1> QED
  BY <1>1, <1>2, Invariance, PTL
=============================================================================
