------------------------------ MODULE ChatLog ------------------------------
(***************************************************************************)
(* The log of conversations: what POST /search, /chat and /chat/stream     *)
(* write to PostgreSQL while they run, what a later question reads back as *)
(* its history, and what ratings of an answer add: rows of                 *)
(* message_feedback and knowledge_gaps.                                    *)
(*                                                                         *)
(* src/backend/app/routes.py, services/retrieval_logging_service.py,       *)
(* services/knowledge_gap_service.py, feedback_routes.py.                  *)
(*                                                                         *)
(* A request runs in a thread of its own and every helper opens its own    *)
(* session, so anything may happen between two of its transactions.  Row   *)
(* ids come from sequences: an id is given when a row is inserted, the row *)
(* is seen by others when its transaction commits, and a rollback leaves a *)
(* hole.  Texts are counted, not spelled: a question is one character, an  *)
(* answer the number of tokens it holds.                                   *)
(***************************************************************************)
EXTENDS Integers, Sequences, FiniteSetsExt, SequencesExt

CONSTANTS User, Admins,     \* accounts that may ask; those that administer
          Request, Call,    \* requests that ask; calls that rate or withdraw
          Session,          \* ids chat_sessions may hand out
          MaxTokens,        \* bound: tokens of a streamed answer
          AnswerSizes,      \* bound: sizes of an answer given at once
          MaxTurns,         \* max_turns of the history
          MaxChars,         \* max_chars of the history
          MaxFaults,        \* bound: failed writes and crashes
          None

ASSUME ChatAssumption ==
  /\ Admins \subseteq User
  /\ {MaxTokens, MaxTurns, MaxChars, MaxFaults} \subseteq Nat
  /\ AnswerSizes \subseteq Nat \ {0}
  /\ None \notin Session \union User \union Request \union Call

VARIABLES messages,   \* chat_messages by id
          owner,      \* chat_sessions: the owner of each committed session
          req,        \* each request
          ratings,    \* message_feedback by id
          gaps,       \* knowledge_gaps by id
          call,       \* each call on a rating
          faults
chatVars == <<messages, owner, req, ratings, gaps, call, faults>>

Kind == {"search", "chat", "stream"}
Op == {"helpful", "negative", "delete"}
Over == {"refused", "failed", "crashed", "ended"}
Working == {"logging", "logged", "prepared", "streaming", "rowed"}

IdleRequest ==
  [pc |-> "idle", kind |-> "chat", user |-> None, session |-> None, own |-> 0,
   msg |-> 0, sent |-> 0, gap |-> FALSE, lost |-> FALSE,
   hist |-> <<>>, before |-> {}]
IdleCall ==
  [pc |-> "idle", op |-> "delete", user |-> None, message |-> 0, row |-> 0,
   gap |-> 0, ask |-> None, known |-> FALSE, lost |-> FALSE]

Init ==
  /\ messages = <<>>
  /\ owner = [s \in Session |-> None]
  /\ \E by \in [Request -> User] :
       req = [r \in Request |-> [IdleRequest EXCEPT !.user = by[r]]]
  /\ ratings = <<>>
  /\ gaps = <<>>
  /\ \E by \in [Call -> User] :
       call = [c \in Call |-> [IdleCall EXCEPT !.user = by[c]]]
  /\ faults = 0

Fault == faults < MaxFaults /\ faults' = faults + 1

-----------------------------------------------------------------------------
(* What a query sees.                                                      *)

Kept(role, s) ==
  {i \in DOMAIN messages : /\ messages[i].state = "kept"
                           /\ messages[i].role = role
                           /\ messages[i].session = s}

(* Fault: the last question of the session. *)
PrecedingQuestion_Last(m) ==
  LET asked == Kept("user", messages[m].session)
  IN  IF asked = {} THEN None ELSE messages[Max(asked)].ask

\* The question a rating is filed under: the last user message of the
\* session before the answer.
PrecedingQuestion(m) ==
  LET earlier == {i \in Kept("user", messages[m].session) : i < m}
  IN  IF earlier = {} THEN None ELSE messages[Max(earlier)].ask

\* The characters of the first n texts.
Chars(texts, n) ==
  LET used[k \in 0 .. n] == IF k = 0 THEN 0 ELSE used[k - 1] + texts[k]
  IN  used[n]

\* The newest rows, newest first, as long as they fit: the first always
\* does, cut to its end when it is too long by itself.
BoundedHistory(ids) ==
  LET cut == [k \in 1 .. Len(ids) |->
                IF k = 1 THEN Min({messages[ids[1]].text, MaxChars}) ELSE messages[ids[k]].text]
      taken == {n \in 0 .. Len(ids) : \A k \in 2 .. n : Chars(cut, k) <= MaxChars}
  IN  [k \in 1 .. Max(taken) |-> [id |-> ids[k], text |-> cut[k]]]

\* The ids, the greatest first.
Newest(ids, limit) ==
  [k \in 1 .. Min({Cardinality(ids), limit}) |->
     CHOOSE i \in ids : Cardinality({j \in ids : j > i}) = k - 1]

(* Fault: the question itself is not kept out. *)
History_WithOwn(s, own) ==
  LET rows == Kept("user", s) \union Kept("assistant", s)
  IN  Reverse(BoundedHistory(Newest(rows, 2 * MaxTurns)))

History(s, own) ==
  LET rows == {i \in Kept("user", s) \union Kept("assistant", s) : i < own}
  IN  Reverse(BoundedHistory(Newest(rows, 2 * MaxTurns)))

RatingsOf(m, u) ==
  {i \in DOMAIN ratings : /\ ratings[i].live
                          /\ ratings[i].message = m
                          /\ ratings[i].user = u}
GapsOf(m) == {g \in DOMAIN gaps : gaps[g].message = m}

-----------------------------------------------------------------------------
(* The request.                                                            *)

Step(r, from, to) ==
  /\ req[r].pc = from
  /\ req' = [req EXCEPT ![r] = to]

(* Fault: the row of a stream is inserted with NULL for its text. *)
Row_Null(s, role, r, n, state) ==
  [session |-> s, role |-> role, ask |-> r, text |-> IF n = 0 THEN None ELSE n,
   state |-> state]

Row(s, role, r, n, state) ==
  [session |-> s, role |-> role, ask |-> r, text |-> n, state |-> state]

\* The request names one of the caller's sessions or none at all.  The named
\* session is checked first, then the search runs, then log_retrieval_event
\* opens its transaction: a session if none was named, the user's message, the
\* retrieval and its results.
Ask(r) ==
  \E k \in Kind, s \in Session \union {None} :
    LET unused == {x \in Session : /\ owner[x] = None
                                   /\ \A i \in DOMAIN messages : messages[i].session # x}
        in == IF s = None THEN CHOOSE x \in unused : TRUE ELSE s
        asked == [req[r] EXCEPT !.kind = k,
                                !.before = {q \in Request : req[q].pc = "ended"}]
    IN  /\ s = None => unused # {}
        /\ k = "search" => s = None
        /\ IF s # None /\ owner[s] # req[r].user
           THEN /\ Step(r, "idle", [asked EXCEPT !.pc = "refused"])
                /\ UNCHANGED messages
           ELSE /\ Step(r, "idle", [asked EXCEPT !.pc = "logging", !.session = in,
                                                 !.own = Len(messages) + 1])
                /\ messages' = Append(messages, Row(in, "user", r, 1, "open"))
        /\ UNCHANGED <<owner, ratings, gaps, call, faults>>

CommitLog(r) ==
  /\ Step(r, "logging",
          [req[r] EXCEPT !.pc = IF req[r].kind = "search" THEN "ended" ELSE "logged"])
  /\ messages' = [messages EXCEPT ![req[r].own].state = "kept"]
  /\ owner' = [owner EXCEPT ![req[r].session] = req[r].user]
  /\ UNCHANGED <<ratings, gaps, call, faults>>

RollbackLog(r) ==
  /\ Fault
  /\ Step(r, "logging", [req[r] EXCEPT !.pc = "failed"])
  /\ messages' = [messages EXCEPT ![req[r].own].state = "gone"]
  /\ UNCHANGED <<owner, ratings, gaps, call>>

\* An error outside these transactions: the history, the decision tables, the
\* start of a stream.  The client gets a 500; what was committed stays.
Fail(r) ==
  /\ req[r].pc \in {"logged", "prepared"}
  /\ Fault
  /\ req' = [req EXCEPT ![r].pc = "failed"]
  /\ UNCHANGED <<messages, owner, ratings, gaps, call>>

ReadHistory(r) ==
  /\ Step(r, "logged",
          [req[r] EXCEPT !.pc = "prepared",
                         !.hist = History(req[r].session, req[r].own)])
  /\ UNCHANGED <<messages, owner, ratings, gaps, call, faults>>

\* POST /chat: a decision table, the model or the rule-based fallback always
\* gives an answer; "gap" stands for its low confidence or its wording.
Answered(r, m, lost) ==
  /\ req[r].kind = "chat"
  /\ \E n \in AnswerSizes, g \in BOOLEAN :
       /\ Step(r, "prepared", [req[r] EXCEPT !.pc = "rowed", !.sent = n, !.gap = g,
                                             !.msg = m, !.lost = lost])
       /\ messages' = IF lost THEN messages
                      ELSE Append(messages, Row(req[r].session, "assistant", r, n, "kept"))
  /\ UNCHANGED <<owner, ratings, gaps, call>>
Answer(r) == Answered(r, Len(messages) + 1, FALSE) /\ UNCHANGED faults

\* The failed insert is swallowed and the answer is sent without a row.
AnswerLost(r) == Answered(r, 0, TRUE) /\ Fault

\* POST /chat/stream: the row is inserted empty, then the tokens flow.
OpenStream(r) ==
  /\ req[r].kind = "stream"
  /\ Step(r, "prepared", [req[r] EXCEPT !.pc = "streaming", !.msg = Len(messages) + 1])
  /\ messages' = Append(messages, Row(req[r].session, "assistant", r, 0, "kept"))
  /\ UNCHANGED <<owner, ratings, gaps, call, faults>>

Token(r) ==
  /\ req[r].sent < MaxTokens
  /\ Step(r, "streaming", [req[r] EXCEPT !.sent = @ + 1])
  /\ UNCHANGED <<messages, owner, ratings, gaps, call, faults>>

(* Fault: the row is written when the model is done, not in the finally. *)
Closed_WhenDone(r, lost) ==
  /\ \E g, done \in BOOLEAN :
       /\ Step(r, "streaming", [req[r] EXCEPT !.pc = "rowed", !.gap = g, !.lost = lost])
       /\ messages' = IF lost \/ ~done THEN messages
                      ELSE [messages EXCEPT ![req[r].msg].text = req[r].sent]
  /\ UNCHANGED <<owner, ratings, gaps, call>>

\* The stream ends: complete, empty, interrupted, timed out, failed or left by
\* the client.  All of them go through the same finally, which writes what was
\* sent; only what the client is told differs.  A failed write is swallowed.
Closed(r, lost) ==
  /\ \E g \in BOOLEAN :
       Step(r, "streaming", [req[r] EXCEPT !.pc = "rowed", !.gap = g, !.lost = lost])
  /\ messages' = IF lost THEN messages
                 ELSE [messages EXCEPT ![req[r].msg].text = req[r].sent]
  /\ UNCHANGED <<owner, ratings, gaps, call>>
(* Fault: the model server is read without a time limit. *)
Close_WhenComplete(r) ==
  req[r].sent = MaxTokens /\ Closed(r, FALSE) /\ UNCHANGED faults
Close(r) == Closed(r, FALSE) /\ UNCHANGED faults
CloseLost(r) == Closed(r, TRUE) /\ Fault

\* record_knowledge_gap_if_needed, then the reply or the "done" event.
RecordGap(r) ==
  /\ Step(r, "rowed", [req[r] EXCEPT !.pc = "ended"])
  /\ gaps' = IF req[r].gap
             THEN Append(gaps, [message |-> req[r].msg, ask |-> r, by |-> None,
                                flagged |-> FALSE, open |-> TRUE])
             ELSE gaps
  /\ UNCHANGED <<messages, owner, ratings, call, faults>>

GapLost(r) ==
  /\ req[r].gap
  /\ Fault
  /\ Step(r, "rowed", [req[r] EXCEPT !.pc = "ended"])
  /\ UNCHANGED <<messages, owner, ratings, gaps, call>>

-----------------------------------------------------------------------------
(* Ratings.                                                                *)

CallStep(c, from, to) ==
  /\ call[c].pc = from
  /\ call' = [call EXCEPT ![c] = to]

\* Who may, and which of the caller's rows the call works on: the first.
ReadRating(c) ==
  /\ \E o \in Op, i \in DOMAIN messages :
       LET u == call[c].user
           mine == RatingsOf(i, u)
           row == IF mine = {} THEN 0 ELSE Min(mine)
       IN  /\ messages[i].state = "kept" /\ messages[i].role = "assistant"
           /\ CallStep(c, "idle",
                [call[c] EXCEPT
                   !.pc = IF u \notin Admins /\ owner[messages[i].session] # u THEN "refused"
                          ELSE IF o = "delete" /\ row = 0 THEN "ended" ELSE "read",
                   !.op = o, !.message = i, !.row = row])
  /\ UNCHANGED <<messages, owner, req, ratings, gaps, faults>>

\* An update of a row that is gone fails; a second delete of it does not.
CommitRating(c) ==
  LET me == call[c]
      stale == me.row # 0 /\ ~ratings[me.row].live
  IN  /\ CallStep(c, "read",
           [me EXCEPT !.pc = IF stale /\ me.op # "delete" THEN "failed"
                             ELSE IF me.op = "negative" THEN "rated" ELSE "ended",
                      !.known = GapsOf(me.message) # {}])
      /\ ratings' =
           IF me.op = "delete" THEN [ratings EXCEPT ![me.row].live = FALSE]
           ELSE IF me.row = 0
                THEN Append(ratings, [message |-> me.message, user |-> me.user,
                                      rating |-> me.op, live |-> TRUE])
                ELSE IF stale THEN ratings
                     ELSE [ratings EXCEPT ![me.row].rating = me.op]
      /\ UNCHANGED <<messages, owner, req, gaps, faults>>

RatingLost(c) ==
  /\ Fault
  /\ CallStep(c, "read", [call[c] EXCEPT !.pc = "failed"])
  /\ UNCHANGED <<messages, owner, req, ratings, gaps>>

(* Fault: a new gap for every negative rating. *)
ReadGap_New(c) ==
  /\ CallStep(c, "rated", [call[c] EXCEPT !.pc = "looked",
                            !.ask = PrecedingQuestion(call[c].message)])
  /\ UNCHANGED <<messages, owner, req, ratings, gaps, faults>>

\* flag_knowledge_gap_from_feedback: any gap of the answer, else a new one
\* under the question that precedes the answer.
ReadGap(c) ==
  LET found == GapsOf(call[c].message)
  IN  /\ \E g \in IF found = {} THEN {0} ELSE found :
           CallStep(c, "rated", [call[c] EXCEPT !.pc = "looked", !.gap = g,
                                   !.ask = PrecedingQuestion(call[c].message)])
      /\ UNCHANGED <<messages, owner, req, ratings, gaps, faults>>

CommitGap(c) ==
  LET me == call[c]
  IN  /\ CallStep(c, "looked", [me EXCEPT !.pc = "ended"])
      /\ gaps' = IF me.gap # 0
                 THEN [gaps EXCEPT ![me.gap].flagged = TRUE]
                 ELSE Append(gaps, [message |-> me.message, ask |-> me.ask, by |-> c,
                                    flagged |-> TRUE, open |-> TRUE])
      /\ UNCHANGED <<messages, owner, req, ratings, faults>>

\* The failure is swallowed: the rating stands and the caller gets a 200.
FlagLost(c) ==
  /\ Fault
  /\ CallStep(c, "looked", [call[c] EXCEPT !.pc = "ended", !.lost = TRUE])
  /\ UNCHANGED <<messages, owner, req, ratings, gaps>>

\* resolve_knowledge_gap: resolved or dismissed, for good.
Resolve(g) ==
  /\ gaps[g].open
  /\ gaps' = [gaps EXCEPT ![g].open = FALSE]
  /\ UNCHANGED <<messages, owner, req, ratings, call, faults>>

\* The API process dies: its transactions roll back, its threads are gone.
Crash ==
  /\ Fault
  /\ \E r \in Request : req[r].pc \in Working
  /\ req' = [r \in Request |-> IF req[r].pc \in Working
                               THEN [req[r] EXCEPT !.pc = "crashed"] ELSE req[r]]
  /\ call' = [c \in Call |-> IF call[c].pc \in {"read", "rated", "looked"}
                             THEN [call[c] EXCEPT !.pc = "crashed"] ELSE call[c]]
  /\ messages' = [i \in DOMAIN messages |->
                    IF messages[i].state = "open"
                    THEN [messages[i] EXCEPT !.state = "gone"] ELSE messages[i]]
  /\ UNCHANGED <<owner, ratings, gaps>>

-----------------------------------------------------------------------------
RequestStep(r) ==
  \/ CommitLog(r) \/ ReadHistory(r)
  \/ Answer(r)
  \/ OpenStream(r) \/ Close(r)
  \/ RecordGap(r)
RequestFault(r) ==
  RollbackLog(r) \/ Fail(r) \/ AnswerLost(r) \/ CloseLost(r) \/ GapLost(r)
RateStep(c) == CommitRating(c) \/ ReadGap(c) \/ CommitGap(c)

\* Nothing runs: the API waits for calls.
Quiescent ==
  /\ \A r \in Request : req[r].pc \in Over \union {"idle"}
  /\ \A c \in Call : call[c].pc \in Over \union {"idle"}
  /\ UNCHANGED chatVars

Next ==
  \/ \E r \in Request : Ask(r) \/ RequestStep(r) \/ Token(r) \/ RequestFault(r)
  \/ \E c \in Call : ReadRating(c) \/ RateStep(c) \/ RatingLost(c) \/ FlagLost(c)
  \/ \E g \in DOMAIN gaps : Resolve(g)
  \/ Crash
  \/ Quiescent

\* A thread that runs goes on running, and a stream ends: the model server
\* is read with a time limit.
Fairness == \A r \in Request : WF_chatVars(RequestStep(r))

Spec == Init /\ [][Next]_chatVars /\ Fairness

-----------------------------------------------------------------------------
(* Properties.                                                             *)

TypeOK ==
  /\ messages \in Seq([session : Session, role : {"user", "assistant"}, ask : Request,
                       text : Nat, state : {"open", "kept", "gone"}])
  /\ owner \in [Session -> User \union {None}]
  /\ \A r \in Request :
       /\ req[r].pc \in Working \union Over \union {"idle"}
       /\ {req[r].own, req[r].msg} \subseteq 0 .. Len(messages)
       /\ req[r].session \in Session \union {None}
       /\ req[r].sent \in (0 .. MaxTokens) \union AnswerSizes
  /\ \A c \in Call :
       /\ call[c].pc \in {"idle", "read", "rated", "looked"} \union Over
       /\ call[c].message \in 0 .. Len(messages)
       /\ call[c].row \in 0 .. Len(ratings)
       /\ call[c].gap \in 0 .. Len(gaps)
  /\ faults \in 0 .. MaxFaults

\* The row of an answer is what its reader saw: a request that ran to its end
\* (routes.py:765-796, the stream's finally, whatever ended the stream) leaves
\* its row holding every token sent, unless that one write failed; until then a
\* streamed row is empty, never a part of the answer (routes.py:675).
RowIsWhatWasSent ==
  \A r \in Request :
    (req[r].msg # 0 /\ req[r].kind \in {"chat", "stream"}) =>
      LET text == messages[req[r].msg].text
      IN  /\ text \in {0, req[r].sent}
          /\ req[r].pc = "ended" /\ ~req[r].lost => text = req[r].sent

\* A question asked after an answer was complete gets that answer, never a
\* shorter one, in its history (retrieval_logging_service.py:481-529), only
\* rows of its own conversation, committed before the question, in the order of
\* the conversation and within the bounds.
HistoryRemembers ==
  \A r \in Request :
    LET h == req[r].hist
    IN  /\ Chars([k \in DOMAIN h |-> h[k].text], Len(h)) <= MaxChars
        /\ Len(h) <= 2 * MaxTurns
        /\ \A k \in DOMAIN h :
             LET row == messages[h[k].id]
             IN  /\ row.session = req[r].session /\ row.state = "kept"
                 /\ h[k].id < req[r].own
                 /\ k > 1 => h[k - 1].id < h[k].id
                 /\ row.role = "assistant" /\ row.ask \in req[r].before =>
                      h[k].text = Min({row.text, MaxChars})

\* A gap names the question its answer replied to.  Only one recorded from a
\* rating may name another, and then that question was asked in the same
\* conversation between the answer's question and its row: the search goes by
\* message id (knowledge_gap_service.py:107-116).
GapNamesItsQuestion ==
  \A g \in DOMAIN gaps : gaps[g].message # 0 =>
    LET row == messages[gaps[g].message]
        named == gaps[g].ask
    IN  \/ named = row.ask
        \/ /\ gaps[g].by # None /\ named # None
           /\ req[named].session = row.session
           /\ req[row.ask].own < req[named].own /\ req[named].own < gaps[g].message

\* A negative rating that was answered with a 200 is on a flagged gap of its
\* answer, unless the write of the gap failed; and a rating committed when a gap
\* for the answer was there never adds a second one (knowledge_gap_service.py:
\* 91-97).
NegativeRatingKept ==
  /\ \A c \in Call :
       call[c].pc = "ended" /\ call[c].op = "negative" /\ ~call[c].lost =>
         \E g \in GapsOf(call[c].message) : gaps[g].flagged
  /\ \A g \in DOMAIN gaps : gaps[g].by # None => ~call[gaps[g].by].known

\* Every request that was accepted ends: no write that fails and no client that
\* leaves keeps one going (routes.py:700-802).
RequestsEnd == \A r \in Request : (req[r].pc \in Working) ~> (req[r].pc \in Over)

=============================================================================
