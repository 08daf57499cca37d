-------------------------- MODULE AnswerCache --------------------------
(***************************************************************************)
(* The cache of generated answers (ollama_service) and the feedback that    *)
(* fills it (feedback_routes), beside the chat requests that read it.       *)
(*                                                                         *)
(* Redis holds, without expiry, answers by exact prompt and a bounded list  *)
(* of answered questions for matching paraphrases; and for 30 days a link   *)
(* per message, by which a later rating finds what to put into the cache or *)
(* to take out of it.  A prompt is the question, what was retrieved for it  *)
(* and the conversation before it.  Every command of Redis is a step of its *)
(* own and may be lost without the request noticing; a process that stops   *)
(* in the middle of a rating is one that loses its remaining commands.      *)
(***************************************************************************)
EXTENDS Naturals, FiniteSets, Sequences

CONSTANTS
  Messages,      \* the questions asked, each with its assistant message
  Ratings,       \* the feedback requests: submitted, changed or deleted
  Asks,          \* what may be asked: a question and the history before it
  Alone,         \* the history of a question that opens its session
  Similar(_, _), \* the questions whose vectors reach the threshold
  Answers,       \* what the model may answer
  IndexSize,     \* answer_semantic_cache_size
  MaxUpdates,    \* bound: how often the retrieved content changes
  MaxUnsure,     \* bound: how many messages' links commands are lost for
  Faults         \* see AllFaults

AllFaults == {"lost",      \* a command of Redis is lost
              "expired",   \* a link's 30 days are over
              "restart",   \* Redis restarts, and it persists nothing
              "overlap"}   \* a rating is sent before the last was answered

ASSUME FaultsAssumption == Faults \subseteq AllFaults
ASSUME RatingsAssumption == IsFiniteSet(Ratings)
\* A vector is as near to itself as a vector can be.
ASSUME SimilarAssumption == \A a \in Asks : Similar(a.q, a.q)
ASSUME IndexAssumption == IndexSize \in Nat \ {0}
ASSUME BoundsAssumption == MaxUpdates \in Nat /\ MaxUnsure \in Nat

VARIABLES
  content,     \* the version of the content that retrieval finds
  msg,         \* msg[m]: the chat request, its message row and its answer
  keyed,       \* keyed[p]: the answer cached for prompt p, if any
  index,       \* the list of answered questions, newest first
  link,        \* link[m]: the message's link, if any: is it promoted?
  fb,          \* fb[f]: how far feedback request f is
  helpful      \* the messages now rated helpful, a committed row each

(* History, for the properties alone. *)
VARIABLES
  vetted,      \* the messages ever rated helpful
  unsure       \* those some command was lost for, or ratings overlapped on

redis == <<keyed, index, link>>
history == <<vetted, unsure>>
vars == <<content, msg, redis, fb, helpful, history>>

-----------------------------------------------------------------------------
Prompts == [ask : Asks, content : 0 .. MaxUpdates]
Maybe(S) == {{}} \cup {{x} : x \in S}      \* no element of S, or one
Entries == [q : {a.q : a \in Asks}, answer : Answers]

InFlight(m) == {f \in Ratings : fb[f].m = {m}}

TypeOK ==
  /\ content \in 0 .. MaxUpdates
  /\ msg \in [Messages ->
       [pc : {"new", "match", "copy", "generate", "link", "done"},
        row : BOOLEAN, prompt : Maybe(Prompts),
        from : {"nobody", "cache", "index", "model", "fallback"}, answer : Maybe(Answers)]]
  /\ keyed \in [Prompts -> Maybe(Answers)]
  /\ index \in Seq(Entries)
  /\ unsure = {} => Len(index) <= IndexSize + Cardinality({f \in Ratings : fb[f].pc = "trim"})
  /\ link \in [Messages -> Maybe(BOOLEAN)]
  /\ \A m \in Messages : link[m] # {} => msg[m].from = "model"
  /\ fb \in [Ratings -> [pc : {"new", "read", "key", "index", "trim", "flag", "done"},
                         m : Maybe(Messages), helpful : BOOLEAN]]
  /\ helpful \subseteq vetted
  /\ vetted \cup unsure \subseteq Messages

Init ==
  /\ content = 0
  /\ msg = [m \in Messages |-> [pc |-> "new", row |-> FALSE,
                                prompt |-> {}, from |-> "nobody", answer |-> {}]]
  /\ keyed = [p \in Prompts |-> {}]
  /\ index = <<>>
  /\ link = [m \in Messages |-> {}]
  /\ fb = [f \in Ratings |-> [pc |-> "new", m |-> {}, helpful |-> FALSE]]
  /\ helpful = {}
  /\ vetted = {}
  /\ unsure = {}

-----------------------------------------------------------------------------
Doubted(m) == unsure' = unsure \cup {m} /\ Cardinality(unsure') <= MaxUnsure
Lost(m) == "lost" \in Faults /\ Doubted(m)

At(m, pc) == msg[m].pc = pc
Only(S) == CHOOSE x \in S : TRUE     \* the element of a set that has one
Prompt(m) == Only(msg[m].prompt)
Ask(m) == Prompt(m).ask
IsAlone(m) == Ask(m).history = Alone
Entry(m) == [q |-> Ask(m).q, answer |-> Only(msg[m].answer)]

(* The answer is known, and its row logged.  A row that could not be logged   *)
(* is one nobody rates, and matters only to a link that would be written.    *)
Answered(m, p, from, answer, pc) ==
  msg' = [msg EXCEPT ![m] = [pc |-> pc, row |-> TRUE, prompt |-> {p},
                             from |-> from, answer |-> answer]]

(* A stream has its row before the model is asked. *)
Missed(m, p) ==
  \E row \in BOOLEAN :
    msg' = [msg EXCEPT ![m] = [@ EXCEPT !.pc = "generate", !.row = row, !.prompt = {p}]]

(* The question arrives, through either route; its context is retrieved,     *)
(* which uploads may have changed, and the prompt looked up.  After a miss   *)
(* only a question that opens its session is compared with other questions.  *)
Arrive(m) ==
  /\ At(m, "new")
  /\ content' \in content .. MaxUpdates
  /\ \E a \in Asks :
       LET p == [ask |-> a, content |-> content']
       IN \/ keyed[p] # {} /\ Answered(m, p, "cache", keyed[p], "done")
          \/ /\ keyed[p] = {} \/ "lost" \in Faults
             /\ \/ /\ a.history = Alone
                   /\ msg' = [msg EXCEPT ![m].pc = "match", ![m].prompt = {p}]
                \/ a.history # Alone /\ Missed(m, p)
  /\ UNCHANGED <<redis, fb, helpful, history>>

(* The nearest entry: of the question itself the newest, else any near one.  *)
Nearest(q) ==
  LET at == DOMAIN index
      same == {i \in at : index[i].q = q}
  IN IF same # {} THEN {index[i] : i \in {i \in same : \A j \in same : i <= j}}
     ELSE {index[i] : i \in {i \in at : Similar(index[i].q, q)}}

(* Fault: a matched answer is recorded for its new question too. *)
Copy_Indexed(m) ==
  /\ At(m, "copy")
  /\ keyed' = [keyed EXCEPT ![Prompt(m)] = msg[m].answer]
  /\ index' = <<Entry(m)>> \o index
  /\ msg' = [msg EXCEPT ![m].pc = "done"]
  /\ UNCHANGED <<content, link, fb, helpful, history>>

Match(m) ==
  /\ At(m, "match")
  /\ \/ \E e \in Nearest(Ask(m).q) :
          msg' = [msg EXCEPT ![m] = [@ EXCEPT !.pc = "copy", !.from = "index",
                                              !.answer = {e.answer}]]
     \/ (Nearest(Ask(m).q) = {} \/ "lost" \in Faults) /\ Missed(m, Prompt(m))
  /\ UNCHANGED <<content, redis, fb, helpful, history>>

(* The match is stored under the request's own prompt, and not in the index. *)
Copy(m) ==
  /\ At(m, "copy")
  /\ \/ keyed' = [keyed EXCEPT ![Prompt(m)] = msg[m].answer]
     \/ "lost" \in Faults /\ UNCHANGED keyed
  /\ Answered(m, Prompt(m), "index", msg[m].answer, "done")
  /\ UNCHANGED <<content, index, link, fb, helpful, history>>

(* The model answers in full ... *)
Generate(m) ==
  /\ At(m, "generate")
  /\ \E a \in Answers :
       \/ Answered(m, Prompt(m), "model", {a}, "link")
       \/ ~msg[m].row /\ msg' = [msg EXCEPT ![m] =    \* the row fails
                 [@ EXCEPT !.pc = "done", !.from = "model", !.answer = {a}]]
  /\ UNCHANGED <<content, redis, fb, helpful, history>>

(* Fault: the text shown when there is no answer is kept like one. *)
GenerateFails_Linked(m) ==
  /\ At(m, "generate")
  /\ Answered(m, Prompt(m), "fallback", {}, "link")
  /\ UNCHANGED <<content, redis, fb, helpful, history>>

(* ... or fails, says nothing, or the client has gone: no link is left. *)
GenerateFails(m) ==
  /\ At(m, "generate")
  /\ Answered(m, Prompt(m), "fallback", {}, "done")
  /\ UNCHANGED <<content, redis, fb, helpful, history>>

(* Fault: the answer is cached as it is generated. *)
WritePending_Cached(m) ==
  /\ At(m, "link")
  /\ link' = [link EXCEPT ![m] = {TRUE}]
  /\ keyed' = [keyed EXCEPT ![Prompt(m)] = msg[m].answer]
  /\ msg' = [msg EXCEPT ![m].pc = "done"]
  /\ UNCHANGED <<content, index, fb, helpful, history>>

(* write_pending_answer. *)
WritePending(m) ==
  /\ At(m, "link")
  /\ \/ link' = [link EXCEPT ![m] = {FALSE}]
     \/ "lost" \in Faults /\ UNCHANGED link
  /\ msg' = [msg EXCEPT ![m].pc = "done"]
  /\ UNCHANGED <<content, keyed, index, fb, helpful, history>>

-----------------------------------------------------------------------------
Goto(f, pc) == fb' = [fb EXCEPT ![f].pc = pc]
Done(f) == fb' = [fb EXCEPT ![f] = [pc |-> "done", m |-> {}, helpful |-> FALSE]]
Rated(f) == Only(fb[f].m)

(* A rating is submitted, changed or deleted; its row is committed first. *)
Submit(f, m) ==
  /\ fb[f].pc = "new" /\ msg[m].row
  /\ InFlight(m) = {} \/ "overlap" \in Faults
  /\ \E h \in BOOLEAN :
       /\ fb' = [fb EXCEPT ![f] = [pc |-> "read", m |-> {m}, helpful |-> h]]
       /\ helpful' = IF h THEN helpful \cup {m} ELSE helpful \ {m}
       /\ vetted' = vetted \cup helpful'
  /\ IF InFlight(m) = {} THEN UNCHANGED unsure ELSE Doubted(m)
  /\ UNCHANGED <<content, msg, redis>>

(* record_answer_feedback_for_cache: without a link, or with one that says   *)
(* what the rating says, there is nothing to do.                             *)
ReadLink(f) ==
  /\ fb[f].pc = "read"
  /\ \/ /\ IF link[Rated(f)] = {~fb[f].helpful} THEN Goto(f, "key") ELSE Done(f)
        /\ UNCHANGED unsure
     \/ Lost(Rated(f)) /\ Done(f)
  /\ UNCHANGED <<content, msg, redis, helpful, vetted>>

(* Fault: a rating that is withdrawn leaves the key alone. *)
Key_NotDeleted(f) ==
  LET m == Rated(f)
  IN /\ fb[f].pc = "key"
     /\ keyed' = IF fb[f].helpful THEN [keyed EXCEPT ![Prompt(m)] = msg[m].answer] ELSE keyed
     /\ Goto(f, IF IsAlone(m) THEN "index" ELSE "flag")
     /\ UNCHANGED <<content, msg, index, link, helpful, history>>

(* The prompt's answer is stored, or whatever is stored there deleted. *)
Key(f) ==
  LET m == Rated(f)
  IN /\ fb[f].pc = "key"
     /\ \/ /\ keyed' = [keyed EXCEPT ![Prompt(m)] = IF fb[f].helpful THEN msg[m].answer ELSE {}]
           /\ UNCHANGED unsure
        \/ Lost(m) /\ UNCHANGED keyed
     /\ Goto(f, IF IsAlone(m) THEN "index" ELSE "flag")
     /\ UNCHANGED <<content, msg, index, link, helpful, vetted>>

(* Fault: a rating that is withdrawn leaves the index alone. *)
Index_NotRemoved(f) ==
  LET m == Rated(f)
  IN /\ fb[f].pc = "index"
     /\ index' = IF fb[f].helpful THEN <<Entry(m)>> \o index ELSE index
     /\ Goto(f, IF fb[f].helpful THEN "trim" ELSE "flag")
     /\ UNCHANGED <<content, msg, keyed, link, helpful, history>>

(* What is left of s without every e, in its order: the k-th that stays is    *)
(* the one up to which k stay.                                               *)
Without(s, e) ==
  LET kept == {i \in DOMAIN s : s[i] # e}
      UpTo(i) == {j \in kept : j <= i}
  IN [k \in 1 .. Cardinality(kept) |->
        s[CHOOSE i \in kept : Cardinality(UpTo(i)) = k]]

(* LPUSH, or LREM of every equal entry. *)
Index(f) ==
  LET m == Rated(f)
  IN /\ fb[f].pc = "index"
     /\ \/ /\ index' = IF fb[f].helpful THEN <<Entry(m)>> \o index
                       ELSE Without(index, Entry(m))
           /\ Goto(f, IF fb[f].helpful THEN "trim" ELSE "flag")
           /\ UNCHANGED unsure
        \/ Lost(m) /\ UNCHANGED index /\ Goto(f, "flag")
     /\ UNCHANGED <<content, msg, keyed, link, helpful, vetted>>

Trimmed(n) == SubSeq(index, 1, IF Len(index) < n THEN Len(index) ELSE n)

(* LTRIM. *)
Trim(f) ==
  /\ fb[f].pc = "trim"
  /\ \/ index' = Trimmed(IndexSize) /\ UNCHANGED unsure
     \/ Lost(Rated(f)) /\ UNCHANGED index
  /\ Goto(f, "flag")
  /\ UNCHANGED <<content, msg, keyed, link, helpful, vetted>>

(* The link as read, with its promoted flag turned, is written back. *)
Flag(f) ==
  /\ fb[f].pc = "flag"
  /\ \/ link' = [link EXCEPT ![Rated(f)] = {fb[f].helpful}] /\ UNCHANGED unsure
     \/ Lost(Rated(f)) /\ UNCHANGED link
  /\ Done(f)
  /\ UNCHANGED <<content, msg, keyed, index, helpful, vetted>>

-----------------------------------------------------------------------------
Expire(m) ==
  /\ "expired" \in Faults /\ link[m] # {}
  /\ link' = [link EXCEPT ![m] = {}]
  /\ Doubted(m)
  /\ UNCHANGED <<content, msg, keyed, index, fb, helpful, vetted>>

Restart ==
  /\ "restart" \in Faults
  /\ keyed' = [p \in Prompts |-> {}]
  /\ index' = <<>>
  /\ link' = [m \in Messages |-> {}]
  /\ UNCHANGED <<content, msg, fb, helpful, history>>

Quiescent ==
  /\ \A m \in Messages : At(m, "done")
  /\ \A f \in Ratings : fb[f].pc \in {"new", "done"}
  /\ UNCHANGED vars

Chat(m) ==
  \/ Arrive(m) \/ Match(m) \/ Copy(m)
  \/ Generate(m) \/ GenerateFails(m) \/ WritePending(m)

Feedback(f) ==
  \/ \E m \in Messages : Submit(f, m)
  \/ ReadLink(f) \/ Key(f) \/ Index(f) \/ Trim(f) \/ Flag(f)

Next ==
  \/ \E m \in Messages : Chat(m) \/ Expire(m)
  \/ \E f \in Ratings : Feedback(f)
  \/ Restart
  \/ Quiescent

Spec == Init /\ [][Next]_vars

-----------------------------------------------------------------------------
(* Properties *)

(* Who had answer a from the model, and who had one without asking it. *)
Origins(a) == {m \in Messages : msg[m].from = "model" /\ msg[m].answer = {a}}
Served == {m \in Messages : msg[m].from \in {"cache", "index"}}

(* Somebody rated a helpful as the answer to this very prompt, or to a near  *)
(* question where both stand alone.                                          *)
Merited(a, p) ==
  \E m \in Origins(a) \cap vetted :
    \/ Prompt(m) = p
    \/ IsAlone(m) /\ p.ask.history = Alone /\ Similar(Ask(m).q, p.ask.q)

(* No generated answer is reused unseen, whatever is lost: what is cached for *)
(* or was served to a prompt was rated helpful there or for a near question.  *)
(* Nearness is not chained, and never crosses into a conversation.            *)
OnlyVetted ==
  /\ \A p \in Prompts : \A a \in keyed[p] : Merited(a, p)
  /\ \A m \in Served : \A a \in msg[m].answer : Merited(a, Prompt(m))

(* Message m speaks for its answer now: it is rated helpful, or a rating of  *)
(* it is being worked on, or the link by which a rating acts was lost.       *)
Vouches(m) == m \in helpful \cup unsure \/ InFlight(m) # {}

(* Taking a rating back evicts: an entry of the index is there on the word of *)
(* a message that asked that very question on its own.                        *)
IndexMirrorsRatings ==
  \A i \in 1 .. Len(index) :
    \E m \in Origins(index[i].answer) :
      Ask(m).q = index[i].q /\ IsAlone(m) /\ Vouches(m)

(* And so with the prompt's own key, unless a paraphrase was matched for it.  *)
KeyMirrorsRatings ==
  \A p \in Prompts : \A a \in keyed[p] :
    \/ \E m \in Origins(a) : Prompt(m) = p /\ Vouches(m)
    \/ \E m \in Served : Prompt(m) = p /\ msg[m].from = "index"

(* What ollama_service's comment says: the cache always mirrors whether a    *)
(* current helpful rating exists, once the ratings have been worked off.     *)
CacheMirrorsRating ==
  (\A f \in Ratings : fb[f].pc \in {"new", "done"}) =>
    \A p \in Prompts : \A a \in keyed[p] :
      \E m \in helpful : msg[m].answer = {a}

(* What PROGRESS.md says of an update of the knowledge base: the prompt       *)
(* changes and misses the old answer, so none from before it is served.      *)
AnswersFollowKnowledge ==
  \A m \in Served : \A a \in msg[m].answer :
    \E o \in Origins(a) : Prompt(o).content = Prompt(m).content
=============================================================================
