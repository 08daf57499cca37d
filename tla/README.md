# TLA+ models of Gen-I

Gen-I answers the questions of support agents from a knowledge base of DOCX articles. A FastAPI
service (`src/backend/app`) keeps users, documents, conversations and feedback in PostgreSQL, the
chunks' vectors in Milvus, and caches, locks and counters in Redis; a local Ollama model writes the
answers; a React frontend streams them. No transaction spans two of these stores, and every request
runs in its own thread and database session: what can go wrong is between them.

This directory holds TLA+ specifications of that program, the TLC configurations that check them on
small instances, and proofs TLAPS checks for every instance. `PROJECT.json` lists the runs, maps
every definition to the lines it models, and lists the hazards and findings. In `map`, a definition
marked *external* models PostgreSQL, Redis or the operating system as the code uses them.

    tlc -workers 2 -config MCIngestion.cfg MCIngestion      # a run
    tlapm CredentialsProofs.tla                              # a proof

## 1. Inventory

Paths are below `src/backend/app` unless they start with `src/`. "Hard" says what makes a component
worth a model.

**Accounts and credentials** - `services/{auth,password_change,password_reset,admin_user}_service.py`,
`services/password_reset_tokens.py`, `auth_routes.py`, `admin_routes.py`, `auth_dependencies.py`.
State: a user's row (password hash, `token_version`, `is_active`), reset links (live, expired,
consumed, invalidated), the versions in access tokens handed out. Operations: sign-in (with a
rehash of old hashes), own change, forgotten password, completion of a reset, administrator reset,
(de)activation. Interacts with the browser through tokens, with mail through the delivery provider.
Hard: READ COMMITTED transactions that overlap, row locks taken in different orders, objects read
before a lock and used after it. Correct when: a link works once and only the latest one; a reset
acts on the row as it is; replacing a password ends sessions and retires links; nothing deadlocks.

**Invitations and administration** - `services/invitation_service.py`, `admin_user_service.py`.
State: invitation links, activation status, roles. Operations: invite, resend within a cooldown,
activate, update a user. Hard: the cooldown and the guard on the last administrator are decided by
reads that two requests can make at once. Correct when: activation happens once however many
invitations are outstanding, and there is always an active administrator.

**Authentication rate limiter** - `services/auth_rate_limit_service.py`. State: counters with a
window in Redis. Operations: reserve (one atomic script over several counters), clear after a
success. Hard: all-or-nothing reservation, a window that expires between calls, clearing while others
reserve, a lost answer, and failing open. Correct when: a counter stands for what was let through in
its window, no stretch of time sees more than two windows' worth, and a lockout ends.

**Ingestion and versioning** - `services/admin_ingestion_service.py`, `milvus_writer_service.py`.
State: documents with a current version, versions with a number, a state and a current flag, chunk
rows, jobs; vectors in Milvus by id. Operations: upload an article, upload a version. Hard: two
stores and compensating deletes, two transactions per version upload with parsing in between,
failures and crashes at every point. Correct when: numbers are unique, the two current markers
agree, what is current is indexed, and what a failure leaves behind is accounted for.

**Retrieval and the retrieval cache** - `services/retrieval_service.py`, `cache_service.py`,
`retrieval.py`. State: entries in Redis by query and *knowledge generation*, a lock per key.
Operations: search; read, wait for, write and discard entries; advance the generation (by
Ingestion). Hard: a search reads Redis, Milvus and PostgreSQL one after the other while uploads
commit; locks expire; every Redis command may fail and is ignored. Correct when: a search has what was
announced before it and is still current, no version that this superseded, and nothing uncommitted; it
always ends.

**Answer generation and the answer cache** - `services/ollama_service.py`, `answer_service.py`,
`feedback_routes.py`. State: answers by exact prompt, a bounded index of answered questions with
their vectors, a link from each message to what its rating would promote. Operations: look up, match
a paraphrase, generate, promote, demote. Hard: ratings come long after the answer, overlap, and act by
several commands each of which may be lost; matches are copied. Correct when: only answers somebody
vetted are reused, and only while they stand.

**Chat, streaming and the audit log** - `routes.py`, `services/retrieval_logging_service.py`.
State: sessions, messages, retrieval logs. Operations: search, chat, stream, history. Hard: a request
is several transactions; a stream can be cancelled, fail or crash between the row inserted empty and
the update that fills it, while a second question reads the conversation. Correct when: the row of an
answer is what its reader saw, and a later question's history has it whole.

**Feedback and knowledge gaps** - `feedback_routes.py`, `services/knowledge_gap_service.py`. State:
a rating per message and user, gap rows. Operations: rate, rate again, withdraw, flag, resolve. Hard:
check-then-insert with no unique constraint; the gap is a second transaction after the rating's.
Correct when: a negative rating is on a flagged gap, under the question the answer replied to.

**Decision-table lookup** - `services/decision_lookup_service.py`. State: none of its own, it reads
the decision tables. Operation: one lookup, five tiers one after the other. Hard: columns that are
partly empty, keys that repeat, values that several tables share, tables that disagree, and tiers that
leave to the next what they cannot tell. Correct when: it answers only what the question determines, and
passes over no tier that could have answered.

**Offline scripts** - `src/backend/scripts`. State: the DOCX files, `articles.json`, `chunks.json`,
`embeddings.jsonl`, and the same PostgreSQL tables and Milvus collection as the application.
Operations: ingest, chunk, embed, two loaders, two repairs. Hard: each writes what the next reads and
none knows what another has done; the loader drops the collection that uploads also write. Correct
when: what an article says stays together in its chunks, and a search that is answered at all finds what
is committed.

**Analytics, health, performance, configuration** - read-only queries and wiring. **Deployment** -
`src/scripts/deploy_vm.sh`: backup, migration, replacement, health checks, rollback of the code but
not of the schema. **Frontend** - `src/backend/frontend/src`: mostly forms; `AgentPage.tsx` keeps a
conversation while a stream, its cancellation and a new conversation race.

How they meet: Ingestion changes what Retrieval finds and advances its generation; the offline scripts
change it too and advance nothing; Chunking is shared by both. A chat request logs its question, tries
the decision tables and only then generates; Retrieval's result is part of the prompt that keys
AnswerCache; Chat logs the messages that feedback rates; a rating promotes or demotes in AnswerCache
and flags a gap. The limiter stands in front of sign-in, links and invitations; a credential
replacement invalidates the tokens every other endpoint checks.

## 2. Plan

| | module | status |
|---|---|---|
| 1 | `Credentials`, implementing `OneTimeTokens`; `CredentialsProofs` | done |
| 2 | `Ingestion`, implementing `Library`; `IngestionProofs` | done |
| 3 | `RetrievalCache` (with the uploads of `Ingestion` reduced to index, commit, advance); `RetrievalCacheProofs` | done |
| 4 | `AnswerCache` (with retrieval reduced to a content version); `AnswerCacheProofs` | done |
| 5 | `Accounts`: invitations, activation, final administrator; `AccountsProofs` | done |
| 6 | `ChatLog`: messages, streams, history, ratings and gap rows; `ChatLogProofs` | done |
| 7 | `RateLimit`; `RateLimitProofs` | done |
| 8 | `DecisionLookup`, against a declarative statement of what it may say; `KnowledgeProofs` | done |
| 9 | `Chunking`, then `Ranking` and, over it, `OfflineLoad`: scripts, uploads and searches; `KnowledgeProofs` | done |
| 10 | `Deployment`, the page that shows a conversation | left out, section 6 |

The abstract specifications are `OneTimeTokens` and `Library`. `RateLimit`, `DecisionLookup`,
`Chunking` and `OfflineLoad` share no state; `MCKnowledge` explores them side by side, one in each
behaviour. Every invariant, every action property and both refinements that a run finds to hold are
proved for all values of the constants the assumptions admit (of `RetrievalCache`, for restarts of an idle
Redis); of what the runs find to hold, only liveness is left to TLC (section 6).

## 3. The modules

Names follow the code where there is one. Operators named `X_Y` under a comment "Fault:" are not
part of the specification: each is a faulty variant of `X`, used to test that a property is one
that code could break.

### Credentials (and OneTimeTokens)

One user, because users share no row and no lock. A request is a record: `pc` says where its handler
stands, `snap` what it read of the row, `inval` the links it will retire. A SELECT without lock
is a step that copies; SELECT ... FOR UPDATE is a step guarded by the lock; since autoflush is off,
everything written reaches the database in the step that commits. `Commit` and `Rollback` release
locks.

| action | code |
|---|---|
| `SigninRead, SigninRehash, SigninRefresh, SigninIssue` | `authenticate_user`, `signin` |
| `ChangeAuthenticate, ChangeLock, ChangeRefused, ChangeTokens, ChangeCommit` | `get_current_user`, `change_own_password` |
| `ForgotLock, ForgotCooldown, ForgotTokens, ForgotCommit` | `request_password_reset` |
| `CompleteToken, CompleteUser, CompleteRefused, CompleteTokens, CompleteCommit` | `complete_password_reset` |
| `AdminRead, AdminTokens, AdminCommit, SetActive` | `reset_password`, `update_user` |
| `Expire, Abort` | a link's lifetime; exceptions, crashes, PostgreSQL's deadlock detector |

One detail carries two of the findings. `get_current_user` loads the user into the request's session;
when `change_own_password` selects the same row FOR UPDATE, SQLAlchemy returns the loaded object
without refreshing its attributes. So `ChangeLock` keeps `snap`, while `CompleteUser`, whose session
is fresh, copies the row.

`OneTimeTokens` says nothing of rows or locks: a link is issued once, used once, never revived, and
issuing or using one retires the others.

Simplified: SELECT ... FOR UPDATE over several links locks all or waits (PostgreSQL locks them one by
one, in an order that is the same for all); the delivery of the message, which precedes the commit,
is only its outcome; the new password of a request is chosen when the request starts. A request with
the wrong password changes nothing and is left out.

### Ingestion (and Library)

An upload writes at most one version row, so uploads name versions; an upload of a new article names
its document too. `vectors` and `chunks` are the uploads present in Milvus and PostgreSQL; `leak`
records that a clean-up failed, for `LeftoversExplained`. An article upload is `Preflight`, `Check`,
`FindExisting`, `Insert`, `Commit`, `Answer`; a version upload `VersionStart` (first transaction),
`VersionLock`, then the same. `Unreadable`, `InsertFails`, `CommitFails`, `AnswerFails`, `Clean`,
`Mark` are the error paths and `Crash` stops the process anywhere. `AnswerFails` is after the commit:
the handler takes a published upload for a failed one, deletes its vectors and marks it failed.
`CurrentIndexed` therefore has to except it, and the exception is part of what the property says.

Vector ids are `code::vN` and a chunk number, and nothing checks that the file uploaded as a version
of a document carries that document's code: `SameIds` relates uploads by code and number, not by
document. A new article whose commit succeeded and whose answer failed keeps the state "completed";
its job row is not modelled. `Library` is what readers are promised: each version is published once
and then is current until another is published.

### RetrievalCache

One query, because queries share only the generation. Results are sets of uploads: those whose
content the search could rank. `Begin` reads the generation; `Lookup`, `Lock`, `Recheck`, `Wait` are
the single-flight protocol; `Milvus`, `Filter` and `Lexical` compute; `Write`, `ReleaseLock`, `Audit` or
`AuditFails` finish. `known` (what had been announced when the search began), `upd[w].n` (the
generation an upload made) and `upd[w].over` (the versions its commit superseded) are history for the
properties. Redis may fail at any command (`Faults`),
with the effect the code gives it: a generation that cannot be read is 0, an entry that cannot be read
is a miss, a lock that cannot be taken is not waited for; SET NX may take effect and lose its answer
(`Ghost`).

An upload is of a document, and `cur` is what `current_version_id` says of it: `Index` inserts the vectors,
under the document's row lock, `Publish` commits and makes the version current, `Advance` moves the
generation. `UploadFails` leaves the vectors or takes them back, `AnswerFails` deletes those of a version
that has been committed. Milvus, the current versions and the lexical rows are three reads, and a commit
may come between any two. Two uploads may be versions of one document (`Targets` says which are); then the
commit of the later one takes the earlier one's hits out of what `Filter` keeps, also in a search that
read Milvus before the later one was there. So a result may have neither version of a document, or, by way of
`Lexical`, both. `Reflects` is what remains true: the content of an announced upload is in the result as long
as it is current, and the versions it superseded are not.

`_filter_current_version_hits` returns the hits unfiltered when none belongs to a document with a
current version. `Grounded` says that this does not happen, as in a library whose hits include some
published document. With `Grounded = FALSE` a search between the vector insert and the commit of the
first upload of a knowledge base returns it before it is committed, which the bound of `SearchBounds`
states only under `Grounded`.

### AnswerCache

A message is a chat request and its answer. `Arrive` retrieves and reads the exact key; `Match` looks
for a paraphrase, `Copy` stores the match under the request's own prompt; `Generate`, `GenerateFails`
and `WritePending` are the model's answer and the link. A rating is `Submit` (the row's commit), then
`ReadLink`, `Key`, `Index`, `Trim`, `Flag`, one Redis command each. Prompts are a question, the
history before it and a content version; `Similar` says which questions' vectors are near, and is
symmetric but not transitive. `vetted` (ever rated helpful) and `unsure` (some command was lost, or
ratings overlapped) are history.

Answers that leave no link - from the decision table, the text shown when nothing is found, a model
that fails, a client that leaves - are `GenerateFails`. A message row that cannot be logged is one
nobody can rate. A process that stops in the middle of a rating is one that loses its remaining
commands. A message is rated by one user, its asker.

### Accounts

An account is its e-mail address: absent, pending or active, with a role and enabled or not. A request
names the `invitation_tokens` row it inserts, if any. `Authorize` is `require_role`; then a request goes
one of three ways.

| action | code |
|---|---|
| `InviteCheck, InviteCommit, InviteConflict` | `create_invited_user` |
| `ResendRead, ResendCooldown, ResendCollect, ResendLock, ResendCommit` | `resend_invitation` |
| `Deliver, Record, DeliveryFails, UndoRead, Undo` | `_deliver`, after either |
| `ActivateToken, ActivateUser, ActivateCommit` | `complete_activation`, without authorization |
| `UpdateRead, UpdateScan, UpdateLock, UpdateCommit` | `update_user` |
| `Age, Abort` | cooldown and lifetime; exceptions and crashes |

A SELECT ... FOR UPDATE over several rows is two steps: the rows that match when it starts
(`ResendCollect`, `UpdateScan`) and, when all are free, those that still match, locked (`ResendLock`,
`UpdateLock`), as READ COMMITTED re-evaluates them. A row that begins to match in between is missed: so
two resends that both passed the cooldown leave two links outstanding, and activation must stand that.
An administrator who changes himself is the object `get_current_user` loaded, read by `Authorize`. An
update writes only the columns that differ from what it read.

Simplified: PostgreSQL locks the rows of one statement one by one in the same order for all, here all at
once; the cooldown (60 s by default) ends before the lifetime (at least 5 minutes), although the settings
allow the opposite; a cooldown of zero, for isolated tests, is one that ends at once. Changes of name and
e-mail are left out. No liveness is claimed.

### ChatLog

A request runs in a thread, and every helper of it opens its own session: each transaction is a step,
two where what it inserts has an id before others see it. Ids come from sequences: `messages[i].state`
says whether row i is still in its transaction, committed, or a hole left by a rollback. Texts are
counted: a question is one character, an answer the number of its tokens.

| action | code |
|---|---|
| `Ask, CommitLog, RollbackLog` | the ownership check, `log_retrieval_event` |
| `ReadHistory` | `get_bounded_conversation_history` |
| `Answer, AnswerLost` | `POST /chat`: decision table, model or fallback; `log_assistant_message` |
| `OpenStream, Token, Close, CloseLost` | `POST /chat/stream`, `update_assistant_message` |
| `RecordGap, GapLost` | `record_knowledge_gap_if_needed` |
| `Fail, Crash` | an error between two transactions; the process dies |
| `ReadRating, CommitRating, RatingLost` | `submit_message_feedback`, the deletion of a rating |
| `ReadGap, CommitGap, FlagLost` | `flag_knowledge_gap_from_feedback` |
| `Resolve` | `resolve_knowledge_gap` |

`History` is what the code computes: the newest `2 * max_turns` rows before the question's own, newest first
as long as they fit, the first cut to fit (`Newest`, `BoundedHistory`, `Chars`). A stream's row is inserted
empty and written once, in the `finally`, whatever ended it; so `Close` is one action for completion,
time-out, failure and departure of the client. `before` is the history variable that says which answers were
complete when the question was asked.

Simplified: the rows of `retrieval_requests` and `retrieval_results` share the transaction of the user's
message and its fate; whether an answer is weak is a free choice; the promotion and demotion that a
rating performs are in `AnswerCache`; listings only read.

### RateLimit

The counters of an attempt are its `Limits`: two identifiers at every endpoint, and for sign-in also
both together. `left` is what remains of a counter's expiry, `age` the ticks since an attempt was
counted, and `counted`, history, the attempts counted under a key since it was last cleared.

| action | code |
|---|---|
| `Admit, Refuse` | `_RESERVE_SCRIPT`: all limits are checked, then all are counted, atomically in Redis |
| `FailOpen, AnswerMissed` | Redis out of reach; the script ran and its answer was lost |
| `Check` | the password, or any other endpoint's work |
| `Clear, ClearLost` | `clear_signin_account`: account and pair, not the host |
| `RedisRestart, Tick` | no volume; expiry |

Simplified: identifiers are not hashed, windows are counted in ticks, and the time a caller is told to
wait is left out. An attempt is one call; a client that tries again is another attempt.

### DecisionLookup

A question is the set of values it names, a table a set of rows. Each tier is an action, tried when the
one before gave nothing: `GemTier`, `OperationalTier`, `FacturationTier`, `BillingTier`,
`GlossaryTier`. `GenericRows` is the code's generic match - one named value per key column, columns the
question is silent on filled in where what is left has one value - and `OneTable` its rule that two
tables of a tier cancel each other. Ties the code breaks by the order of rows are nondeterministic.

`NeverGuesses` is written from what an answer means, without the code's order of narrowing, and has two
halves. `AnswerDetermined`: the answer is what the question determines in one table. For a table read by its
key that is `Determined`: the question names some key value of it, the rows that agree with what it names
(`Fitting`) do not differ in what it leaves open (`Meant`), no other table of the tier is so, and all agreeing
rows are given. For a GEM table it is `GemAnswer`: one activity is named; the network is the one that has it
or, of two, the one the question names (`Asks`); the rows are those of the longest echec named and, of copper,
of the channel named; `sav` answers only where the fibre table does not settle the question. `TiersInOrder`: a
tier answers, and retrieval is left to, only where no tier before determines a table (`GemOpen`, `ArticleOpen`).
A tier in which two tables tie determines none, and what comes after it is then asked: that is the code's
rule, and its consequences are in section 6.

The article table is asked twice: `FacturationTier` answers with its row for the activity and notes
whether the matrix agrees (`ArticleAnswer`); where an activity has two rows that tier is silent, and the
table may still answer in `BillingTier` like any other, with all its rows for the key. The data have such an
activity ("PFO / PCC").

Simplified: how a value is recognised in a text (tokens, accents, case), the wording of an answer, its
hints and reminders.

### Chunking

`smart_chunk_article`, which uploads and the offline pipeline share. A line is what the predicates of
the script see of it: the section type it opens, a mark, a number of words. `SplitSections` is
`split_sections`; `SkipSection`, `SplitSection` and `CutBySize` are the loop over sections and one turn
of `chunk_by_size`. The five splitters run over the lines with the state the code keeps in its
locals: the open question, the case and its category, the introduction. Each has a `Read...`, what one
line does to that state, and an `End...`, what is still open after the last. A piece is its lines and
the number of words the script adds to them ("Question:", "Cas:", the category).

Simplified: regular expressions and headings (a line *has* a mark), and the metadata of a chunk. A line
has one mark, although a text could satisfy two predicates.

### Ranking and OfflineLoad

`Ranking` is the pure part of a search: nearest vectors, `FilterCurrent`, the rows of current versions
that share a word (`Matching`) and of these as many as the query takes (`RowLimit`), `Merge`, the points
of `_lexical_rerank_score` and the sum that ranks. Of a row and a vector with one id the vector's text is
kept (`Stands`). `Ranked` is a set of answers, one for each way to break ties. `Results` is that set, or
empty while the collection is missing or not loaded: then `get_collection`, `search` or
`_fetch_stored_embeddings` raises, and the rows alone are no answer.

`OfflineLoad` keeps the files of the pipeline, the rows, the vectors, and whether the collection is
missing, unloaded or loaded. `EditDocx`, `IngestAndChunk` (ingest.py skips a file it cannot read), `Embed`
(a batch that fails for good leaves those before it), `LoadRows`, `DropCollection`, `CreateCollection`,
`InsertBatch`, `LoadCollection`, `LoaderDies`, `Patch` and `Upsert` (the two repairs of one article) are
the scripts. Until `LoadCollection` the loader's collection answers no search, and for good if the loader
dies, unless something else loads it: `ApplicationLoads` is the first search of a process or a health
check, and an upload creates and loads a collection where it finds none. `UploadVectors`, `UploadCommits`,
`UploadFails` an administrator's upload in the three steps a search can tell apart. A chunk that a script
wrote has no version in Milvus's metadata.

Simplified: an operator runs the scripts one at a time; rows are not loaded while the upload of a new
article is under way, from which a second document of one name would come; one upload at a time; the
loader's mode that keeps the collection and `embeddings.py --write-milvus` are left out; words that
differ by a final "s" are one.

### MCKnowledge

It composes the four preceding ones: `part` says which of them a behaviour is about, and the other three
stay as they are. Their properties are checked in one run.

## 4. The runs

| run | what it explores | result |
|---|---|---|
| `credentials` | 3 requests of any kind, 2 links, 2 passwords | 131,118 states; holds |
| `credentials_change` | the same with sign-ins and changes | `ChangeVerifiesCurrentPassword` violated |
| `credentials_admin` | the same with sign-ins and administrator resets | `AdminResetEndsSessions` violated |
| `ingestion` | 1 article, 3 uploads (1 faulty), 2 codes | 238,666 states; holds |
| `retrieval_cache` | 2 searches, 2 uploads of one document or two, all faults in one of each, restarts when idle | 1,066,037 states; holds |
| `answer_cache` | 3 messages, 2 ratings, 3 questions, all faults | about 2.1 million states; holds |
| `answer_cache_mirror` | the same with no fault at all | `CacheMirrorsRating` violated |
| `answer_cache_update` | the same with one change of content | `AnswersFollowKnowledge` violated |
| `accounts` | 2 accounts, 4 requests (1 faulty) | about 1.8 million states; holds |
| `accounts_final_admin` | the same | `AdminRemains` violated |
| `chat` | 2 requests and a rating, or a request and 2 ratings; a fault | 568,921 states; holds |
| `knowledge` | 3 sign-ins; 178 table contents; about 21,000 articles; 2 files loaded, 1 uploaded | 410,072 states; holds |

**credentials.** `SingleOutstanding`, `LinkUsedOnce`, `LinksRefine`: links are one-time under any
overlap. `ResetActsOnCurrentRow`: a completion cannot act for an account deactivated meanwhile or
lose a version. `OwnReplacementRetiresLinks`: also a link being issued at the same moment. `RequestsEnd`:
the inverted lock orders of completion and the others deadlock, and the deadlock is resolved.
Three requests are one that issues a link and two that use it, or a replacement between the steps of
two others; two links are one to retire and one to issue.

**credentials_change, credentials_admin.** Two simultaneous changes that know the same old password
both commit, the second over a hash it never verified; and a reset overlapping another replacement
writes a version an access token already carries. Both contradict `docs/account-invitations.md`
(lines 50 and 28).

**ingestion.** Two uploads race while a third fails or crashes at any point. `NumbersUnique`,
`CurrentAgrees`, `CurrentIndexed`, `LeftoversExplained`, `UploadsEnd`, `LibraryRefines`. The safety
properties were also checked once with every upload faulty (4.3 million states, too long for a run kept
here). One article and three uploads give a document two competing versions, a new article with a
code already there or in progress, and a version of an article that is itself being uploaded.

**retrieval_cache.** `EntriesReflectAnnounced`: an entry under generation g reflects every upload that
advanced the counter to g or less, however slow the search that wrote it: it has the upload's content
while that is its document's current version, and no version that it superseded. `SearchBounds`: the same
for what a search returns and the uploads announced before it began, and nothing uncommitted.
`LockTakenByOwner`, `SearchesEnd`. Two searches are an owner
and a waiter, or one overtaking another whose lock has expired; two uploads make the generation
pass a search by two, and are of two documents, one of them new, or the next two versions of one. One
search and one upload may fail, crash and lose their commands (`Faulty`); the other two have to be right
beside them. Redis restarts only while no search runs: a search that holds a generation from
before a restart can write under a number that is reached again by another upload, and then
`EntriesReflectAnnounced` fails; the code has no defence and no document promises one.

An upload whose advance fails is answered as a success (the exception is logged and swallowed), and
then an entry from before it may be served for as long as it lives, also one with the version that this
upload superseded, or, from a search it overtook, with neither version; the properties speak of announced
uploads and leave such an upload out. `PROGRESS.md` 946-949 promises otherwise.

**answer_cache.** `OnlyVetted`: what is reused was rated helpful for that prompt, or for a near question
standing alone, even when commands are lost. `IndexMirrorsRatings`, `KeyMirrorsRatings`: taking a
rating back evicts, up to the exceptions they name. Three messages are an answer, a paraphrase it is
copied to, and a paraphrase of the paraphrase; two ratings give and take back, or overlap. The content
stays fixed, since for these properties it is one more component of the prompt. One link command
family may be unsure (`MaxUnsure = 1`), and the index holds one entry, so that trimming happens. With
two possible answers the properties also hold, without faults (572 thousand states) and with
lost commands (3.1 million). Messages and ratings are symmetric: no definition orders them and the
run checks no liveness.

**answer_cache_mirror, answer_cache_update.** The copy made for a paraphrase has no link and survives
the rating it rests on; and after an update of the knowledge base the exact prompt misses but the
semantic index still answers with the old text. The first contradicts the comment at
`ollama_service.py:468`, the second `PROGRESS.md` 949-954.

**accounts.** `ActivatedOnce`: what an activation checked of its link and of the account still holds when
it commits. It takes four requests to break in a faulty variant: two that issue links past the cooldown,
and an activation by each. `RemovalLeavesAdmin`: two administrators removing each other, or a removal
overlapping a promotion, leave one, as long as each change knew that it was a removal. Accounts and
faultless requests are symmetric.

**accounts_final_admin.** A change that read its target before it became an administrator does not know.
An agent's deactivation is decided; the agent is promoted and removes the other administrator, which the
guard allows; the deactivation then commits, without the guard, over the last one. `update_user` says
"The final active administrator cannot be deactivated or demoted." (`admin_user_service.py:24`), and the
test of it makes one request at a time.

**chat.** `RowIsWhatWasSent`: however a stream ends, its row holds all that was sent or, until then,
nothing. `HistoryRemembers`: a question asked after an answer was complete has it, in order and
uncut but for the bounds, and nothing of another conversation. `GapNamesItsQuestion`: a gap names the
question its answer replied to; the exception, another question asked in the same conversation while
the answer was on its way, is part of the property. `NegativeRatingKept`, `RequestsEnd`. Two requests
are an answer and the question that remembers it, or two streams in one conversation; two calls are a
rating given and taken back, two users' ratings, or two deletions. Two calls that begin together add
two gaps for an answer, which the property allows: it forbids it once a gap was there.

**knowledge.** The limiter: `CountsTheWindow`, `StretchBounded`, `LockoutEnds`. Three attempts, two
accounts behind one host, an account's limit of two against the others' of one, so that one limit of an
attempt is full while another has room. The lookup: `NeverGuesses`, for every set of values a question can
name - both networks, several echecs, both channels among them - and contents in which columns are partly
empty, keys repeat, tables disagree, two tables of a tier apply and those of another could answer. Four
faulty variants break it: a value left open that is picked, a tie that is broken, a network that is
overlooked, an operational table that fills nothing in. The chunking: `TextKept`, whose four parts are
stated in the module, for every body of up to six lines of a procedure and four of another section, and
for sections one word to each side of the sizes at which a cut falls. The load: `CurrentContentFound`,
that a search which is answered finds every committed text its words ask for, from vectors that are stale,
unlabelled, half inserted or missing, and `SupersededOnlyUnlabelled`, with one file that is edited and
uploaded and one that is neither; three passages are more than one batch, and `TopK = 2` less than what
matches, as is the limit on candidate rows (`RowLimit`, 25 in the code for five results, here 2 by
`MostCandidates`). The article table holds up to two rows of one activity, so that both ways it answers
are met.

**Deadlock** is checked in every run but `knowledge`, where a lookup that has answered and an article
that is chunked have ended. Where all requests have ended, `Quiescent` stutters: the server
waits for calls. A state in which some request cannot go on is still reported.

**Fairness.** A request that has begun goes on: its thread is scheduled. In `Ingestion` and
`RetrievalCache` this is weak fairness of each request's next step. In `Credentials` it is strong,
since PostgreSQL queues the waiters of a row and a lock that is freed again and again is granted in the
end; and a transaction of a deadlock is aborted, because the server runs a detector. Nothing else is
fair: no request has to be made, no link to expire, no fault to happen or stop. `AnswerCache` claims
no liveness; its requests wait for nothing. In `ChatLog` a request's own steps are weakly fair, the end
of a stream among them because the model server is read with a time-out; tokens, ratings and faults are
not. In `RateLimit` only time is fair: attempts, clears and restarts need not happen for a lockout to
end.

**Bounds.** The constants above; in `RetrievalCache` `Faulty`, one search and one upload, and `Targets`, two
documents of which one had a version before; `MaxUpdates`, `MaxUnsure`, and in `Credentials` the number of links
that may be issued. In `ChatLog` `MaxTokens` (a stream is empty or not) and `MaxFaults` (one failed
write or crash, anywhere); a history of one turn and two characters, against answers of one and three,
is over each bound in turn. In `RateLimit` `MaxAge`, past which an attempt is forgotten: longer than a
window, so that a stretch may lie across two. In `OfflineLoad` `MaxVersion` and `Uploaded`. Each upload
advances the generation once, so generations are bounded by the uploads. No counter wraps in the code or
in the models.

## 5. The proofs

`CredentialsProofs` proves, for every set of requests, links and passwords and every choice of
endpoints, the type invariant, `SingleOutstanding`, `LinkUsedOnce`, `ResetActsOnCurrentRow`,
`OwnReplacementRetiresLinks` and `Credentials` => `OneTimeTokens`. The assumptions are those of
`Credentials`: the endpoints are among those modelled and `NoOne` is no request.

None of these is inductive. That one link is outstanding depends on nobody else being between its
SELECT and its COMMIT; so `IInv` follows the locks: a request past its FOR UPDATE holds the user's
row (`RowHeld`); a completion holds the one link it will spend, still unspent (`LinkHeld`); what a
request will retire is locked by it (`RetiredHeld`); and while it holds the row nothing outstanding
escapes it (`Covered`). The last is the heart: only the holder of the user's row issues links. The
administrator's reset holds no row and so is not covered, which is why the property is about the
user's *own* replacements. The copy of a completion is the row (`CopyCurrent`); that of a change is
not, which is the finding of `credentials_change`.

The proof that a step keeps `IInv` has two halves: what a request's step does to its own conjuncts, one
lemma per action, and `Undisturbed`, what it leaves to every other request. The action properties and the
refinement follow from `IInv` step by step.

`IngestionProofs` proves, for every finite set of uploads, any of them faulty, and every set of article
codes: the type invariant, `NumbersUnique`, `CurrentAgrees`, `CurrentIndexed`, `LeftoversExplained`
and `Ingestion` => `Library`. The version rows of a document have one writer at a time: an upload of
a version holds the document's lock from `VersionLock` to its commit (`Writer`), and as long as an
article's document has no row nobody can upload a version to it (`Document`). So what a version upload
read of its siblings at `Insert` is still so at `Commit`, which is why the flag and the pointer move
together (`Flag`, `Current`). `Mark`, which takes no lock, is the exception: it can unflag the version
the document points to, and `Current` says that this version is then a failed one. `Stores` says what
Milvus and PostgreSQL have of an upload by how far it is, and `Kept` that the vectors of a version about
to be or being current are not deleted by others: a clean-up deletes by id, two uploads for one
document have different numbers, so only an upload for another document can hit them. `NumbersUnique`
is inductive with these, from `NextNumberIsNew`, which needs that a finite set of numbers has a
greatest one. A step that writes no rows is handled by one lemma for all (`MovesInv`), the four that do
by one each.

`RetrievalCacheProofs` proves, for every finite set of uploads, every set of searches and every set of
faults without `"restart"`, the type invariant, `EntriesReflectAnnounced`, `SearchBounds` and
`LockTakenByOwner`. The hypothesis `RestartsIdle` of each theorem is that restriction: Redis may lose
everything while no search runs (`"idle_restart"`), not under one, as explained in section 4. A result is
`Good` for generation g if it reflects what is `Due` then: every upload announced up to g; everything
announced, if g is the current generation, because the search read Milvus after it had read g; and what had
been announced before any search under g began. The second clause makes the first survive an advance, the
third makes a hit under an old generation no worse than the reader was promised. What Milvus returned is
only `Raw`: it has what is due and current, and old versions too, until the filter. That a result stays good
when a later version is committed rests on two facts about documents: the current version is a committed one
of its own (`CurrentCommitted`), and a version once superseded is never current again (`SupersededForGood`),
so that neither the filter nor the lexical rows bring one back. `Counted` - the counter moves at
most once for each answered upload - bounds the generations, and `sr[s].g <= gen` says nobody works
under a number still to come.

`AccountsProofs` proves, for every finite set of accounts and every set of requests, any of them faulty,
the type invariant, `ActivatedOnce` and `RemovalLeavesAdmin`. The inductive invariant is that a request
holds the rows it has checked and that they still are as checked: an activation its link, usable, and
then the account, pending; a resend the links it will retire; a removal the administrators it counted, of
whom, being two or more, one is not its target. `Respects` is what a step must leave to the holders of
other locks, and every action does. The last clause needs that the accounts are finitely many: it counts.
`AdminRemains`, false, has no such invariant: an update that is no removal holds nothing.

`AnswerCacheProofs` proves, for every set of messages, histories and answers and every finite set of
ratings, any size of the index and any faults, the type invariant, `OnlyVetted`, `IndexMirrorsRatings`
and `KeyMirrorsRatings`. It assumes that there are finitely many ratings (they are counted against the
index's size) and that a question is near itself. A value in the cache is not explained by the rating's
row alone, since the key, the index and the link follow it one command at a time. `Backs` says how far:
what a message put into the cache is there while its link says so and its rating stands, or while the
commands that take it out are still ahead, or after those that put it in. That rests on `InTurn` - while
nothing was lost, one rating of a message acts at a time - and on `unsure`, which remembers every command
lost and every overlap. `IndexVetted` is the extra that `OnlyVetted` needs: an entry was rated for its own
question, so that a paraphrase is one step from a vetted answer and a copy of a copy never two. The
chat's steps and those of a rating are a lemma each (`BackedChat`, `BackedSubmit`, `BackedWorks`).
`WithoutKeeps` - what LREM leaves is part of what there was - is proved by counting ranks, for want of
induction.

`ChatLogProofs` proves, for any users, requests, calls, sessions and sizes and any number of failed
writes and crashes, the type invariant, `RowIsWhatWasSent`, `GapNamesItsQuestion` and
`NegativeRatingKept`. Every row is the question or the answer of the request it names (`RowOK`), and the
request knows where they are and what the answer's row holds (`RequestOK`): so nobody else writes it, and
an answer's question has a smaller id in the same session and is committed. Going back by ids from the
answer, as `PrecedingQuestion` does, therefore finds a question at least as late. A call's view of the
gaps (`CallOK`) lasts because gaps are never removed or unflagged (`GapsGrow`). The proof has two halves:
what a request's step does to the rows, one lemma per action, of which the ratings see only `Stable`; and
what a call's step does to ratings and gaps.

`HistoryRemembers` is proved in the same module in two steps. What `History` returns when it is read
(`HistoryRecalls`) is a fact of the operators: `Newest` lists the ids in descending order because the
number of greater ids is a bijection to 0, 1, ... (`NewestFacts`); `Chars` is a running sum that does not
care about the direction it is taken in (`CharsRun`, `CharsReversed`); so `BoundedHistory` stays within
`MaxChars`, and every text but the first is whole (`BoundedTakes`). That it stays so is a second
invariant, `HistoriesOK`, beside `IInv`: the requests in `before` have ended, and no step of anybody
changes the text of a row whose request has ended, takes back a committed row or moves it to another
session (`Grown`). A request that is still streaming may fill a row after it was read into a history;
that is why the property speaks of the answers complete when the question was asked.

`RateLimitProofs` proves, for every finite set of attempts, any accounts, hosts and endpoints and any
positive limits and windows shorter than `MaxAge`, the type invariant, `CountsTheWindow` and
`StretchBounded`. That a counter is exact is nearly inductive (`Exact`; it needs that an attempt not
yet made is under no key). That no stretch as long as a window holds more than twice the limit is
not: a counter says nothing of the windows before the one that runs. `Windows` adds them as a set of
ages, one for the start of each window: they lie at least a window apart, every remembered attempt falls
into one, none holds more than the limit. What may happen to a key is one lemma each: it is emptied,
a window is opened, an attempt is counted, a tick passes. `TwoWindowsMeet` then says that a stretch
meets at most two of them, since the outer of three would be two windows apart, and `CoveredByTwo`
counts.

`KnowledgeProofs` proves what `MCKnowledge` composes, part by part and together.

*Lookup.* `NeverGuesses`, for any values, fields, schema and tables: `LookupAssumption` (the code's own
columns, `Length` a number for each value), `TiersAssumption` (a table is of one tier, tables are
finitely many) and `BasesAssumption` (contents are finite sets of rows). `LookupIInv` adds what is known when
a tier is reached: that the ones before determine nothing (`Left`). The work is in the tables. The code narrows
by the fields that match, fills in the others and selects by the key so completed; that this finds rows exactly
where the table is meant, and then all that agree, is `GenericRowsCorrect`, from `MatchedNamed`,
`NarrowedFit` and `ResolvesMeant`, and for a tier `OneTableCorrect`. `GemCorrect` and `ArticleCorrect` say the
same of the other two tiers, both ways: what is answered is what is asked (`PerimeterAsked`, `EchecLongest`,
`ChannelFits`), and a tier that answers nothing left nothing it could have answered.

*Offline load.* `OfflineTypeOK`, `CurrentContentFound` and `SupersededOnlyUnlabelled`, for any finite set
of files with any revisions, any questions, any integer similarity and any limits (`OfflineAssumption`,
`RankingAssumption`). A search that is answered is a function of rows, vectors and versions; what it finds
is proved of that function wherever they are `Searchable`, whatever the loader has got to. `OfflineIInv`
makes every reachable state so: versions count up, an upload adds rows to a version that has none, and
version and index tell rows apart (`RowsUnique`). `SupersededOnlyUnlabelled` needs no invariant at all: it
holds of any search.

*Chunking.* `ChunkTypeOK` and `TextKept`, for every article whose lines have a word at least
(`ArticlesAssumption`: `split_sections` drops the others) and every `MaxWords`, `Overlap` and
`PointWords` with 4 <= `MaxWords` and 3 <= `Overlap` < `MaxWords` (`ChunkingAssumption`; the code has 220
and 35: with a shorter overlap a last cut of less than four words would be dropped and take words with
it). Each splitter is a recursive function; that its value obeys the recursion (`Scan`, `UpTo`) and what
each line does to the state give, without induction over articles, what the pieces are (`PiecesRight`).
`ChunkIInv` keeps that the chunks of a section that is done are those pieces, and of one being cut by
size that its cuts reach as far as they should (`MadeRight`, `Underway`). On the way it turns out that
`split_embedded_cases` never splits what `split_business_cases` hands it (`EmbeddedWhole`).

*Together.* `KnowledgeTypeCorrect` proves `TypeOK` of `KnowledgeSpec`: the part that runs keeps its
invariant, the others rest. The limiter's part is cited from `RateLimitProofs`. `KnowledgeCorrect` states
the six safety properties of the parts for `KnowledgeSpec`, the specification the run checks: of the part
that runs they follow from its invariant, and a part at rest keeps them without having done anything
(`IdleLimiter`, `IdleLookup`, `IdleChunking`), so the theorems of the parts are what has content here.
`SomeoneAssumption` says that there is a sign-in, an account and a host for the limiter's idle state.

Three statements were found wrong by trying to prove them, on contents no run had met, and were
corrected with the bounds that meet them: the clause of `NeverGuesses` on articles did not hold where an
activity has two article rows; `CurrentContentFound` left out that the query for candidate rows has a
limit; and that no word of a cut section is lost needs the overlap to be three words or more.

## 6. Only model-checked, and not modelled

Liveness (`RequestsEnd`, `UploadsEnd`, `SearchesEnd`, `LockoutEnds`) stays with TLC: it rests on fairness
and enabledness, which the prover does not handle. The findings are counterexamples of TLC: what the code
does not keep has no proof.

Not modelled:

- *Deployment.* `deploy_vm.sh` is one sequence run by hand; what it can leave behind depends on Docker
  and on what the migrations do, neither of which this source determines.
- *Frontend.* `ChatLog` has the server's side of a stream, with a client that may leave at any token; what
  the page shows is not modelled.
- *Analytics, health, performance, configuration.* They read, and keep no state.
- *The keyword search* (`retrieval.py`), which reads its chunks from a file once, at start; the embedding
  cache, a pure function of its key; the wording of prompts and answers; the seeders of the decision
  tables; benchmarks and audits.

While modelling, some comments were found to say more than the code does; no run is devoted to them:

- `retrieval_service.py:1196` "Remove superseded document versions first." A vector the offline loader wrote
  has no version in its metadata and is never removed. `SupersededOnlyUnlabelled` states the exception.
- `decision_lookup_service.py:21-24` "anything that doesn't resolve fully -- an unrecognized code, an
  ambiguous perimeter, more than one candidate for a field -- returns None and the caller falls back to the
  existing retrieval+generation path". Of both networks named, copper is taken; an activity that only one
  network has is looked up there, whichever is named; of several echecs, the longest, and of two as long,
  either; of both channels, wholesale. And what one tier cannot resolve goes to the next tier, which may answer
  from another kind of table, before it goes to retrieval. `NeverGuesses` states each of these as the code has
  it (`Asks`, `Longest`, `GemFitting`, `TiersInOrder`).
- `_filter_current_version_hits` and the lexical query read the current versions at two moments after Milvus
  was read, so a search that overlaps a version's commit may return neither version of the article, or both.
- `retrieval_service.py:632-645` a passage without the question's code "must lose": the malus is a fixed
  number of points, which enough other words in common outweigh.
- A FAQ's lines before its first question become part of that question's answer; a case with a title and
  too little under it is dropped (`chunk.py`). `AnswersKeepTheirQuestion` states the first.
- `load_chunks_to_postgres.py` leaves a chunk that is there as it is, also when its text has changed;
  `load_embeddings_to_milvus.py` drops the vectors of uploads, which are then found by their words only.
