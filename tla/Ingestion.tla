--------------------------- MODULE Ingestion ---------------------------
(***************************************************************************)
(* Uploads of DOCX articles by administrators (admin_ingestion_service):    *)
(* a new article, or a new version of a document.  One upload writes two    *)
(* stores that share no transaction, PostgreSQL (document, version, chunk   *)
(* rows) and Milvus (one vector per chunk), and undoes by hand in one what   *)
(* it could not commit in the other.                                        *)
(*                                                                         *)
(* An upload creates at most one document_versions row, so it also names    *)
(* that row; an upload of a new article names the document it creates.      *)
(* The chunks of an upload share one vector id prefix, "code::vN": an        *)
(* upload's vectors are inserted, found and deleted together.               *)
(***************************************************************************)
EXTENDS Naturals, FiniteSets, FiniteSetsExt

CONSTANTS
  Uploads,     \* the uploads of a behaviour, each made once
  Articles,    \* those that were ingested before it starts
  Codes,       \* the article codes (kb_code) the files carry
  Faulty,      \* the uploads during which something may fail or crash
  NoOne        \* no lock holder; no current version

ASSUME UploadsAssumption == IsFiniteSet(Uploads)
ASSUME ArticlesAssumption == Articles \subseteq Uploads
ASSUME FaultyAssumption == Faulty \subseteq Uploads
ASSUME NoOneAssumption == NoOne \notin Uploads

VARIABLES
  req,         \* req[u]: how far upload u is, and what it works on
  ver,         \* ver[u]: its document_versions row, as committed
  cur,         \* cur[d]: current_version_id of document d, as committed
  chunks,      \* the uploads whose chunk rows are committed
  vectors,     \* the uploads whose vectors are in Milvus
  docLock      \* the upload holding the row lock of document d

vars == <<req, ver, cur, chunks, vectors, docLock>>

-----------------------------------------------------------------------------
InFlight == {"check", "parse", "find", "insert", "commit", "answer", "clean", "mark"}
Ended    == {"done", "failed", "crashed"}

Req == [pc: {"new"} \cup InFlight \cup Ended,
        code: Codes, doc: Uploads, num: Nat \ {0},
        seenCurrent: SUBSET Uploads, seenCompleted: SUBSET Uploads,
        leak: BOOLEAN]

VersionRow == [state: {"none", "processing", "completed", "superseded", "failed"},
               current: BOOLEAN]

TypeOK ==
  /\ req \in [Uploads -> Req]
  /\ ver \in [Uploads -> VersionRow]
  /\ cur \in [Uploads -> Uploads \cup {NoOne}]
  /\ chunks \in SUBSET Uploads
  /\ vectors \in SUBSET Uploads
  /\ docLock \in [Uploads -> Uploads \cup {NoOne}]

(* The articles there are were ingested one by one, so their codes differ. *)
Init ==
  /\ \E code \in [Uploads -> Codes] :
       /\ \A a, b \in Articles : code[a] = code[b] => a = b
       /\ req = [u \in Uploads |->
                   [pc |-> IF u \in Articles THEN "done" ELSE "new",
                    code |-> code[u], doc |-> u, num |-> 1,
                    seenCurrent |-> {}, seenCompleted |-> {}, leak |-> FALSE]]
  /\ ver = [u \in Uploads |->
              [state |-> IF u \in Articles THEN "completed" ELSE "none",
               current |-> u \in Articles]]
  /\ cur = [u \in Uploads |-> IF u \in Articles THEN u ELSE NoOne]
  /\ chunks = Articles
  /\ vectors = Articles
  /\ docLock = [u \in Uploads |-> NoOne]

-----------------------------------------------------------------------------
Creates(u)  == req[u].doc = u            \* a new article, not a new version

VersionsOf(d) == {w \in Uploads : ver[w].state # "none" /\ req[w].doc = d}

(* _kb_code_exists; a file seen before (_checksum_exists) has a known code. *)
CodeKnown(k) == \E w \in chunks : req[w].code = k

(* The uploads whose vectors have the ids of upload u's. *)
SameIds(u) ==
  {w \in Uploads : req[w].code = req[u].code /\ req[w].num = req[u].num}

(* Fault: only the versions that are no longer current are counted. *)
NextNumber_Counted(d) == Cardinality(VersionsOf(d) \ {cur[d]})

(* Fault: the number follows the current version's, not the last one's. *)
NextNumber_FromCurrent(d) == IF cur[d] = NoOne THEN 1 ELSE req[cur[d]].num + 1

NextNumber(d) == Max({0} \cup {req[w].num : w \in VersionsOf(d)}) + 1

(* A document's row comes with its first version, or records the upload of   *)
(* an article that failed (_record_terminal_job): then it has no version.     *)
HasRow(d) == cur[d] # NoOne \/ (Creates(d) /\ req[d].pc = "failed")

Unlocked(u) == [d \in Uploads |-> IF docLock[d] = u THEN NoOne ELSE docLock[d]]

At(u, from, to) ==
  /\ req[u].pc = from
  /\ req' = [req EXCEPT ![u].pc = to]

(* After a failure a version's row is still to be marked failed, while an   *)
(* article that was not committed left no row.                              *)
AfterFailure(u) == IF Creates(u) THEN "failed" ELSE "mark"

(* Fault: the error path keeps the transaction, and its lock, open. *)
FailTo_LockKept(u, pc, leak) ==
  /\ req' = [req EXCEPT ![u].pc = pc, ![u].leak = @ \/ leak,
                      ![u].seenCurrent = {}, ![u].seenCompleted = {}]
  /\ UNCHANGED docLock

FailTo(u, pc, leak) ==
  /\ req' = [req EXCEPT ![u].pc = pc, ![u].leak = @ \/ leak,
                      ![u].seenCurrent = {}, ![u].seenCompleted = {}]
  /\ docLock' = Unlocked(u)

-----------------------------------------------------------------------------
(* ingest_docx_bytes: a known code is refused before the article is chunked  *)
(* and embedded (_preflight_duplicates), and again in the transaction that   *)
(* writes the rows.  No lock or constraint keeps the answer true after it.   *)
Preflight(u) ==
  /\ At(u, "new", IF CodeKnown(req[u].code) THEN "failed" ELSE "check")
  /\ UNCHANGED <<ver, cur, chunks, vectors, docLock>>

Check(u) ==
  /\ At(u, "check", IF CodeKnown(req[u].code) THEN "failed" ELSE "find")
  /\ UNCHANGED <<ver, cur, chunks, vectors, docLock>>

(* ingest_document_version_bytes, first transaction: under the document's    *)
(* lock the version gets its number and its row.                             *)
VersionStart(u) ==
  /\ req[u].pc = "new"
  /\ \E d \in Uploads \ {u} :
       /\ HasRow(d) /\ docLock[d] = NoOne
       /\ req' = [req EXCEPT ![u].pc = "parse", ![u].doc = d, ![u].num = NextNumber(d)]
  /\ ver' = [ver EXCEPT ![u].state = "processing"]
  /\ UNCHANGED <<cur, chunks, vectors, docLock>>

(* Fault: the second transaction reads the document without FOR UPDATE. *)
VersionLock_Unlocked(u) ==
  /\ At(u, "parse", "find")
  /\ UNCHANGED <<ver, cur, chunks, vectors, docLock>>

(* Second transaction, when the file has been parsed and embedded. *)
VersionLock(u) ==
  /\ At(u, "parse", "find")
  /\ docLock[req[u].doc] = NoOne
  /\ docLock' = [docLock EXCEPT ![req[u].doc] = u]
  /\ UNCHANGED <<ver, cur, chunks, vectors>>

(* The file does not parse or validate, has no chunks, or the embedding      *)
(* model fails.                                                              *)
Unreadable(u) ==
  /\ u \in Faulty
  /\ req[u].pc \in {"check", "parse"}
  /\ FailTo(u, AfterFailure(u), FALSE)
  /\ UNCHANGED <<ver, cur, chunks, vectors>>

-----------------------------------------------------------------------------
(* insert_embedding_records: the ids must be new; then the batches go in. *)
FindExisting(u) ==
  /\ req[u].pc = "find"
  /\ IF SameIds(u) \cap vectors # {}
       THEN FailTo(u, AfterFailure(u), FALSE)
       ELSE req' = [req EXCEPT ![u].pc = "insert"] /\ UNCHANGED docLock
  /\ UNCHANGED <<ver, cur, chunks, vectors>>

(* A version upload goes on to read the other versions of its document; its  *)
(* commit will write what it changed of what it read.                        *)
Insert(u) ==
  /\ req[u].pc = "insert"
  /\ vectors' = vectors \cup {u}
  /\ LET others == VersionsOf(req[u].doc) \ {u}
     IN req' = [req EXCEPT
          ![u].pc = "commit",
          ![u].seenCurrent = {w \in others : ver[w].current},
          ![u].seenCompleted = {w \in others : ver[w].state = "completed"}]
  /\ UNCHANGED <<ver, cur, chunks, docLock>>

(* The insert raises with nothing written, with the written batches deleted  *)
(* again by id, or with vectors left behind: the deletion failed too, or the *)
(* flush or load after the last batch did.                                   *)
InsertFails(u) ==
  /\ u \in Faulty
  /\ req[u].pc = "insert"
  /\ \E left \in {vectors, vectors \ SameIds(u), vectors \cup {u}} :
       /\ vectors' = left
       /\ FailTo(u, AfterFailure(u), u \in left)
  /\ UNCHANGED <<ver, cur, chunks>>

-----------------------------------------------------------------------------
(* COMMIT.  An article's rows all appear now; a version becomes current, the *)
(* versions seen current are no longer, those seen completed are superseded. *)
Commit(u) ==
  /\ req[u].pc = "commit"
  /\ req' = [req EXCEPT ![u].pc = "answer", ![u].seenCurrent = {}, ![u].seenCompleted = {}]
  /\ docLock' = Unlocked(u)
  /\ chunks' = chunks \cup {u}
  /\ cur' = [cur EXCEPT ![req[u].doc] = u]
  /\ ver' = [w \in Uploads |->
       IF w = u THEN [state |-> "completed", current |-> TRUE]
       ELSE [state   |-> IF w \in req[u].seenCompleted THEN "superseded" ELSE ver[w].state,
             current |-> ver[w].current /\ w \notin req[u].seenCurrent]]
  /\ UNCHANGED vectors

(* Fault: only the rows are rolled back. *)
CommitFails_RowsOnly(u) ==
  /\ u \in Faulty
  /\ req[u].pc = "commit"
  /\ FailTo(u, AfterFailure(u), FALSE)
  /\ UNCHANGED <<ver, cur, chunks, vectors>>

(* Milvus counted other vectors than were sent, or the commit failed. *)
CommitFails(u) ==
  /\ u \in Faulty
  /\ req[u].pc = "commit"
  /\ FailTo(u, "clean", FALSE)
  /\ UNCHANGED <<ver, cur, chunks, vectors>>

(* The answer is made from rows the commit expired, so it reads them again.  *)
(* If that fails the handler treats the committed upload as a failed one.    *)
Answer(u) ==
  /\ At(u, "answer", "done")
  /\ UNCHANGED <<ver, cur, chunks, vectors, docLock>>

AnswerFails(u) ==
  /\ u \in Faulty
  /\ At(u, "answer", "clean")
  /\ UNCHANGED <<ver, cur, chunks, vectors, docLock>>

(* Fault: the vectors are deleted by article code, not by id. *)
Clean_ByCode(u) ==
  /\ req[u].pc = "clean"
  /\ vectors' = {w \in vectors : req[w].code # req[u].code}
  /\ FailTo(u, AfterFailure(u), u \in vectors')
  /\ UNCHANGED <<ver, cur, chunks>>

(* delete_vectors, whose own failure is only reported. *)
Clean(u) ==
  /\ req[u].pc = "clean"
  /\ \E left \in {vectors, vectors \ SameIds(u)} :
       /\ vectors' = left
       /\ FailTo(u, AfterFailure(u), u \in left)
  /\ UNCHANGED <<ver, cur, chunks>>

(* Fault: the failed version gives the document back to an earlier one. *)
Mark_Reverts(u) ==
  /\ req[u].pc = "mark"
  /\ FailTo(u, "failed", FALSE)
  /\ ver' = [ver EXCEPT ![u] = [state |-> "failed", current |-> FALSE]]
  /\ cur' = IF cur[req[u].doc] = u THEN [cur EXCEPT ![req[u].doc] = req[u].doc] ELSE cur
  /\ UNCHANGED <<chunks, vectors>>

(* The version's row is marked failed, without the document's lock, unless   *)
(* the database fails again.                                                 *)
Mark(u) ==
  /\ req[u].pc = "mark"
  /\ \/ /\ ver' = [ver EXCEPT ![u] = [state |-> "failed", current |-> FALSE]]
        /\ FailTo(u, "failed", FALSE)
     \/ FailTo(u, "failed", TRUE) /\ UNCHANGED ver
  /\ UNCHANGED <<cur, chunks, vectors>>

(* The process stops: what was not committed never happened, what Milvus     *)
(* took stays.                                                               *)
Crash(u) ==
  /\ u \in Faulty
  /\ req[u].pc \in InFlight
  /\ FailTo(u, "crashed", FALSE)
  /\ UNCHANGED <<ver, cur, chunks, vectors>>

Quiescent ==
  /\ \A u \in Uploads : req[u].pc \notin InFlight
  /\ UNCHANGED vars

-----------------------------------------------------------------------------
Goes(u) ==
  \/ Preflight(u) \/ Check(u) \/ VersionStart(u) \/ VersionLock(u) \/ Unreadable(u)
  \/ FindExisting(u) \/ Insert(u) \/ InsertFails(u)
  \/ Commit(u) \/ CommitFails(u) \/ Answer(u) \/ AnswerFails(u)
  \/ Clean(u) \/ Mark(u)

Next == (\E u \in Uploads : Goes(u) \/ Crash(u)) \/ Quiescent

Spec == Init /\ [][Next]_vars

(* A request that runs goes on.  Weak fairness is enough for the document's  *)
(* lock too: requests end, so in the end nobody else takes it.  No request   *)
(* has to be made, and none has to fail.                                     *)
Progress(u) == req[u].pc \in InFlight /\ Goes(u)

FairSpec == Spec /\ \A u \in Uploads : WF_vars(Progress(u))

-----------------------------------------------------------------------------
(* Properties *)

(* Versions of a document uploaded at the same time get different numbers,   *)
(* also when some of them fail: the number names the vectors.                *)
NumbersUnique ==
  \A d \in Uploads : \A u, w \in VersionsOf(d) :
    req[u].num = req[w].num => u = w

(* The two places that say which version is current agree, whatever uploads  *)
(* finish or fail at the same time: the version flagged current is the one   *)
(* the document points to, so there is at most one, and there is one unless  *)
(* the last activation was followed by a failure to answer.                  *)
CurrentAgrees ==
  /\ \A u \in Uploads : ver[u].current => cur[req[u].doc] = u
  /\ \A d \in Uploads : cur[d] # NoOne =>
       ver[cur[d]].current \/ ver[cur[d]].state = "failed"

Undone(u) == req[u].pc \in {"mark", "failed", "crashed"}

(* The current version of a document is in the vector index.  Only two       *)
(* things can take it out: a failure after its own commit, and the cleanup   *)
(* of an upload for another document whose file carries the same code.       *)
CurrentIndexed ==
  \A d \in Uploads : cur[d] # NoOne =>
    \/ cur[d] \in vectors
    \/ Undone(cur[d])
    \/ \E w \in SameIds(cur[d]) : req[w].doc # d /\ Undone(w)

(* What a failed upload leaves behind, vectors without chunk rows or a       *)
(* version still "processing", is left by a crash or by a failing cleanup.   *)
LeftoversExplained ==
  \A u \in Uploads :
    u \in vectors \ chunks \/ ver[u].state = "processing" =>
      req[u].pc \in InFlight \cup {"crashed"} \/ req[u].leak

(* Every upload that has begun ends: the document's lock is always given     *)
(* back, by success, failure or crash.                                       *)
UploadsEnd ==
  \A u \in Uploads : (req[u].pc \in InFlight) ~> (req[u].pc \in Ended)

(* Readers see the promise of module Library. *)
Published == INSTANCE Library WITH
  Documents <- Uploads, Versions <- Uploads, NoVersion <- NoOne,
  Seeds <- Articles, current <- cur, published <- chunks
LibraryRefines == Published!Spec
=============================================================================
