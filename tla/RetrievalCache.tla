------------------------ MODULE RetrievalCache ------------------------
(***************************************************************************)
(* Cached semantic search (retrieval_service.search_chunks over             *)
(* cache_service) while uploads change the knowledge base.                  *)
(*                                                                         *)
(* Results are cached in Redis, without expiry, under a key that includes   *)
(* a generation number.  An upload inserts its vectors, commits its rows,   *)
(* and then advances the generation; nothing makes the last two one step.   *)
(* A search is a sequence of separate reads of Redis, Milvus and            *)
(* PostgreSQL.  Different queries have different keys and share only the    *)
(* generation, so one query stands for all.                                 *)
(*                                                                         *)
(* What a result is good for is the set of uploads whose content it could    *)
(* rank: those whose vectors Milvus returned and whose version the           *)
(* current-version filter let through, and those the lexical search added.   *)
(* Milvus, the filter and the lexical search are three reads at three        *)
(* moments.  Uploads may be versions of one document: then the commit of     *)
(* the later one takes the earlier one out of what the filter keeps, also    *)
(* out of a search that read Milvus when the earlier one was current; such   *)
(* a result may have neither version, or both.                               *)
(*                                                                         *)
(* An upload is taken to delete no vectors but its own; module Ingestion     *)
(* names the exception, two documents of one article code.                   *)
(***************************************************************************)
EXTENDS Naturals, FiniteSets

CONSTANTS
  Searches,    \* the searches of a behaviour, each made once
  Updates,     \* the uploads that change the knowledge base
  Documents,   \* the documents they are versions of
  Old,         \* the documents that had a version before
  Targets,     \* the ways the uploads may be distributed over documents
  Faulty,      \* the uploads and searches that may fail, whose process may stop
               \* and whose commands to Redis may fail
  Faults,      \* what Redis may do: see AllFaults
  Grounded,    \* the hits always include a document published before
  Earlier,     \* a version from before, as the current one of a document
  NoVersion,   \* the document has no current version
  Nobody,      \* no search holds a key's lock
  Ghost        \* a lock taken by a command whose answer was lost

AllFaults == {"read",      \* a read fails: generation 0, no cached value
              "lock",      \* SET NX fails, whether or not it took the lock
              "write",     \* SET or the release script fails
              "advance",   \* INCR fails
              "restart",   \* it restarts, and it persists nothing
              "idle_restart"}   \* ... but only while nobody searches

ASSUME FaultsAssumption == Faults \subseteq AllFaults
ASSUME UpdatesAssumption == IsFiniteSet(Updates)
ASSUME TargetsAssumption == Targets \subseteq [Updates -> Documents]
ASSUME VersionsAssumption == {Earlier, NoVersion} \cap Updates = {}
ASSUME GroundedAssumption == Grounded \in BOOLEAN
ASSUME HoldersAssumption == {Nobody, Ghost} \cap Searches = {} /\ Nobody # Ghost

VARIABLES
  upd,         \* upd[w]: how far upload w is, and the generation it made
  cur,         \* cur[d]: current_version_id of document d, as committed
  gen,         \* the knowledge generation in Redis
  cache,       \* cache[g]: the result cached under generation g, if any
  lock,        \* lock[g]: who holds the key's single-flight lock
  sr           \* sr[s]: how far search s is, and what it has read

vars == <<upd, cur, gen, cache, lock, sr>>

-----------------------------------------------------------------------------
Generations == 0 .. Cardinality(Updates)   \* no upload advances it twice
Cached(S) == {{}} \cup {{r} : r \in SUBSET S}   \* no result, or one

Running  == {"lookup", "lock", "lock_blind", "recheck", "wait", "milvus", "filter",
             "lexical", "write", "release", "release_unstored", "abandon", "audit", "audit_unstored"}
Finished == {"hit", "computed", "failed"}

Search == [pc: {"new"} \cup Running \cup Finished,
           g: Generations, result: SUBSET Updates, known: SUBSET Updates]

(* Of the ways an upload fails, "left" leaves its vectors in Milvus, "undone" *)
(* has committed it and deleted them.  The uploads whose versions its commit  *)
(* superseded (over) are noted for the properties.                           *)
Upload == [pc: {"new", "indexed", "left", "committed", "answered", "silent", "undone"},
           n: Generations, doc: Documents, over: SUBSET Updates]

TypeOK ==
  /\ upd \in [Updates -> Upload]
  /\ cur \in [Documents -> Updates \cup {Earlier, NoVersion}]
  /\ gen \in Generations
  /\ cache \in [Generations -> Cached(Updates)]
  /\ lock \in [Generations -> Searches \cup {Nobody, Ghost}]
  /\ sr \in [Searches -> Search]

Init ==
  /\ \E doc \in Targets :
       upd = [w \in Updates |-> [pc |-> "new", n |-> 0, doc |-> doc[w], over |-> {}]]
  /\ cur = [d \in Documents |-> IF d \in Old THEN Earlier ELSE NoVersion]
  /\ gen = 0
  /\ cache = [g \in Generations |-> {}]
  /\ lock = [g \in Generations |-> Nobody]
  /\ sr = [s \in Searches |-> [pc |-> "new", g |-> 0, result |-> {}, known |-> {}]]

-----------------------------------------------------------------------------
(* Uploads, as module Ingestion has them: their vectors are in Milvus, then  *)
(* their version is current, then the generation has moved.                  *)
Indexed   == {w \in Updates : upd[w].pc \notin {"new", "undone"}}
Committed == {w \in Updates : upd[w].pc \in {"committed", "answered", "silent", "undone"}}
Announced == {w \in Updates : upd[w].n # 0}

Current(w)  == cur[upd[w].doc] = w
Findable(w) == Current(w) /\ w \in Indexed
Versions(d) == {w \in Updates : upd[w].doc = d}

May(a, fault) == a \in Faulty /\ fault \in Faults

Step(w, from, to) ==
  /\ upd[w].pc = from
  /\ upd' = [upd EXCEPT ![w].pc = to]

(* A version upload holds the row lock of its document from before the       *)
(* insert to the commit or the failure.                                      *)
Index(w) ==
  /\ Step(w, "new", "indexed")
  /\ \A v \in Versions(upd[w].doc) : upd[v].pc # "indexed"
  /\ UNCHANGED <<cur, gen, cache, lock, sr>>

(* The commit fails and the vectors are deleted again, so that all is as it  *)
(* was before; or they are not, or the process stops.                        *)
UploadFails(w) ==
  /\ w \in Faulty
  /\ Step(w, "indexed", "new") \/ Step(w, "indexed", "left")
  /\ UNCHANGED <<cur, gen, cache, lock, sr>>

(* Fault: the generation is advanced just before the commit. *)
Publish_AdvanceFirst(w) ==
  /\ upd[w].pc = "indexed"
  /\ \/ /\ upd[w].n = 0
        /\ gen' = gen + 1
        /\ upd' = [upd EXCEPT ![w].n = gen + 1]
        /\ UNCHANGED cur
     \/ /\ upd[w].n # 0
        /\ upd' = [upd EXCEPT ![w].pc = "answered",
                              ![w].over = Versions(upd[w].doc) \cap Committed]
        /\ cur' = [cur EXCEPT ![upd[w].doc] = w]
        /\ UNCHANGED gen
  /\ UNCHANGED <<cache, lock, sr>>

Publish(w) ==
  /\ upd[w].pc = "indexed"
  /\ upd' = [upd EXCEPT ![w].pc = "committed",
                        ![w].over = Versions(upd[w].doc) \cap Committed]
  /\ cur' = [cur EXCEPT ![upd[w].doc] = w]
  /\ UNCHANGED <<gen, cache, lock, sr>>

(* Fault: the generation is advanced twice, before and after the caches of   *)
(* the process are cleared.                                                  *)
Advance_Twice(w) ==
  /\ upd[w].pc = "committed"
  /\ gen' = gen + 2
  /\ upd' = [upd EXCEPT ![w].pc = "answered", ![w].n = gen + 2]
  /\ UNCHANGED <<cur, cache, lock, sr>>

Advance(w) ==
  /\ upd[w].pc = "committed"
  /\ gen' = gen + 1
  /\ upd' = [upd EXCEPT ![w].pc = "answered", ![w].n = gen + 1]
  /\ UNCHANGED <<cur, cache, lock, sr>>

(* The failure is logged and the upload is answered as a success. *)
AdvanceFails(w) ==
  /\ May(w, "advance")
  /\ Step(w, "committed", "answered")
  /\ UNCHANGED <<cur, gen, cache, lock, sr>>

(* The process stops between the commit and the advance. *)
UpdateCrash(w) ==
  /\ w \in Faulty
  /\ Step(w, "committed", "silent")
  /\ UNCHANGED <<cur, gen, cache, lock, sr>>

(* The answer cannot be made from the committed rows: the handler treats the *)
(* upload as a failed one and deletes its vectors.                           *)
AnswerFails(w) ==
  /\ w \in Faulty
  /\ Step(w, "answered", "undone")
  /\ UNCHANGED <<cur, gen, cache, lock, sr>>

-----------------------------------------------------------------------------
At(s, pc) == sr[s].pc = pc
Goto(s, pc) == sr' = [sr EXCEPT ![s].pc = pc]

(* A command of Redis answers with what it did, or fails if it may. *)
Answers(s, fault) == {TRUE} \cup (IF May(s, fault) THEN {FALSE} ELSE {})

(* What a request has read is gone with it. *)
End(s, pc) == sr' = [sr EXCEPT ![s] = [pc |-> pc, g |-> 0, result |-> {}, known |-> {}]]

(* The request arrives and reads the generation.  Which uploads had been      *)
(* announced by then is noted for the properties, if the read worked.         *)
Begin(s) ==
  /\ At(s, "new")
  /\ \E ok \in Answers(s, "read") :
       sr' = [sr EXCEPT ![s].pc = "lookup", ![s].g = IF ok THEN gen ELSE 0,
                        ![s].known = IF ok THEN Announced ELSE {}]
  /\ UNCHANGED <<upd, cur, gen, cache, lock>>

Hit(s) == cache[sr[s].g] # {} /\ End(s, "hit")

(* A search that could not read goes on as after a miss, but will not wait.  *)
Lookup(s) ==
  /\ At(s, "lookup")
  /\ \/ Hit(s)
     \/ cache[sr[s].g] = {} /\ Goto(s, "lock")
     \/ May(s, "read") /\ Goto(s, "lock_blind")
  /\ UNCHANGED <<upd, cur, gen, cache, lock>>

(* acquire_lock.  Without the lock, who saw a miss waits for the other's      *)
(* result, and who could not read searches at once.                          *)
Lock(s) ==
  /\ sr[s].pc \in {"lock", "lock_blind"}
  /\ LET g == sr[s].g
         alone == IF At(s, "lock") THEN "wait" ELSE "milvus"
     IN \/ /\ lock[g] = Nobody
           /\ lock' = [lock EXCEPT ![g] = s]
           /\ Goto(s, "recheck")
        \/ /\ lock[g] # Nobody
           /\ Goto(s, alone)
           /\ UNCHANGED lock
        \/ /\ May(s, "lock")
           /\ lock' \in {lock} \cup
                {[lock EXCEPT ![g] = IF @ = Nobody THEN Ghost ELSE @]}
           /\ Goto(s, alone)
  /\ UNCHANGED <<upd, cur, gen, cache>>

(* Fault: the key is deleted without comparing the token. *)
Unlocked_Unchecked(s) == [lock EXCEPT ![sr[s].g] = Nobody]

(* The release script deletes the lock if it still holds the search's token. *)
Unlocked(s) == [lock EXCEPT ![sr[s].g] = IF @ = s THEN Nobody ELSE @]

Release(s) ==
  \E ok \in Answers(s, "write") : lock' = IF ok THEN Unlocked(s) ELSE lock

(* With the lock in hand the key is read again. *)
Recheck(s) ==
  /\ At(s, "recheck")
  /\ \/ Hit(s) /\ Release(s)
     \/ /\ cache[sr[s].g] = {} \/ May(s, "read")
        /\ Goto(s, "milvus")
        /\ UNCHANGED lock
  /\ UNCHANGED <<upd, cur, gen, cache>>

(* Fault: the wait ends only when the other search has stored its result. *)
Wait_Forever(s) ==
  /\ At(s, "wait")
  /\ Hit(s)
  /\ UNCHANGED <<upd, cur, gen, cache, lock>>

(* bounded_wait_for_json: the other's result, or 150 ms and nothing. *)
Wait(s) ==
  /\ At(s, "wait")
  /\ Hit(s) \/ Goto(s, "milvus")
  /\ UNCHANGED <<upd, cur, gen, cache, lock>>

-----------------------------------------------------------------------------
(* Embedding and vector search. *)
Milvus(s) ==
  /\ At(s, "milvus")
  /\ sr' = [sr EXCEPT ![s].pc = "filter", ![s].result = Indexed]
  /\ UNCHANGED <<upd, cur, gen, cache, lock>>

(* Fault: a hit is kept if its document has a version, whichever. *)
Filter_AnyVersion(s) ==
  /\ At(s, "filter")
  /\ sr' = [sr EXCEPT ![s].pc = "lexical",
       ![s].result = {w \in @ : ~Grounded \/ cur[upd[w].doc] # NoVersion}]
  /\ UNCHANGED <<upd, cur, gen, cache, lock>>

(* _filter_current_version_hits keeps the hits that are now their document's *)
(* current version, but all of them when no document found has one.          *)
Filter(s) ==
  /\ At(s, "filter")
  /\ LET hits == sr[s].result
         unpublished == ~Grounded /\ \A w \in hits : cur[upd[w].doc] = NoVersion
     IN sr' = [sr EXCEPT ![s].pc = "lexical",
          ![s].result = IF unpublished THEN hits ELSE {w \in hits : Current(w)}]
  /\ UNCHANGED <<upd, cur, gen, cache, lock>>

(* Lexical candidates, read in a session of their own and current in it, are *)
(* merged into what is left.                                                 *)
Lexical(s) ==
  /\ At(s, "lexical")
  /\ \E candidates \in SUBSET {w \in Updates : Current(w)} :
       sr' = [sr EXCEPT ![s].pc = "write", ![s].result = @ \cup candidates]
  /\ UNCHANGED <<upd, cur, gen, cache, lock>>

(* Fault: the result is stored under the generation of the moment. *)
Write_CurrentGeneration(s) ==
  /\ At(s, "write")
  /\ cache' = [cache EXCEPT ![gen] = {sr[s].result}]
  /\ Goto(s, "release")
  /\ UNCHANGED <<upd, cur, gen, lock>>

(* The result is stored under the key made at the start. *)
Write(s) ==
  /\ At(s, "write")
  /\ \/ /\ cache' = [cache EXCEPT ![sr[s].g] = {sr[s].result}]
        /\ Goto(s, "release")
     \/ May(s, "write") /\ UNCHANGED cache /\ Goto(s, "release_unstored")
  /\ UNCHANGED <<upd, cur, gen, lock>>

(* Milvus, the database or the model raises: finally still releases. *)
SearchRaises(s) ==
  /\ s \in Faulty
  /\ sr[s].pc \in {"milvus", "filter", "lexical"}
  /\ Goto(s, "abandon")
  /\ UNCHANGED <<upd, cur, gen, cache, lock>>

ReleaseLock(s) ==
  /\ \/ At(s, "release") /\ Goto(s, "audit")
     \/ At(s, "release_unstored") /\ Goto(s, "audit_unstored")
     \/ At(s, "abandon") /\ End(s, "failed")
  /\ Release(s)
  /\ UNCHANGED <<upd, cur, gen, cache>>

(* The route logs the retrieval; if that fails, what the search has stored   *)
(* is deleted again (discard_new_retrieval_cache), whoever stored it last.   *)
Audit(s) ==
  /\ sr[s].pc \in {"audit", "audit_unstored"}
  /\ End(s, "computed")
  /\ UNCHANGED <<upd, cur, gen, cache, lock>>

AuditFails(s) ==
  /\ s \in Faulty
  /\ sr[s].pc \in {"audit", "audit_unstored"}
  /\ End(s, "failed")
  /\ \/ At(s, "audit") /\ cache' = [cache EXCEPT ![sr[s].g] = {}]
     \/ (At(s, "audit_unstored") \/ May(s, "write")) /\ UNCHANGED cache
  /\ UNCHANGED <<upd, cur, gen, lock>>

(* The serving process stops; its lock stays until it expires. *)
SearchCrash(s) ==
  /\ s \in Faulty
  /\ sr[s].pc \in Running
  /\ End(s, "failed")
  /\ UNCHANGED <<upd, cur, gen, cache, lock>>

(* The lock's five seconds are over. *)
Expire(g) ==
  /\ lock[g] # Nobody
  /\ lock' = [lock EXCEPT ![g] = Nobody]
  /\ UNCHANGED <<upd, cur, gen, cache, sr>>

Restart ==
  /\ \/ "restart" \in Faults
     \/ "idle_restart" \in Faults /\ \A s \in Searches : sr[s].pc \notin Running
  /\ gen' = 0
  /\ cache' = [g \in Generations |-> {}]
  /\ lock' = [g \in Generations |-> Nobody]
  /\ UNCHANGED <<upd, cur, sr>>

Quiescent ==
  /\ \A s \in Searches : sr[s].pc \notin Running
  /\ UNCHANGED vars

-----------------------------------------------------------------------------
Update(w) ==
  \/ Index(w) \/ UploadFails(w) \/ Publish(w)
  \/ Advance(w) \/ AdvanceFails(w) \/ UpdateCrash(w) \/ AnswerFails(w)

Goes(s) ==
  \/ Lookup(s) \/ Lock(s) \/ Recheck(s) \/ Wait(s)
  \/ Milvus(s) \/ Filter(s) \/ Lexical(s) \/ SearchRaises(s)
  \/ Write(s) \/ ReleaseLock(s) \/ Audit(s) \/ AuditFails(s)

Next ==
  \/ \E w \in Updates : Update(w)
  \/ \E s \in Searches : Begin(s) \/ Goes(s) \/ SearchCrash(s)
  \/ \E g \in Generations : Expire(g)
  \/ Restart
  \/ Quiescent

Spec == Init /\ [][Next]_vars

(* A search that has begun goes on.  Expiry needs no fairness: nothing waits *)
(* for a lock.                                                               *)
FairSpec == Spec /\ \A s \in Searches : WF_vars(Goes(s))

-----------------------------------------------------------------------------
(* Properties *)

(* A result reflects upload w: it has w's content as long as that is what the *)
(* knowledge base offers, that is until a later version of its document is    *)
(* committed or its vectors are deleted; and it has no version that w's        *)
(* commit superseded.                                                         *)
Reflects(w, r) ==
  /\ Findable(w) => w \in r
  /\ Grounded => upd[w].over \cap r = {}

(* Whoever stored it and however late: an entry reflects every upload whose   *)
(* advance had brought the counter to the entry's generation or less.         *)
EntriesReflectAnnounced ==
  \A g \in Generations : \A r \in cache[g] :
    \A w \in Updates : upd[w].n \in 1 .. g => Reflects(w, r)

(* What a search that ends now returns, if it succeeds. *)
Returned(s) ==
  IF sr[s].pc = sr'[s].pc THEN {}
  ELSE IF sr'[s].pc = "hit" THEN cache[sr[s].g]
  ELSE IF sr'[s].pc = "computed" THEN {sr[s].result} ELSE {}

(* A search that could read the generation reflects every upload announced    *)
(* before it began, and, if Grounded, no search returns an upload that is not *)
(* committed, also when it returns what another search stored.                *)
SearchBounds ==
  [][\A s \in Searches : \A r \in Returned(s) :
       /\ \A w \in sr[s].known : Reflects(w, r)
       /\ Grounded => r \subseteq Committed]_vars

(* A search's lock is taken away by itself or by its expiry, never by         *)
(* another search that finishes after its own lock has expired.               *)
LockTakenByOwner ==
  [][\A g \in Generations, s \in Searches :
       lock[g] = s /\ lock'[g] # s => sr'[s] # sr[s] \/ sr' = sr]_vars

(* A search ends whatever happens to the search that holds the lock and to    *)
(* Redis.                                                                     *)
SearchesEnd ==
  \A s \in Searches : (sr[s].pc \in Running) ~> (sr[s].pc \in Finished)
=============================================================================
