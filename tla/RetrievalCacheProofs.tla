--------------------- MODULE RetrievalCacheProofs ---------------------
(***************************************************************************)
(* The safety of RetrievalCache for every finite set of uploads, every set  *)
(* of searches and every fault of Redis but a restart under running         *)
(* searches, however the uploads are distributed over documents.  An entry  *)
(* or a result is good for its generation if it reflects what was announced *)
(* up to that generation; the invariant adds what makes this stable, that   *)
(* nobody is ahead of the counter, that a superseded version is never       *)
(* current again, and what a running search has been promised by the        *)
(* moment it began.                                                         *)
(***************************************************************************)
EXTENDS RetrievalCache, FiniteSetTheorems, TLAPS

(* A restart under running searches lets a generation number be reached      *)
(* twice while somebody still works under it.                                *)
RestartsIdle == "restart" \notin Faults

Filtered == {"lexical", "write", "release", "release_unstored", "audit", "audit_unstored"}

(* The uploads that a result used under generation g has to reflect: those   *)
(* announced up to g, all those announced so far if g is the current          *)
(* generation, and those announced before any search that works under g      *)
(* began.                                                                    *)
Due(g) ==
  {w \in Updates : \/ upd[w].n \in 1 .. g
                   \/ g = gen /\ w \in Announced
                   \/ \E s \in Searches : sr[s].g = g /\ w \in sr[s].known}

(* A result r may be used under generation g; what Milvus returned may have   *)
(* superseded versions too.                                                  *)
Good(g, r) == \A w \in Due(g) : Reflects(w, r)
Raw(g, r)  == \A w \in Due(g) : Findable(w) => w \in r

Published(r) == Grounded => r \subseteq Committed

(* Only an upload that was committed has a generation; the counter has moved  *)
(* at most once for each of them.                                            *)
Numbered == \A w \in Updates : upd[w].n # 0 => upd[w].pc \in {"answered", "undone"}
Counted  == gen <= Cardinality(Announced)

(* The current version of a document is one of its own, and committed; a      *)
(* version that another has superseded is committed and no longer current.   *)
CurrentCommitted ==
  \A d \in Documents : cur[d] \in Updates => cur[d] \in Committed /\ upd[cur[d]].doc = d
SupersededForGood ==
  \A w \in Updates : \A v \in upd[w].over : v \in Committed /\ ~Current(v)

EntriesGood ==
  \A g \in Generations : \A r \in cache[g] : g <= gen /\ Good(g, r) /\ Published(r)

SearchGood(s) ==
  /\ sr[s].g <= gen
  /\ sr[s].known \subseteq Announced
  /\ sr[s].pc \notin Running => sr[s].g = 0 /\ sr[s].known = {}
  /\ sr[s].pc = "filter" => Raw(sr[s].g, sr[s].result)
  /\ sr[s].pc \in Filtered => Good(sr[s].g, sr[s].result) /\ Published(sr[s].result)

IInv ==
  /\ TypeOK
  /\ Numbered
  /\ Counted
  /\ CurrentCommitted
  /\ SupersededForGood
  /\ EntriesGood
  /\ \A s \in Searches : SearchGood(s)

-----------------------------------------------------------------------------
LEMMA GenerationsNat == Generations \subseteq Nat /\ 0 \in Generations
<1>1. Cardinality(Updates) \in Nat
  BY UpdatesAssumption, FS_CardinalityType
<1> QED BY <1>1 DEF Generations

(* The counter can still be advanced by an upload that has not done so.      *)
LEMMA RoomToAdvance ==
  ASSUME TypeOK, Counted, NEW w \in Updates, upd[w].n = 0
  PROVE  /\ gen + 1 \in Generations
         /\ Cardinality(Announced \cup {w}) = Cardinality(Announced) + 1
<1>1. Announced \subseteq Updates /\ Announced \cup {w} \subseteq Updates /\ w \notin Announced
  BY DEF Announced
<1>2. IsFiniteSet(Announced) /\ Cardinality(Announced) \in Nat
  BY <1>1, UpdatesAssumption, FS_Subset, FS_CardinalityType
<1>3. Cardinality(Announced \cup {w}) = Cardinality(Announced) + 1
  BY <1>1, <1>2, FS_AddElement
<1>4. Cardinality(Announced \cup {w}) <= Cardinality(Updates)
  BY <1>1, UpdatesAssumption, FS_Subset
<1>5. Cardinality(Updates) \in Nat
  BY UpdatesAssumption, FS_CardinalityType
<1> QED BY <1>2, <1>3, <1>4, <1>5 DEF Generations, TypeOK, Counted

-----------------------------------------------------------------------------
(* What a step of search s may do to the entries: store its own result under *)
(* its own generation, or remove some.                                       *)
StoresOwn(s) ==
  /\ cache' \in [Generations -> Cached(Updates)]
  /\ \A g \in Generations : \A r \in cache'[g] :
       \/ r \in cache[g]
       \/ g = sr[s].g /\ r = sr[s].result /\ sr[s].pc \in Filtered

LocksTyped == lock \in [Generations -> Searches \cup {Nobody, Ghost}]

(* A step of a search: only its own record, and what it stores or unlocks.   *)
(* What the others may rely on is kept if the record it moves to is in order *)
(* and what it stores is its own result, under its own generation.           *)
LEMMA SearchMoves ==
  ASSUME IInv, UNCHANGED <<upd, cur, gen>>,
         NEW s \in Searches, NEW rec \in Search,
         sr' = [sr EXCEPT ![s] = rec],
         rec.known = {} \/ rec.g = gen \/ (rec.g = sr[s].g /\ rec.known = sr[s].known),
         rec.g <= gen, rec.known \subseteq Announced,
         rec.pc \notin Running => rec.g = 0 /\ rec.known = {},
         rec.pc = "filter" => Raw(rec.g, rec.result),
         rec.pc \in Filtered => Good(rec.g, rec.result) /\ Published(rec.result),
         StoresOwn(s), LocksTyped'
  PROVE  IInv'
<1> USE DEF IInv
<1>1. Announced' = Announced /\ Indexed' = Indexed /\ Committed' = Committed
  BY DEF Announced, Indexed, Committed
<1>2. sr' \in [Searches -> Search] /\ sr'[s] = rec
      /\ \A q \in Searches \ {s} : sr'[q] = sr[q]
  BY DEF TypeOK
<1>3. TypeOK'
  BY <1>2 DEF TypeOK, StoresOwn, LocksTyped
<1>4. ASSUME NEW g
      PROVE  Due(g)' \subseteq Due(g)
  <2> SUFFICES ASSUME NEW w \in Updates, NEW q \in Searches, sr'[q].g = g, w \in sr'[q].known
               PROVE  w \in Due(g)
    BY <1>1 DEF Due
  <2>1. CASE q # s
    BY <2>1, <1>2 DEF Due
  <2>2. CASE q = s
    BY <2>2, <1>2 DEF Due
  <2> QED BY <2>1, <2>2
<1>5. ASSUME NEW w, NEW r
      PROVE  /\ Reflects(w, r)' <=> Reflects(w, r)
             /\ Findable(w)' <=> Findable(w)
             /\ Current(w)' <=> Current(w)
             /\ Published(r)' <=> Published(r)
  BY <1>1 DEF Reflects, Findable, Current, Published
<1>6. ASSUME NEW g, NEW r
      PROVE  (Good(g, r) => Good(g, r)') /\ (Raw(g, r) => Raw(g, r)')
  BY <1>4, <1>5 DEF Good, Raw
<1>7. Numbered' /\ Counted' /\ CurrentCommitted' /\ SupersededForGood'
  BY <1>1, <1>5 DEF Numbered, Counted, CurrentCommitted, SupersededForGood
<1>8. EntriesGood'
  <2> SUFFICES ASSUME NEW g \in Generations, NEW r \in cache'[g]
               PROVE  g <= gen /\ Good(g, r) /\ Published(r)
    BY <1>5, <1>6 DEF EntriesGood
  <2> USE DEF StoresOwn
  <2>1. CASE r \in cache[g]
    BY <2>1 DEF EntriesGood
  <2>2. CASE g = sr[s].g /\ r = sr[s].result /\ sr[s].pc \in Filtered
    BY <2>2 DEF SearchGood
  <2> QED BY <2>1, <2>2
<1>9. ASSUME NEW q \in Searches
      PROVE  SearchGood(q)'
  <2>1. CASE q # s
    BY <2>1, <1>1, <1>2, <1>5, <1>6 DEF SearchGood
  <2>2. CASE q = s
    BY <2>2, <1>1, <1>2, <1>5, <1>6 DEF SearchGood
  <2> QED BY <2>1, <2>2
<1> QED BY <1>3, <1>7, <1>8, <1>9

(* A search that goes on with what it has.                                   *)
LEMMA SearchContinues ==
  ASSUME IInv, UNCHANGED <<upd, cur, gen>>,
         NEW s \in Searches, NEW pc \in Running \ {"filter"}, Goto(s, pc), sr[s].pc \in Running,
         pc \in Filtered => sr[s].pc \in Filtered,
         StoresOwn(s), LocksTyped'
  PROVE  IInv'
<1> DEFINE rec == [sr[s] EXCEPT !.pc = pc]
<1>1. sr[s] \in Search
  BY DEF IInv, TypeOK
<1>2. rec \in Search /\ rec.pc = pc /\ rec.g = sr[s].g
      /\ rec.result = sr[s].result /\ rec.known = sr[s].known
  BY <1>1 DEF Search
<1>3. sr' = [sr EXCEPT ![s] = rec]
  BY DEF Goto
<1>4. SearchGood(s)
  BY DEF IInv
<1> HIDE DEF rec
<1> QED BY <1>2, <1>3, <1>4, SearchMoves DEF SearchGood

(* A search that ends.                                                       *)
LEMMA SearchStops ==
  ASSUME IInv, UNCHANGED <<upd, cur, gen>>,
         NEW s \in Searches, NEW pc \in Finished, End(s, pc),
         StoresOwn(s), LocksTyped'
  PROVE  IInv'
<1> DEFINE rec == [pc |-> pc, g |-> 0, result |-> {}, known |-> {}]
<1>1. rec \in Search /\ rec.pc = pc /\ rec.g = 0 /\ rec.known = {}
  BY GenerationsNat DEF Search
<1>2. sr' = [sr EXCEPT ![s] = rec]
  BY DEF End
<1>3. pc # "filter" /\ pc \notin Filtered /\ pc \notin Running
  BY DEF Finished, Filtered, Running
<1>4. 0 <= gen
  BY GenerationsNat DEF IInv, TypeOK
<1> HIDE DEF rec
<1> QED BY <1>1, <1>2, <1>3, <1>4, SearchMoves

LEMMA StoresNothing ==
  ASSUME IInv, NEW s \in Searches, UNCHANGED cache
  PROVE  StoresOwn(s)
  BY DEF IInv, TypeOK, StoresOwn

LEMMA ReleaseType ==
  ASSUME IInv, NEW s \in Searches, Release(s)
  PROVE  LocksTyped'
<1>1. sr[s].g \in Generations
  BY DEF IInv, TypeOK, Search
<1> QED BY <1>1 DEF IInv, TypeOK, LocksTyped, Release, Unlocked, Answers

-----------------------------------------------------------------------------
LEMMA BeginKeeps ==
  ASSUME IInv, NEW s \in Searches, Begin(s)
  PROVE  IInv'
<1>1. PICK ok \in BOOLEAN :
        sr' = [sr EXCEPT ![s].pc = "lookup", ![s].g = IF ok THEN gen ELSE 0,
                         ![s].known = IF ok THEN Announced ELSE {}]
  BY DEF Begin, Answers
<1> DEFINE rec == [sr[s] EXCEPT !.pc = "lookup", !.g = IF ok THEN gen ELSE 0,
                                !.known = IF ok THEN Announced ELSE {}]
<1>2. sr[s] \in Search /\ gen \in Generations /\ Announced \subseteq Updates
  BY DEF IInv, TypeOK, Announced
<1>3. /\ rec \in Search
      /\ rec.pc = "lookup"
      /\ rec.g = IF ok THEN gen ELSE 0
      /\ rec.known = IF ok THEN Announced ELSE {}
  BY <1>2, GenerationsNat DEF Search, Running
<1>4. sr' = [sr EXCEPT ![s] = rec]
  BY <1>1
<1>5. "lookup" \in Running /\ "lookup" # "filter" /\ "lookup" \notin Filtered
  BY DEF Running, Filtered
<1>6. 0 <= gen /\ gen <= gen
  BY <1>2, GenerationsNat
<1>7. LocksTyped' /\ StoresOwn(s)
  BY StoresNothing DEF Begin, IInv, TypeOK, LocksTyped
<1>8. UNCHANGED <<upd, cur, gen>>
  BY DEF Begin
<1> HIDE DEF rec
<1> QED BY <1>3, <1>4, <1>5, <1>6, <1>7, <1>8, SearchMoves

LEMMA MilvusKeeps ==
  ASSUME IInv, NEW s \in Searches, Milvus(s)
  PROVE  IInv'
<1> DEFINE rec == [sr[s] EXCEPT !.pc = "filter", !.result = Indexed]
<1>1. sr[s] \in Search /\ Indexed \subseteq Updates
  BY DEF IInv, TypeOK, Indexed
<1>2. rec \in Search /\ rec.pc = "filter" /\ rec.g = sr[s].g
      /\ rec.known = sr[s].known /\ rec.result = Indexed
  BY <1>1 DEF Search, Running
<1>3. sr' = [sr EXCEPT ![s] = rec]
  BY DEF Milvus
<1>4. Raw(sr[s].g, Indexed)
  BY DEF Raw, Findable
<1>5. "filter" \in Running /\ "filter" \notin Filtered
  BY DEF Running, Filtered
<1>6. LocksTyped' /\ StoresOwn(s) /\ UNCHANGED <<upd, cur, gen>>
  BY StoresNothing DEF Milvus, IInv, TypeOK, LocksTyped
<1>7. SearchGood(s)
  BY DEF IInv
<1> HIDE DEF rec
<1> QED BY <1>2, <1>3, <1>4, <1>5, <1>6, <1>7, SearchMoves DEF SearchGood

LEMMA FilterKeeps ==
  ASSUME IInv, NEW s \in Searches, Filter(s)
  PROVE  IInv'
<1> DEFINE hits == sr[s].result
           unpublished == ~Grounded /\ \A w \in hits : cur[upd[w].doc] = NoVersion
           kept == IF unpublished THEN hits ELSE {w \in hits : Current(w)}
           rec == [sr[s] EXCEPT !.pc = "lexical", !.result = kept]
<1>1. sr' = [sr EXCEPT ![s] = rec]
  BY DEF Filter
<1>2. sr[s] \in Search /\ kept \in SUBSET Updates
  BY DEF IInv, TypeOK, Search
<1>3. rec \in Search /\ rec.pc = "lexical" /\ rec.g = sr[s].g
      /\ rec.known = sr[s].known /\ rec.result = kept
  BY <1>2 DEF Search, Running
<1>4. SearchGood(s) /\ Raw(sr[s].g, hits)
  BY DEF IInv, SearchGood, Filter, At
<1>5. Good(sr[s].g, kept)
  <2> SUFFICES ASSUME NEW w \in Due(sr[s].g)
               PROVE  Reflects(w, kept)
    BY DEF Good
  <2>1. Findable(w) => w \in kept
    BY <1>4 DEF Raw, Findable
  <2>2. w \in Updates
    BY DEF Due
  <2>3. Grounded => upd[w].over \cap kept = {}
    BY <2>2 DEF IInv, SupersededForGood
  <2> QED BY <2>1, <2>3 DEF Reflects
<1>6. Published(kept)
  <2> SUFFICES ASSUME Grounded, NEW w \in Updates, Current(w)
               PROVE  w \in Committed
    BY <1>2 DEF Published
  <2>1. upd[w].doc \in Documents
    BY DEF IInv, TypeOK, Upload
  <2> QED BY <2>1 DEF IInv, CurrentCommitted, Current
<1>7. "lexical" \in Running /\ "lexical" # "filter"
  BY DEF Running
<1>8. LocksTyped' /\ StoresOwn(s) /\ UNCHANGED <<upd, cur, gen>>
  BY StoresNothing DEF Filter, IInv, TypeOK, LocksTyped
<1> HIDE DEF rec, kept
<1> QED BY <1>1, <1>3, <1>4, <1>5, <1>6, <1>7, <1>8, SearchMoves DEF SearchGood

LEMMA LexicalKeeps ==
  ASSUME IInv, NEW s \in Searches, Lexical(s)
  PROVE  IInv'
<1>1. PICK candidates \in SUBSET {w \in Updates : Current(w)} :
        sr' = [sr EXCEPT ![s].pc = "write", ![s].result = @ \cup candidates]
  BY DEF Lexical
<1> DEFINE merged == sr[s].result \cup candidates
           rec == [sr[s] EXCEPT !.pc = "write", !.result = merged]
<1>2. sr[s] \in Search
  BY DEF IInv, TypeOK
<1>3. merged \in SUBSET Updates
  BY <1>2 DEF Search
<1>4. rec \in Search /\ rec.pc = "write" /\ rec.g = sr[s].g
      /\ rec.known = sr[s].known /\ rec.result = merged
  BY <1>2, <1>3 DEF Search, Running
<1>5. sr' = [sr EXCEPT ![s] = rec]
  BY <1>1
<1>6. "lexical" \in Filtered /\ "write" \in Running /\ "write" # "filter"
  BY DEF Running, Filtered
<1>7. SearchGood(s) /\ Good(sr[s].g, sr[s].result) /\ Published(sr[s].result)
  BY <1>6 DEF IInv, SearchGood, Lexical, At
<1>8. Good(sr[s].g, merged)
  <2> SUFFICES ASSUME NEW w \in Due(sr[s].g)
               PROVE  Reflects(w, merged)
    BY DEF Good
  <2>1. Reflects(w, sr[s].result) /\ w \in Updates
    BY <1>7 DEF Good, Due
  <2>2. upd[w].over \cap candidates = {}
    BY <2>1 DEF IInv, SupersededForGood
  <2> QED BY <2>1, <2>2 DEF Reflects
<1>9. Published(merged)
  <2> SUFFICES ASSUME Grounded, NEW w \in Updates, Current(w)
               PROVE  w \in Committed
    BY <1>7 DEF Published
  <2>1. upd[w].doc \in Documents
    BY DEF IInv, TypeOK, Upload
  <2> QED BY <2>1 DEF IInv, CurrentCommitted, Current
<1>10. LocksTyped' /\ StoresOwn(s) /\ UNCHANGED <<upd, cur, gen>>
  BY StoresNothing DEF Lexical, IInv, TypeOK, LocksTyped
<1> HIDE DEF rec, merged
<1> QED BY <1>4, <1>5, <1>6, <1>7, <1>8, <1>9, <1>10, SearchMoves DEF SearchGood

(* The steps that end with a hit, or go on.                                  *)
LEMMA HitStops ==
  ASSUME IInv, UNCHANGED <<upd, cur, gen, cache>>, NEW s \in Searches, Hit(s), LocksTyped'
  PROVE  IInv'
<1>1. "hit" \in Finished
  BY DEF Finished
<1> QED BY <1>1, StoresNothing, SearchStops DEF Hit

LEMMA LookupKeeps ==
  ASSUME IInv, NEW s \in Searches,
         Lookup(s) \/ Lock(s) \/ Recheck(s) \/ Wait(s)
  PROVE  IInv'
<1>1. /\ {"lookup", "lock", "lock_blind", "recheck", "wait", "milvus"} \subseteq Running
      /\ {"lookup", "lock", "lock_blind", "recheck", "wait", "milvus"} \cap ({"filter"} \cup Filtered) = {}
  BY DEF Running, Filtered
<1>2. UNCHANGED <<upd, cur, gen, cache>> /\ StoresOwn(s)
  BY StoresNothing DEF Lookup, Lock, Recheck, Wait
<1>3. sr[s].g \in Generations /\ LocksTyped
  BY DEF IInv, TypeOK, Search, LocksTyped
<1>4. LocksTyped'
  <2>1. CASE UNCHANGED lock
    BY <2>1, <1>3 DEF LocksTyped
  <2>2. CASE Release(s)
    BY <2>2, ReleaseType
  <2>3. CASE lock' = [lock EXCEPT ![sr[s].g] = s]
    BY <2>3, <1>3 DEF LocksTyped
  <2>4. CASE lock' = [lock EXCEPT ![sr[s].g] = IF @ = Nobody THEN Ghost ELSE @]
    BY <2>4, <1>3 DEF LocksTyped
  <2> QED BY <2>1, <2>2, <2>3, <2>4 DEF Lookup, Lock, Recheck, Wait
<1>5. ASSUME NEW pc \in {"lock", "lock_blind", "recheck", "wait", "milvus"}, Goto(s, pc),
             sr[s].pc \in {"lookup", "lock", "lock_blind", "recheck", "wait"}
      PROVE  IInv'
  BY <1>1, <1>2, <1>4, <1>5, SearchContinues
<1>6. CASE Lookup(s)
  BY <1>2, <1>4, <1>5, <1>6, HitStops DEF Lookup, At
<1>7. CASE Lock(s)
  BY <1>5, <1>7 DEF Lock
<1>8. CASE Recheck(s)
  BY <1>2, <1>4, <1>5, <1>8, HitStops DEF Recheck, At
<1>9. CASE Wait(s)
  BY <1>2, <1>4, <1>5, <1>9, HitStops DEF Wait, At
<1> QED BY <1>6, <1>7, <1>8, <1>9

LEMMA WriteKeeps ==
  ASSUME IInv, NEW s \in Searches, Write(s)
  PROVE  IInv'
<1>1. /\ {"write", "release", "release_unstored"} \subseteq Running
      /\ {"write", "release", "release_unstored"} \subseteq Filtered
  BY DEF Running, Filtered
<1>2. sr[s].g \in Generations /\ sr[s].result \subseteq Updates
  BY DEF IInv, TypeOK, Search
<1>3. StoresOwn(s)
  <2>1. CASE UNCHANGED cache
    BY <2>1, StoresNothing
  <2>2. CASE cache' = [cache EXCEPT ![sr[s].g] = {sr[s].result}]
    <3>1. {sr[s].result} \in Cached(Updates)
      BY <1>2 DEF Cached
    <3> QED BY <2>2, <3>1, <1>1, <1>2 DEF IInv, TypeOK, StoresOwn, Write, At
  <2> QED BY <2>1, <2>2 DEF Write
<1>4. LocksTyped' /\ UNCHANGED <<upd, cur, gen>>
  BY DEF IInv, TypeOK, LocksTyped, Write
<1> QED BY <1>1, <1>3, <1>4, SearchContinues DEF Write, At

LEMMA RaiseKeeps ==
  ASSUME IInv, NEW s \in Searches, SearchRaises(s)
  PROVE  IInv'
<1>1. {"milvus", "filter", "lexical", "abandon"} \subseteq Running
      /\ "abandon" \notin Filtered
  BY DEF Running, Filtered
<1>2. StoresOwn(s) /\ LocksTyped' /\ UNCHANGED <<upd, cur, gen>>
  BY StoresNothing DEF SearchRaises, IInv, TypeOK, LocksTyped
<1> QED BY <1>1, <1>2, SearchContinues DEF SearchRaises

LEMMA ReleaseKeeps ==
  ASSUME IInv, NEW s \in Searches, ReleaseLock(s)
  PROVE  IInv'
<1>1. /\ {"release", "release_unstored", "audit", "audit_unstored"} \subseteq Running
      /\ {"release", "release_unstored", "audit", "audit_unstored"} \subseteq Filtered
  BY DEF Running, Filtered
<1>2. StoresOwn(s) /\ LocksTyped' /\ UNCHANGED <<upd, cur, gen>>
  BY StoresNothing, ReleaseType DEF ReleaseLock
<1>3. "failed" \in Finished
  BY DEF Finished
<1> QED BY <1>1, <1>2, <1>3, SearchContinues, SearchStops DEF ReleaseLock, At

LEMMA EndKeeps ==
  ASSUME IInv, NEW s \in Searches, Audit(s) \/ AuditFails(s) \/ SearchCrash(s)
  PROVE  IInv'
<1>1. {"computed", "failed"} \subseteq Finished
  BY DEF Finished
<1>2. LocksTyped' /\ UNCHANGED <<upd, cur, gen>>
  BY DEF Audit, AuditFails, SearchCrash, IInv, TypeOK, LocksTyped
<1>3. StoresOwn(s)
  <2>1. CASE UNCHANGED cache
    BY <2>1, StoresNothing
  <2>2. CASE cache' = [cache EXCEPT ![sr[s].g] = {}]
    <3>1. {} \in Cached(Updates)
      BY DEF Cached
    <3> QED BY <2>2, <3>1 DEF IInv, TypeOK, StoresOwn
  <2> QED BY <2>1, <2>2 DEF Audit, AuditFails, SearchCrash
<1> QED BY <1>1, <1>2, <1>3, SearchStops DEF Audit, AuditFails, SearchCrash

-----------------------------------------------------------------------------
(* Uploads leave the searches and the entries alone.  One that does not move  *)
(* the counter keeps the invariant if no announced upload becomes current     *)
(* or gets its vectors again, and if the order of versions is kept.           *)
CommittedStates == {"committed", "answered", "silent", "undone"}

LEMMA UploadMoves ==
  ASSUME IInv, NEW w \in Updates, UNCHANGED <<gen, cache, lock, sr>>,
         NEW rec \in Upload, upd' = [upd EXCEPT ![w] = rec],
         rec.n = upd[w].n, rec.doc = upd[w].doc,
         upd[w].n # 0 => rec.pc = "undone" /\ rec.over = upd[w].over,
         w \in Committed => rec.pc \in CommittedStates,
         cur' \in [Documents -> Updates \cup {Earlier, NoVersion}],
         \A v \in Announced : Current(v)' => Current(v),
         CurrentCommitted', SupersededForGood'
  PROVE  IInv'
<1> USE DEF IInv
<1>1. upd'[w] = rec /\ \A v \in Updates \ {w} : upd'[v] = upd[v]
  BY DEF TypeOK
<1>2. Announced' = Announced
  BY <1>1 DEF Announced
<1>3. Committed \subseteq Committed'
  BY <1>1 DEF Committed, CommittedStates
<1>4. TypeOK'
  BY DEF TypeOK
<1>5. Numbered' /\ Counted'
  BY <1>1, <1>2 DEF Numbered, Counted
<1>6. ASSUME NEW g
      PROVE  Due(g)' \subseteq Due(g)
  BY <1>1, <1>2 DEF Due
<1>7. ASSUME NEW g \in Generations, NEW v \in Due(g)
      PROVE  v \in Announced
  <2>1. v \in Updates /\ (upd[v].n \in 1 .. g => upd[v].n # 0)
    BY DEF Due
  <2> QED BY <2>1 DEF Due, Announced, SearchGood
<1>8. ASSUME NEW v \in Announced
      PROVE  (Findable(v)' => Findable(v)) /\ upd'[v].over = upd[v].over
  <2>1. CASE v = w
    BY <2>1, <1>1, <1>8 DEF Findable, Indexed, Announced
  <2>2. CASE v # w
    BY <2>2, <1>1, <1>8 DEF Findable, Indexed, Announced
  <2> QED BY <2>1, <2>2
<1>9. ASSUME NEW g \in Generations, NEW r
      PROVE  /\ Good(g, r) => Good(g, r)'
             /\ Raw(g, r) => Raw(g, r)'
             /\ Published(r) => Published(r)'
  <2>1. \A v \in Due(g) : Reflects(v, r) => Reflects(v, r)'
    BY <1>7, <1>8 DEF Reflects
  <2>2. \A v \in Due(g) : Findable(v)' => Findable(v)
    BY <1>7, <1>8
  <2> QED BY <2>1, <2>2, <1>3, <1>6 DEF Good, Raw, Published
<1>10. EntriesGood'
  BY <1>9 DEF EntriesGood, Generations
<1>11. ASSUME NEW s \in Searches
       PROVE  SearchGood(s)'
  <2>1. sr[s].g \in Generations
    BY DEF TypeOK, Search
  <2> QED BY <2>1, <1>2, <1>9 DEF SearchGood
<1> QED BY <1>4, <1>5, <1>10, <1>11

(* A step that only says how far an upload is.                               *)
LEMMA UploadSteps ==
  ASSUME IInv, NEW w \in Updates, UNCHANGED <<cur, gen, cache, lock, sr>>,
         NEW from, NEW to \in {"new", "indexed", "left"} \cup CommittedStates,
         Step(w, from, to),
         upd[w].n # 0 => to = "undone",
         from \in CommittedStates => to \in CommittedStates
  PROVE  IInv'
<1> USE DEF IInv
<1> DEFINE rec == [upd[w] EXCEPT !.pc = to]
<1>1. upd[w] \in Upload /\ cur \in [Documents -> Updates \cup {Earlier, NoVersion}]
  BY DEF TypeOK
<1>2. /\ rec \in Upload
      /\ rec.pc = to /\ rec.n = upd[w].n /\ rec.doc = upd[w].doc /\ rec.over = upd[w].over
  BY <1>1 DEF Upload, CommittedStates
<1>3. upd' = [upd EXCEPT ![w] = rec] /\ upd[w].pc = from
  BY DEF Step
<1>4. w \in Committed => to \in CommittedStates
  BY <1>3 DEF Committed, CommittedStates
<1> HIDE DEF rec
<1>5. upd'[w] = rec /\ \A v \in Updates \ {w} : upd'[v] = upd[v]
  BY <1>3 DEF TypeOK
<1>6. /\ \A v \in Updates : upd'[v].doc = upd[v].doc /\ upd'[v].over = upd[v].over
      /\ Committed \subseteq Committed'
  BY <1>2, <1>4, <1>5 DEF Committed, CommittedStates
<1>7. \A v \in Updates : Current(v)' <=> Current(v)
  BY <1>6 DEF Current
<1>8. CurrentCommitted'
  BY <1>6 DEF CurrentCommitted
<1>9. SupersededForGood'
  <2>1. \A v \in Updates : upd[v].over \subseteq Updates
    BY DEF TypeOK, Upload
  <2> QED BY <2>1, <1>6, <1>7 DEF SupersededForGood
<1>10. Announced \subseteq Updates
  BY DEF Announced
<1> QED BY <1>1, <1>2, <1>3, <1>4, <1>7, <1>8, <1>9, <1>10, UploadMoves

(* The commit: what was current or committed of the document is superseded.   *)
LEMMA PublishKeeps ==
  ASSUME IInv, NEW w \in Updates, Publish(w)
  PROVE  IInv'
<1> USE DEF IInv
<1> DEFINE d == upd[w].doc
           rec == [upd[w] EXCEPT !.pc = "committed", !.over = Versions(d) \cap Committed]
<1>1. upd[w] \in Upload /\ d \in Documents
      /\ cur \in [Documents -> Updates \cup {Earlier, NoVersion}]
  BY DEF TypeOK, Upload
<1>2. /\ upd' = [upd EXCEPT ![w] = rec]
      /\ cur' = [cur EXCEPT ![d] = w]
      /\ UNCHANGED <<gen, cache, lock, sr>>
  BY DEF Publish
<1>3. /\ rec \in Upload /\ rec.pc = "committed" /\ rec.n = upd[w].n /\ rec.doc = d
      /\ rec.over = Versions(d) \cap Committed
  BY <1>1 DEF Upload, Versions
<1>4. upd[w].pc = "indexed" /\ upd[w].n = 0 /\ w \notin Committed
  BY DEF Publish, Numbered, Committed
<1> HIDE DEF rec
<1>5. upd'[w] = rec /\ \A v \in Updates \ {w} : upd'[v] = upd[v]
  BY <1>2 DEF TypeOK
<1>6. Committed' = Committed \cup {w} /\ \A v \in Updates : upd'[v].doc = upd[v].doc
  BY <1>3, <1>5 DEF Committed
<1>7. \A v \in Updates : v # w /\ Current(v)' => Current(v)
  BY <1>1, <1>2, <1>6 DEF Current, TypeOK, Upload
<1>8. CurrentCommitted'
  BY <1>1, <1>2, <1>6 DEF CurrentCommitted
<1>9. SupersededForGood'
  <2> SUFFICES ASSUME NEW u \in Updates, NEW v \in upd'[u].over
               PROVE  v \in Committed' /\ ~Current(v)'
    BY DEF SupersededForGood
  <2>1. CASE u # w
    <3>1. v \in Committed /\ ~Current(v)
      BY <2>1, <1>5 DEF SupersededForGood
    <3>2. v \in Updates /\ v # w
      BY <3>1, <1>4 DEF Committed
    <3> QED BY <3>1, <3>2, <1>6, <1>7
  <2>2. CASE u = w
    <3>1. v \in Updates /\ v \in Committed /\ upd[v].doc = d /\ v # w
      BY <2>2, <1>3, <1>4, <1>5 DEF Versions
    <3>2. cur'[d] = w
      BY <1>1, <1>2
    <3> QED BY <3>1, <3>2, <1>6 DEF Current
  <2> QED BY <2>1, <2>2
<1>10. \A v \in Announced : Current(v)' => Current(v)
  BY <1>4, <1>7 DEF Announced
<1>11. cur' \in [Documents -> Updates \cup {Earlier, NoVersion}]
  BY <1>1, <1>2
<1> HIDE DEF d
<1> QED BY <1>2, <1>3, <1>4, <1>8, <1>9, <1>10, <1>11, UploadMoves DEF d

LEMMA AdvanceKeeps ==
  ASSUME IInv, NEW w \in Updates, Advance(w)
  PROVE  IInv'
<1> USE DEF IInv
<1>1. upd[w].n = 0 /\ upd[w].pc = "committed" /\ upd[w] \in Upload
  BY DEF Advance, Numbered, TypeOK
<1>2. gen \in Nat /\ gen + 1 \in Generations /\ gen' = gen + 1
      /\ UNCHANGED <<cur, cache, lock, sr>>
  BY <1>1, RoomToAdvance, GenerationsNat DEF Advance, TypeOK
<1> DEFINE rec == [upd[w] EXCEPT !.pc = "answered", !.n = gen + 1]
<1>3. /\ upd' = [upd EXCEPT ![w] = rec]
      /\ rec \in Upload /\ rec.pc = "answered" /\ rec.n = gen + 1
      /\ rec.doc = upd[w].doc /\ rec.over = upd[w].over
  BY <1>1, <1>2 DEF Advance, Upload
<1> HIDE DEF rec
<1>4. upd'[w] = rec /\ \A v \in Updates \ {w} : upd'[v] = upd[v]
  BY <1>3 DEF TypeOK
<1>5. Announced' = Announced \cup {w} /\ w \notin Announced
  BY <1>1, <1>2, <1>3, <1>4 DEF Announced
<1>6. /\ \A v \in Updates : upd'[v].doc = upd[v].doc /\ upd'[v].over = upd[v].over
      /\ Committed' = Committed /\ Indexed' = Indexed
  BY <1>1, <1>3, <1>4 DEF Committed, Indexed
<1>7. ASSUME NEW v \in Updates, NEW r
      PROVE  /\ Current(v)' <=> Current(v)
             /\ Findable(v)' <=> Findable(v)
             /\ Reflects(v, r)' <=> Reflects(v, r)
             /\ Published(r)' <=> Published(r)
  BY <1>2, <1>6 DEF Current, Findable, Reflects, Published
<1>8. TypeOK'
  BY <1>2, <1>3 DEF TypeOK
<1>9. Numbered'
  BY <1>3, <1>4 DEF Numbered
<1>10. Counted'
  <2>1. Cardinality(Announced) \in Nat
    <3>1. Announced \in SUBSET Updates
      BY DEF Announced
    <3> QED BY <3>1, UpdatesAssumption, FS_Subset, FS_CardinalityType
  <2>2. Cardinality(Announced') = Cardinality(Announced) + 1
    BY <1>1, <1>5, RoomToAdvance
  <2> QED BY <1>2, <2>1, <2>2 DEF Counted
<1>11. CurrentCommitted'
  BY <1>2, <1>6 DEF CurrentCommitted
<1>12. SupersededForGood'
  <2>1. \A v \in Updates : upd[v].over \subseteq Updates
    BY DEF TypeOK, Upload
  <2> QED BY <2>1, <1>6, <1>7 DEF SupersededForGood
<1>13. ASSUME NEW g \in Generations, g <= gen
       PROVE  Due(g)' \subseteq Due(g)
  <2>1. g \in Nat /\ g # gen + 1
    BY <1>2, <1>13, GenerationsNat
  <2>2. ASSUME NEW v \in Updates, upd'[v].n \in 1 .. g
        PROVE  v \in Due(g)
    BY <2>1, <2>2, <1>2, <1>3, <1>4, <1>13 DEF Due
  <2> QED BY <2>1, <2>2, <1>2 DEF Due
<1>14. ASSUME NEW g \in Generations, g <= gen, NEW r
       PROVE  (Good(g, r) => Good(g, r)') /\ (Raw(g, r) => Raw(g, r)')
  <2>1. Due(g) \subseteq Updates
    BY DEF Due
  <2> QED BY <2>1, <1>7, <1>13, <1>14 DEF Good, Raw
<1>15. \A g \in Generations : g <= gen => g <= gen'
  BY <1>2, GenerationsNat
<1>16. EntriesGood'
  BY <1>1, <1>2, <1>7, <1>14, <1>15 DEF EntriesGood, Generations
<1>17. ASSUME NEW s \in Searches
       PROVE  SearchGood(s)'
  <2>1. sr[s].g \in Generations
    BY DEF TypeOK, Search
  <2> QED BY <2>1, <1>2, <1>5, <1>7, <1>14, <1>15 DEF SearchGood
<1> QED BY <1>8, <1>9, <1>10, <1>11, <1>12, <1>16, <1>17

LEMMA UpdateKeeps ==
  ASSUME IInv, NEW w \in Updates, Update(w)
  PROVE  IInv'
<1>1. upd[w].n # 0 => upd[w].pc \in {"answered", "undone"}
  BY DEF IInv, Numbered
<1> USE DEF CommittedStates
<1>2. CASE Index(w)
  BY <1>1, <1>2, UploadSteps DEF Index, Step
<1>3. CASE UploadFails(w)
  <2>1. CASE Step(w, "indexed", "new")
    BY <1>1, <1>3, <2>1, UploadSteps DEF UploadFails, Step
  <2>2. CASE Step(w, "indexed", "left")
    BY <1>1, <1>3, <2>2, UploadSteps DEF UploadFails, Step
  <2> QED BY <1>3, <2>1, <2>2 DEF UploadFails
<1>4. CASE Publish(w)
  BY <1>4, PublishKeeps
<1>5. CASE Advance(w)
  BY <1>5, AdvanceKeeps
<1>6. CASE AdvanceFails(w)
  BY <1>1, <1>6, UploadSteps DEF AdvanceFails, Step
<1>7. CASE UpdateCrash(w)
  BY <1>1, <1>7, UploadSteps DEF UpdateCrash, Step
<1>8. CASE AnswerFails(w)
  BY <1>1, <1>8, UploadSteps DEF AnswerFails, Step
<1> QED BY <1>2, <1>3, <1>4, <1>5, <1>6, <1>7, <1>8 DEF Update

-----------------------------------------------------------------------------
LEMMA SameData ==
  ASSUME IInv, UNCHANGED <<upd, cur, gen, cache, sr>>, LocksTyped'
  PROVE  IInv'
<1>1. Announced' = Announced /\ Committed' = Committed /\ Indexed' = Indexed
  BY DEF Announced, Committed, Indexed
<1>2. ASSUME NEW w, NEW r
      PROVE  /\ Current(w)' <=> Current(w)
             /\ Findable(w)' <=> Findable(w)
             /\ Reflects(w, r)' <=> Reflects(w, r)
             /\ Published(r)' <=> Published(r)
  BY <1>1 DEF Current, Findable, Reflects, Published
<1>3. ASSUME NEW g, NEW r
      PROVE  (Good(g, r)' <=> Good(g, r)) /\ (Raw(g, r)' <=> Raw(g, r))
  <2>1. Due(g)' = Due(g)
    BY <1>1 DEF Due
  <2> QED BY <1>2, <2>1 DEF Good, Raw
<1>4. TypeOK'
  BY DEF IInv, TypeOK, LocksTyped
<1>5. Numbered' /\ Counted' /\ CurrentCommitted' /\ SupersededForGood'
  BY <1>1, <1>2 DEF IInv, Numbered, Counted, CurrentCommitted, SupersededForGood
<1>6. EntriesGood'
  BY <1>2, <1>3 DEF IInv, EntriesGood
<1>7. \A s \in Searches : SearchGood(s)'
  BY <1>1, <1>2, <1>3 DEF IInv, SearchGood
<1> QED BY <1>4, <1>5, <1>6, <1>7 DEF IInv

LEMMA RestartKeeps ==
  ASSUME RestartsIdle, IInv, Restart
  PROVE  IInv'
<1> USE DEF IInv
<1>1. \A s \in Searches : sr[s].pc \notin Running
  BY DEF Restart, RestartsIdle
<1>2. gen' = 0 /\ UNCHANGED <<upd, cur, sr>> /\ cache' = [g \in Generations |-> {}]
  BY DEF Restart
<1>3. TypeOK'
  BY GenerationsNat DEF Restart, TypeOK, Cached
<1>4. Numbered'
  BY <1>2 DEF Numbered
<1>5. Counted'
  <2>1. Announced' = Announced /\ Announced \in SUBSET Updates
    BY <1>2 DEF Announced
  <2>2. Cardinality(Announced) \in Nat
    BY <2>1, UpdatesAssumption, FS_Subset, FS_CardinalityType
  <2> QED BY <1>2, <2>1, <2>2 DEF Counted
<1>6. EntriesGood'
  BY <1>2 DEF EntriesGood, Generations
<1>7. Filtered \subseteq Running /\ "filter" \in Running
  BY DEF Filtered, Running
<1>8. ASSUME NEW s \in Searches
      PROVE  SearchGood(s)'
  BY <1>1, <1>2, <1>7 DEF SearchGood, Announced
<1>9. CurrentCommitted' /\ SupersededForGood'
  BY <1>2 DEF CurrentCommitted, SupersededForGood, Committed, Current
<1> QED BY <1>3, <1>4, <1>5, <1>6, <1>8, <1>9

LEMMA Initially ==
  ASSUME Init
  PROVE  IInv
<1>1. PICK doc \in Targets :
        upd = [w \in Updates |-> [pc |-> "new", n |-> 0, doc |-> doc[w], over |-> {}]]
  BY DEF Init
<1>2. TypeOK
  <2>1. \A w \in Updates : doc[w] \in Documents
    BY TargetsAssumption
  <2>2. upd \in [Updates -> Upload]
    BY <1>1, <2>1, GenerationsNat DEF Upload
  <2> QED BY <2>2, GenerationsNat DEF Init, TypeOK, Cached, Search
<1>3. Numbered /\ SupersededForGood
  BY <1>1 DEF Numbered, SupersededForGood
<1>4. Counted
  <2>1. Announced \in SUBSET Updates
    BY DEF Announced
  <2>2. Cardinality(Announced) \in Nat
    BY <2>1, UpdatesAssumption, FS_Subset, FS_CardinalityType
  <2> QED BY <2>2 DEF Init, Counted
<1>5. EntriesGood
  BY DEF Init, EntriesGood
<1>6. CurrentCommitted
  BY VersionsAssumption DEF Init, CurrentCommitted
<1>7. \A s \in Searches : SearchGood(s)
  BY DEF Init, SearchGood, Filtered
<1> QED BY <1>2, <1>3, <1>4, <1>5, <1>6, <1>7 DEF IInv

(* Every step keeps the invariant.                                           *)
LEMMA Inductive ==
  ASSUME RestartsIdle, IInv, [Next]_vars
  PROVE  IInv'
<1>1. ASSUME NEW w \in Updates, Update(w)
      PROVE  IInv'
  BY <1>1, UpdateKeeps
<1>2. ASSUME NEW s \in Searches, Begin(s)
      PROVE  IInv'
  BY <1>2, BeginKeeps
<1>3. ASSUME NEW s \in Searches, Goes(s)
      PROVE  IInv'
  BY <1>3, LookupKeeps, MilvusKeeps, FilterKeeps, LexicalKeeps, RaiseKeeps, WriteKeeps,
     ReleaseKeeps, EndKeeps DEF Goes
<1>4. ASSUME NEW s \in Searches, SearchCrash(s)
      PROVE  IInv'
  BY <1>4, EndKeeps
<1>5. ASSUME NEW g \in Generations, Expire(g)
      PROVE  IInv'
  BY <1>5, SameData DEF Expire, IInv, TypeOK, LocksTyped
<1>6. CASE Restart
  BY <1>6, RestartKeeps
<1>7. CASE UNCHANGED vars
  BY <1>7, SameData DEF vars, IInv, TypeOK, LocksTyped
<1> QED BY <1>1, <1>2, <1>3, <1>4, <1>5, <1>6, <1>7 DEF Next, Quiescent

(* The invariant is one, if Redis does not restart under running searches.    *)
THEOREM Invariance ==
  ASSUME RestartsIdle
  PROVE  Spec => []IInv
<1>1. Init => IInv
  BY Initially
<1>2. IInv /\ [Next]_vars => IInv'
  BY Inductive
<1> QED BY <1>1, <1>2, PTL DEF Spec

(* Every variable keeps its type; in particular the generation never passes  *)
(* the number of uploads.                                                    *)
THEOREM TypeCorrect ==
  ASSUME RestartsIdle
  PROVE  Spec => []TypeOK
<1>1. IInv => TypeOK
  BY DEF IInv
<1> QED BY <1>1, Invariance, PTL

(* However late it is stored, an entry reflects every upload announced up to  *)
(* its generation: it has the version unless a later one of the document is   *)
(* committed or its vectors are gone, and none that it superseded             *)
(* (search_chunks, advance_knowledge_generation).                            *)
THEOREM EntriesReflect ==
  ASSUME RestartsIdle
  PROVE  Spec => []EntriesReflectAnnounced
<1>1. IInv => EntriesReflectAnnounced
  BY DEF IInv, EntriesGood, Good, Due, EntriesReflectAnnounced
<1> QED BY <1>1, Invariance, PTL

-----------------------------------------------------------------------------
(* A result is returned as computed only by the step that ends its search.    *)
LEMMA ComputedByAudit ==
  ASSUME TypeOK, [Next]_vars, NEW s \in Searches,
         sr'[s].pc = "computed", sr[s].pc # "computed"
  PROVE  sr[s].pc \in {"audit", "audit_unstored"}
<1>1. sr' # sr
  OBVIOUS
<1>2. PICK q \in Searches : Begin(q) \/ Goes(q) \/ SearchCrash(q)
  BY <1>1 DEF Next, vars, Update, Index, UploadFails, Publish, Advance, AdvanceFails, UpdateCrash, AnswerFails,
     Expire, Restart, Quiescent
<1>3. CASE Audit(q)
  BY <1>3 DEF Audit, End, TypeOK
<1>4. CASE Begin(q)
  BY <1>4 DEF Begin, TypeOK, Search
<1>5. CASE Lookup(q) \/ Lock(q) \/ Recheck(q) \/ Wait(q)
  BY <1>5 DEF Lookup, Lock, Recheck, Wait, Hit, End, Goto, At, TypeOK, Search
<1>6. CASE Milvus(q) \/ Filter(q) \/ Lexical(q)
  BY <1>6 DEF Milvus, Filter, Lexical, TypeOK, Search
<1>7. CASE SearchRaises(q) \/ Write(q) \/ ReleaseLock(q)
  BY <1>7 DEF SearchRaises, Write, ReleaseLock, End, Goto, At, TypeOK, Search
<1>8. CASE AuditFails(q) \/ SearchCrash(q)
  <2>1. sr' = [sr EXCEPT ![q] = [pc |-> "failed", g |-> 0, result |-> {}, known |-> {}]]
    BY <1>8 DEF AuditFails, SearchCrash, End
  <2> QED BY <2>1 DEF TypeOK
<1> QED BY <1>2, <1>3, <1>4, <1>5, <1>6, <1>7, <1>8 DEF Goes

(* A search reflects every upload announced before it began, and returns       *)
(* nothing that is not committed, also from an entry that another stored.      *)
THEOREM SearchesBounded ==
  ASSUME RestartsIdle
  PROVE  Spec => SearchBounds
<1>1. ASSUME IInv, [Next]_vars, NEW s \in Searches, NEW r \in Returned(s)
      PROVE  /\ \A w \in sr[s].known : Reflects(w, r)
             /\ Grounded => r \subseteq Committed
  <2>1. sr[s].g \in Generations /\ SearchGood(s) /\ TypeOK
    BY <1>1 DEF IInv, TypeOK, Search
  <2>2. sr[s].known \subseteq Due(sr[s].g)
    <3>1. sr[s].known \subseteq Updates
      BY <2>1 DEF TypeOK, Search
    <3> QED BY <3>1 DEF Due
  <2>3. CASE r \in cache[sr[s].g]
    BY <2>2, <2>1, <2>3, <1>1 DEF IInv, EntriesGood, Good, Published
  <2>4. CASE sr[s].pc # "computed" /\ sr'[s].pc = "computed" /\ r = sr[s].result
    <3>1. sr[s].pc \in {"audit", "audit_unstored"}
      BY <2>1, <2>4, <1>1, ComputedByAudit
    <3> QED BY <2>2, <2>1, <2>4, <3>1 DEF SearchGood, Good, Published, Filtered
  <2> QED BY <1>1, <2>3, <2>4 DEF Returned
<1>2. IInv /\ [Next]_vars =>
        [\A s \in Searches : \A r \in Returned(s) :
           /\ \A w \in sr[s].known : Reflects(w, r)
           /\ Grounded => r \subseteq Committed]_vars
  BY <1>1
<1> QED BY <1>2, Invariance, PTL DEF Spec, SearchBounds

(* A search's lock is never taken away by another search (release_lock).     *)
THEOREM LocksTakenByOwner ==
  ASSUME RestartsIdle
  PROVE  Spec => LockTakenByOwner
<1>1. ASSUME IInv, [Next]_vars, NEW g \in Generations, NEW s \in Searches,
             lock[g] = s, lock'[g] # s, sr' # sr
      PROVE  sr'[s] # sr[s]
  <2>1. lock' # lock
    BY <1>1
  <2>2. PICK q \in Searches : Lock(q) \/ Recheck(q) \/ ReleaseLock(q)
    BY <1>1, <2>1 DEF Next, vars, Goes, Update, Index, UploadFails, Publish, Advance, AdvanceFails,
       UpdateCrash, AnswerFails, Begin, Lookup, Wait, Milvus, Filter, Lexical, SearchRaises, Write, Audit,
       AuditFails, SearchCrash, Expire, Restart, Quiescent
  <2>3. TypeOK /\ s # Nobody /\ s # Ghost /\ sr[q].g \in Generations
    BY <1>1, HoldersAssumption DEF IInv, TypeOK, Search
  <2>4. CASE Lock(q)
    BY <1>1, <2>3, <2>4 DEF Lock, TypeOK
  <2>5. CASE Release(q) /\ sr'[q].pc # sr[q].pc
    <3>1. q = s
      BY <1>1, <2>3, <2>5 DEF Release, Unlocked, TypeOK
    <3> QED BY <2>5, <3>1
  <2>6. CASE Recheck(q)
    BY <1>1, <2>1, <2>3, <2>5, <2>6 DEF Recheck, Hit, At, End, TypeOK
  <2>7. CASE ReleaseLock(q)
    BY <2>3, <2>5, <2>7 DEF ReleaseLock, At, Goto, End, TypeOK, Search
  <2> QED BY <2>2, <2>4, <2>6, <2>7
<1>2. IInv /\ [Next]_vars =>
        [\A g \in Generations, s \in Searches :
           lock[g] = s /\ lock'[g] # s => sr'[s] # sr[s] \/ sr' = sr]_vars
  BY <1>1
<1> QED BY <1>2, Invariance, PTL DEF Spec, LockTakenByOwner
=============================================================================
