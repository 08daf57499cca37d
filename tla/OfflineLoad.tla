----------------------------- MODULE OfflineLoad -----------------------------
(***************************************************************************)
(* The scripts that load the knowledge base outside the application, among *)
(* the uploads of administrators, and what a search finds meanwhile.       *)
(*                                                                         *)
(* DOCX files -> articles.json (ingest.py) -> chunks.json (chunk.py), from *)
(* there to PostgreSQL (load_chunks_to_postgres.py) and by way of          *)
(* embeddings.jsonl (embeddings.py) to Milvus (load_embeddings_to_milvus). *)
(* No script knows what another has done; an operator runs one at a time.  *)
(* A chunk's id is <<document, 0, index>> when a script gave it and        *)
(* <<document, version, index>> when an upload did.                        *)
(***************************************************************************)
EXTENDS Ranking

CONSTANTS
  Docs,           \* files, each with a kb_code of its own
  Content,        \* Content[d][r]: the passages of revision r of file d
  Questions,
  EmbedBatch,     \* EMBEDDING_BATCH_SIZE of embeddings.py
  LoadBatch,      \* BATCH_SIZE of load_embeddings_to_milvus.py
  Uploaded,       \* bound: the files an administrator uploads
  MaxVersion      \* bound: versions of one document

Texts == UNION {UNION {ToSet(Content[d][r]) : r \in DOMAIN Content[d]} : d \in Docs}

ASSUME OfflineAssumption ==
  /\ IsFiniteSet(Docs) /\ Docs # {} /\ Uploaded \subseteq Docs
  /\ \A d \in Docs : Content[d] # <<>> /\ Content[d] \in Seq(Seq(Texts))
  /\ \A q \in Questions : q \in Seq(ToSet(q)) /\ \A t \in Texts : Similarity(q, t) \in Int
  /\ {EmbedBatch, LoadBatch, MaxVersion} \subseteq Nat \ {0}

VARIABLES
  source,         \* the revision of each DOCX file
  chunksFile,     \* chunks.json; 0: the file is not in it
  embedded,       \* embeddings.jsonl
  rows,           \* chunks in PostgreSQL, with the version they are of
  current,        \* current_version_id; 0: the document is not committed
  latest,         \* the highest version number a document has a row of
  stored,         \* Milvus, by id
  collection,     \* is it missing, there but not loaded, or loaded
  loading,        \* records of embeddings.jsonl the loader has inserted; -1: it does not run
  upload          \* the upload that has written its vectors and not committed
offlineVars == <<source, chunksFile, embedded, rows, current, latest, stored, collection, loading,
                 upload>>

Revisions(d) == DOMAIN Content[d]
Passages(file, d) == IF file[d] = 0 THEN <<>> ELSE Content[d][file[d]]
NoUpload == [doc |-> CHOOSE d \in Docs : TRUE, ver |-> 0, rev |-> 0]

\* The records of a file, document after document.
RecordsOf(file, d) ==
  [i \in DOMAIN Passages(file, d) |->
     [id |-> <<d, 0, i>>, doc |-> d, text |-> Passages(file, d)[i]]]
Records(file) ==
  FlattenSeq([n \in 1 .. Cardinality(Docs) |-> RecordsOf(file, SetToSeq(Docs)[n])])

\* Later vectors replace those with the same id.
With(vectors, new) ==
  [i \in DOMAIN new \union DOMAIN vectors |-> IF i \in DOMAIN new THEN new[i] ELSE vectors[i]]
Unlabelled(records) ==
  [i \in {records[n].id : n \in DOMAIN records} |->
     LET n == CHOOSE n \in DOMAIN records : records[n].id = i
     IN  [text |-> records[n].text, doc |-> records[n].doc, ver |-> 0]]
Labelled(d, v, r) ==
  [i \in {<<d, v, n>> : n \in DOMAIN Content[d][r]} |->
     [text |-> Content[d][r][i[3]], doc |-> d, ver |-> v]]

OfflineInit ==
  /\ source = [d \in Docs |-> 1]
  /\ chunksFile = [d \in Docs |-> 0]
  /\ embedded = <<>>
  /\ rows = {} /\ current = [d \in Docs |-> 0] /\ latest = current
  /\ stored = <<>> /\ collection = "missing"
  /\ loading = -1
  /\ upload = NoUpload

-----------------------------------------------------------------------------
EditDocx(d) ==
  /\ source[d] + 1 \in Revisions(d)
  /\ source' = [source EXCEPT ![d] = @ + 1]
  /\ UNCHANGED <<chunksFile, embedded, rows, current, latest, stored, collection, loading, upload>>

\* ingest.py goes on without the files it cannot read.
IngestAndChunk ==
  /\ loading = -1
  /\ \E unread \in SUBSET Docs :
       chunksFile' = [d \in Docs |-> IF d \in unread THEN 0 ELSE source[d]]
  /\ UNCHANGED <<source, embedded, rows, current, latest, stored, collection, loading, upload>>

\* embeddings.py empties its file and writes batch after batch; a batch that fails
\* for good leaves those before it.
Embed ==
  /\ loading = -1
  /\ \E n \in 0 .. Len(Records(chunksFile)) :
       /\ n % EmbedBatch = 0 \/ n = Len(Records(chunksFile))
       /\ embedded' = SubSeq(Records(chunksFile), 1, n)
  /\ UNCHANGED <<source, chunksFile, rows, current, latest, stored, collection, loading, upload>>

\* get_or_create_document, get_or_create_version: the version is the first one
\* whether or not the document has later ones.
Version(d) == IF current[d] = 0 THEN 1 ELSE current[d]

(* Fault: a chunk that is there is recognised by its id. *)
Exists_ById(d, i) == \E r \in rows : r.id = <<d, 0, i>>

\* chunk_exists
Exists(d, i) == \E r \in rows : r.doc = d /\ r.ver = 1 /\ r.index = i

\* One transaction.  A chunk whose version and index are there is left as it is.
\* (Not while the upload of a new article is under way: it would find no document
\* with that name and create a second one.)
LoadRows ==
  /\ loading = -1 /\ upload.ver # 1
  /\ LET read == {d \in Docs : Passages(chunksFile, d) # <<>>}
         item(d, i) == [id |-> <<d, 0, i>>, doc |-> d, ver |-> 1, index |-> i,
                        text |-> Passages(chunksFile, d)[i]]
     IN  /\ rows' = rows \union
              {item(p[1], p[2]) : p \in {q \in UNION {{d} \X DOMAIN Passages(chunksFile, d) :
                                                        d \in read} : ~Exists(q[1], q[2])}}
         /\ current' = [d \in Docs |-> IF d \in read THEN Version(d) ELSE current[d]]
         /\ latest' = [d \in Docs |-> IF d \in read THEN Max({1, latest[d]}) ELSE latest[d]]
  /\ UNCHANGED <<source, chunksFile, embedded, stored, collection, loading, upload>>

\* load_embeddings_to_milvus.py drops the collection, uploads included, creates
\* it again, inserts batch after batch, and loads it when all are in.  An upload may
\* have created it, and loaded it, before.
DropCollection ==
  /\ loading = -1
  /\ stored' = <<>> /\ collection' = "missing"
  /\ loading' = 0
  /\ UNCHANGED <<source, chunksFile, embedded, rows, current, latest, upload>>

CreateCollection ==
  /\ loading = 0 /\ collection = "missing"
  /\ collection' = "unloaded"
  /\ UNCHANGED <<source, chunksFile, embedded, rows, current, latest, stored, loading, upload>>

InsertBatch ==
  /\ loading >= 0 /\ loading < Len(embedded) /\ collection # "missing"
  /\ LET end == Min({loading + LoadBatch, Len(embedded)})
     IN  /\ stored' = With(stored, Unlabelled(SubSeq(embedded, loading + 1, end)))
         /\ loading' = end
  /\ UNCHANGED <<source, chunksFile, embedded, rows, current, latest, collection, upload>>

LoadCollection ==
  /\ loading = Len(embedded) /\ collection # "missing"
  /\ loading' = -1 /\ collection' = "loaded"
  /\ UNCHANGED <<source, chunksFile, embedded, rows, current, latest, stored, upload>>

\* The collection stays as it is: missing, or created and not loaded.
LoaderDies ==
  /\ loading >= 0
  /\ loading' = -1
  /\ UNCHANGED <<source, chunksFile, embedded, rows, current, latest, stored, collection, upload>>

\* The first search of a process, and every health check, load the collection,
\* also one that the loader is filling; a process that has it loads it no more.
ApplicationLoads ==
  /\ collection = "unloaded"
  /\ collection' = "loaded"
  /\ UNCHANGED <<source, chunksFile, embedded, rows, current, latest, stored, loading, upload>>

\* fix_sbl_f04_chunks.py rewrites the texts of some chunks of chunks.json in place.
Patch(d) ==
  /\ loading = -1
  /\ \E r \in Revisions(d) \ {chunksFile[d]} :
       /\ chunksFile[d] # 0 /\ Len(Content[d][r]) = Len(Content[d][chunksFile[d]])
       /\ chunksFile' = [chunksFile EXCEPT ![d] = r]
  /\ UNCHANGED <<source, embedded, rows, current, latest, stored, collection, loading, upload>>

\* upsert_milvus_fix.py, with the vectors of the chunks of one article.
Upsert(d) ==
  /\ loading = -1 /\ collection # "missing"
  /\ stored' = With(stored, Unlabelled(RecordsOf(chunksFile, d)))
  /\ UNCHANGED <<source, chunksFile, embedded, rows, current, latest, collection, loading, upload>>

\* An upload of the file as it is (Ingestion has every step of it): its vectors,
\* which carry document and version, come before the commit, in a collection that
\* the upload creates and loads where necessary (get_or_create_collection).  A code
\* that has chunks is refused as a new article.
UploadVectors(d) ==
  /\ upload = NoUpload
  /\ LET v == latest[d] + 1
     IN  /\ v <= MaxVersion
         /\ latest' = IF current[d] = 0 THEN latest ELSE [latest EXCEPT ![d] = v]
         /\ upload' = [doc |-> d, ver |-> v, rev |-> source[d]]
         /\ stored' = With(stored, Labelled(d, v, source[d]))
         /\ collection' = "loaded"
  /\ UNCHANGED <<source, chunksFile, embedded, rows, current, loading>>

UploadCommits ==
  /\ upload # NoUpload
  /\ LET d == upload.doc
     IN  /\ rows' = rows \union
              {[id |-> <<d, upload.ver, i>>, doc |-> d, ver |-> upload.ver, index |-> i,
                text |-> Content[d][upload.rev][i]] : i \in DOMAIN Content[d][upload.rev]}
         /\ current' = [current EXCEPT ![d] = upload.ver]
         /\ latest' = [latest EXCEPT ![d] = Max({latest[d], upload.ver})]
  /\ upload' = NoUpload
  /\ UNCHANGED <<source, chunksFile, embedded, stored, collection, loading>>

\* The vectors are deleted, or stay behind when that fails too.
UploadFails ==
  /\ upload # NoUpload
  /\ \/ UNCHANGED <<stored, collection>>
     \/ /\ collection' = "loaded"
        /\ stored' = [i \in DOMAIN stored \ {<<upload.doc, upload.ver, n>> :
                                              n \in DOMAIN Content[upload.doc][upload.rev]}
                        |-> stored[i]]
  /\ upload' = NoUpload
  /\ UNCHANGED <<source, chunksFile, embedded, rows, current, latest, loading>>

OfflineNext ==
  \/ \E d \in Docs : EditDocx(d) \/ Patch(d) \/ Upsert(d)
  \/ \E d \in Uploaded : UploadVectors(d)
  \/ IngestAndChunk \/ Embed \/ LoadRows
  \/ DropCollection \/ CreateCollection \/ InsertBatch \/ LoadCollection \/ LoaderDies
  \/ ApplicationLoads
  \/ UploadCommits \/ UploadFails

OfflineSpec == OfflineInit /\ [][OfflineNext]_offlineVars

-----------------------------------------------------------------------------
(* Properties.                                                             *)

\* Version and index tell the chunks of a document apart, and so does the id among
\* those of the current versions (models.py:195-214).
OfflineTypeOK ==
  /\ chunksFile \in [Docs -> Nat]
  /\ current \in [Docs -> 0 .. MaxVersion]
  /\ loading \in -1 .. Len(embedded)
  /\ collection \in {"missing", "unloaded", "loaded"}
  /\ \A r, s \in rows :
       r.doc = s.doc /\ r.ver = s.ver /\ (r.index = s.index \/ r.id = s.id) => r = s

Answers(q) == Results(q, rows, collection = "loaded", stored, current)

\* What a search answers is complete: a row of a current version that shares a word
\* with the question is in it, or the vector that has its id, unless TopK passages
\* are found that rank as high, or RowLimit other rows share as much with the
\* question.  A collection that a loader has half filled, or left so, may be loaded
\* by a search, a health check or an upload: then it answers, and hides no committed
\* text.  While it is missing or not loaded no search is answered
\* (retrieval_service.py:112-120, 789-879).
CurrentContentFound ==
  \A q \in Questions : \A found \in Answers(q) :
    /\ \A a, b \in found : a.id = b.id => a = b
    /\ \A r \in Matching(q, rows, current) :
         \/ \E h \in found : h.id = r.id
         \/ /\ Cardinality(found) = TopK
            /\ LET stands == Stands(r, stored)
                   points(t) == 100 * Similarity(q, stands) + LexicalScore(q, t)
               IN  \A h \in found : Hybrid(q, h) >= Min({points(r.text), points(stands)})
         \/ RowLimit <= Cardinality({s \in Matching(q, rows, current) \ {r} :
                                       LexicalScore(q, s.text) >= LexicalScore(q, r.text)})

\* A passage of a version that is not current is returned only if its vector has
\* no label (a script wrote it), or if its document has no version yet.
SupersededOnlyUnlabelled ==
  \A q \in Questions : \A found \in Answers(q) : \A h \in found :
    h.ver \in {0, current[h.doc]} \/ current[h.doc] = 0

=============================================================================
