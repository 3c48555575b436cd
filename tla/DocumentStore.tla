----------------------------- MODULE DocumentStore -----------------------------
(***************************************************************************)
(* apps/backend/src/document: upload (with vectorization of knowledge-base *)
(* documents), deletion and listing, as the commands that concurrent       *)
(* handlers send to the bucket, to the database and to the list cache.     *)
(*                                                                         *)
(* A document is its upload: the key, the id and the row are fresh each    *)
(* time.  One owner; the cached lists of its pages and filters are one     *)
(* list, the ids of the rows.  The cache is a set of no or one list.       *)
(***************************************************************************)
EXTENDS Integers, FiniteSets

CONSTANTS
    Docs,           \* documents that may be uploaded
    KbDocs,         \* those uploaded with isKb
    Chunks,         \* chunks of a text
    BatchSize,      \* batchSize of vectorizeDocument (10)
    Readers,        \* requests of list_by_user
    MaxFailures     \* bound on commands that throw and on crashes

ASSUME DocumentAssumption ==
    /\ KbDocs \subseteq Docs
    /\ Chunks \in Nat \ {0} /\ BatchSize \in Nat \ {0}
    /\ MaxFailures \in Nat

VARIABLES
    object,         \* documents whose PDF is in the bucket
    artifacts,      \* what vectorization has put beside it
    rows,           \* table documents
    embedded,       \* table document_embeddings: chunks of each document
    cached,         \* the list in Redis
    upload, batch, chunk,   \* the upload of each document
    deletion,       \* the deletion of each document
    reader, list,   \* the list requests
    late,           \* history: the cached list was outdated when it was set
    failures        \* history, bounded

storeVars == <<object, artifacts>>
tableVars == <<rows, embedded>>
cacheVars == <<cached, late>>
handlerVars == <<upload, batch, chunk, deletion>>
readerVars == <<reader, list>>
vars == <<storeVars, tableVars, cacheVars, handlerVars, readerVars, failures>>

ChunkNumbers == 1..Chunks
Batches == (Chunks + BatchSize - 1) \div BatchSize

\* sources/<id>.pdf and texts/<id>.txt; <<"chunk", i>> is chunks/<id>/<i>.txt.
Copies == {<<"source">>, <<"text">>}

Undoing == {"undoObject", "undoRow"}
Uploading == {"put", "save", "extract", "source", "text", "embed", "chunks",
              "keys", "del"} \cup Undoing
Deleting == {"object", "artifacts", "row", "keys", "del"}

DocTypeOK ==
    /\ object \subseteq Docs
    /\ artifacts \in [Docs -> SUBSET (Copies \cup ({"chunk"} \X ChunkNumbers))]
    /\ rows \subseteq Docs
    /\ embedded \in [Docs -> SUBSET ChunkNumbers]
    /\ cached \subseteq SUBSET Docs /\ Cardinality(cached) <= 1
    /\ late \in BOOLEAN
    /\ upload \in [Docs -> Uploading \cup {"new", "done", "failed", "lost"}]
    /\ batch \in [Docs -> 0..Batches]
    /\ chunk \in [Docs -> [ChunkNumbers -> {"todo", "skipped", "put", "save", "done", "failed"}]]
    /\ deletion \in [Docs -> Deleting \cup {"new", "done", "failed", "lost"}]
    /\ reader \in [Readers -> {"idle", "query", "set"}]
    /\ list \in [Readers -> SUBSET Docs]
    /\ failures \in 0..MaxFailures

NoChunks == [i \in ChunkNumbers |-> "todo"]

Init ==
    /\ object = {} /\ artifacts = [d \in Docs |-> {}]
    /\ rows = {} /\ embedded = [d \in Docs |-> {}]
    /\ cached = {} /\ late = FALSE
    /\ upload = [d \in Docs |-> "new"] /\ batch = [d \in Docs |-> 0]
    /\ chunk = [d \in Docs |-> NoChunks]
    /\ deletion = [d \in Docs |-> "new"]
    /\ reader = [r \in Readers |-> "idle"] /\ list = [r \in Readers |-> {}]
    /\ failures = 0

--------------------------------------------------------------------------------
(* DocumentService.uploadBuffer and VectorizationService.vectorizeDocument. *)

UploadGoes(d, from, to) == upload[d] = from /\ upload' = [upload EXCEPT ![d] = to]

\* The request is valid.
Upload(d) ==
    /\ UploadGoes(d, "new", "put")
    /\ UNCHANGED <<storeVars, tableVars, cacheVars, batch, chunk, deletion,
                   readerVars, failures>>

\* Mutant: the upload to the bucket is not waited for.
PutObjectNot(d) ==
    /\ UploadGoes(d, "put", "save")
    /\ UNCHANGED <<storeVars, tableVars, cacheVars, batch, chunk, deletion,
                   readerVars, failures>>

PutObject(d) ==
    /\ UploadGoes(d, "put", "save")
    /\ object' = object \cup {d}
    /\ UNCHANGED <<artifacts, tableVars, cacheVars, batch, chunk, deletion,
                   readerVars, failures>>

SaveRow(d) ==
    /\ UploadGoes(d, "save", IF d \in KbDocs THEN "extract" ELSE "keys")
    /\ rows' = rows \cup {d}
    /\ UNCHANGED <<storeVars, embedded, cacheVars, batch, chunk, deletion,
                   readerVars, failures>>

\* The embeddings of the new row are deleted (there are none) and its text
\* is extracted; without text nothing is vectorized.
ExtractText(d) ==
    /\ \E to \in {"source", "keys"} : UploadGoes(d, "extract", to)
    /\ UNCHANGED <<storeVars, tableVars, cacheVars, batch, chunk, deletion,
                   readerVars, failures>>

PutArtifact(d, a, next) ==
    /\ UploadGoes(d, a, next)
    /\ artifacts' = [artifacts EXCEPT ![d] = @ \cup {<<a>>}]
    /\ UNCHANGED <<object, tableVars, cacheVars, batch, chunk, deletion,
                   readerVars, failures>>

BatchOf(n) == {i \in ChunkNumbers : (i - 1) \div BatchSize = n - 1}

\* The writes of batch n are started, but for a chunk the model has sent no
\* embedding for: that one is passed over, and nothing throws.
StartWrites(d, n) ==
    \E missing \in SUBSET BatchOf(n) :
        chunk' = [chunk EXCEPT ![d] = [i \in ChunkNumbers |->
            IF i \notin BatchOf(n) THEN chunk[d][i]
            ELSE IF i \in missing THEN "skipped" ELSE "put"]]

\* Mutant: one batch more than there are.
EmbedBatchTooMany(d) ==
    /\ batch[d] <= Batches
    /\ UploadGoes(d, "embed", "chunks")
    /\ batch' = [batch EXCEPT ![d] = @ + 1] /\ StartWrites(d, batch[d] + 1)
    /\ UNCHANGED <<storeVars, tableVars, cacheVars, deletion, readerVars, failures>>

\* The next batch of chunks is sent to the model, and what it answers is written.
EmbedBatch(d) ==
    /\ batch[d] < Batches
    /\ UploadGoes(d, "embed", "chunks")
    /\ batch' = [batch EXCEPT ![d] = @ + 1] /\ StartWrites(d, batch[d] + 1)
    /\ UNCHANGED <<storeVars, tableVars, cacheVars, deletion, readerVars, failures>>

\* After the last batch the document is complete.
EmbedEnds(d) ==
    /\ batch[d] = Batches
    /\ UploadGoes(d, "embed", "keys")
    /\ UNCHANGED <<storeVars, tableVars, cacheVars, batch, chunk, deletion,
                   readerVars, failures>>

PutChunk(d, i) ==
    /\ chunk[d][i] = "put"
    /\ chunk' = [chunk EXCEPT ![d][i] = "save"]
    /\ artifacts' = [artifacts EXCEPT ![d] = @ \cup {<<"chunk", i>>}]
    /\ UNCHANGED <<object, tableVars, cacheVars, upload, batch, deletion,
                   readerVars, failures>>

SaveChunk(d, i) ==
    /\ chunk[d][i] = "save" /\ d \in rows
    /\ chunk' = [chunk EXCEPT ![d][i] = "done"]
    /\ embedded' = [embedded EXCEPT ![d] = @ \cup {i}]
    /\ UNCHANGED <<storeVars, rows, cacheVars, upload, batch, deletion,
                   readerVars, failures>>

\* The first write of a batch that throws rejects Promise.all; the other
\* writes go on beside the cleanup.
ChunkThrows(d, i) ==
    /\ chunk' = [chunk EXCEPT ![d][i] = "failed"]
    /\ upload' = [upload EXCEPT ![d] = IF @ = "chunks" THEN "undoObject" ELSE @]
    /\ UNCHANGED <<tableVars, cacheVars, batch, deletion, readerVars>>

\* The row has been deleted: the foreign key refuses the embedding.
SaveChunkRefused(d, i) ==
    /\ chunk[d][i] = "save" /\ d \notin rows
    /\ ChunkThrows(d, i)
    /\ UNCHANGED <<storeVars, failures>>

\* Mutant: the writes of a batch are not waited for.
BatchDoneEarly(d) ==
    /\ UploadGoes(d, "chunks", "embed")
    /\ UNCHANGED <<storeVars, tableVars, cacheVars, batch, chunk, deletion,
                   readerVars, failures>>

BatchDone(d) ==
    /\ \A i \in BatchOf(batch[d]) : chunk[d][i] \in {"done", "skipped"}
    /\ UploadGoes(d, "chunks", "embed")
    /\ UNCHANGED <<storeVars, tableVars, cacheVars, batch, chunk, deletion,
                   readerVars, failures>>

\* The vectorization has thrown: the document is taken back.
UndoObject(d) ==
    /\ UploadGoes(d, "undoObject", "undoRow")
    /\ object' = object \ {d}
    /\ UNCHANGED <<artifacts, tableVars, cacheVars, batch, chunk, deletion,
                   readerVars, failures>>

\* The row goes with its embeddings (ON DELETE CASCADE).
RemoveRow(d) ==
    /\ rows' = rows \ {d}
    /\ embedded' = [embedded EXCEPT ![d] = {}]

\* Mutant: the row of the failed upload is left.
UndoRowNot(d) ==
    /\ UploadGoes(d, "undoRow", "failed")
    /\ UNCHANGED <<storeVars, tableVars, cacheVars, batch, chunk, deletion,
                   readerVars, failures>>

UndoRow(d) ==
    /\ UploadGoes(d, "undoRow", "failed")
    /\ RemoveRow(d)
    /\ UNCHANGED <<storeVars, cacheVars, batch, chunk, deletion, readerVars, failures>>

--------------------------------------------------------------------------------
(* DocumentService.deleteDocument. *)

DeletionGoes(d, from, to) ==
    deletion[d] = from /\ deletion' = [deletion EXCEPT ![d] = to]

Delete(d) ==
    /\ d \in rows
    /\ DeletionGoes(d, "new", "object")
    /\ UNCHANGED <<storeVars, tableVars, cacheVars, upload, batch, chunk,
                   readerVars, failures>>

DeleteObject(d) ==
    /\ DeletionGoes(d, "object", IF d \in KbDocs THEN "artifacts" ELSE "row")
    /\ object' = object \ {d}
    /\ UNCHANGED <<artifacts, tableVars, cacheVars, upload, batch, chunk,
                   readerVars, failures>>

\* The chunks are not among the artifacts that are cleaned up.
DeleteArtifacts(d) ==
    /\ DeletionGoes(d, "artifacts", "row")
    /\ artifacts' = [artifacts EXCEPT ![d] = @ \ Copies]
    /\ UNCHANGED <<object, tableVars, cacheVars, upload, batch, chunk,
                   readerVars, failures>>

DeleteRow(d) ==
    /\ DeletionGoes(d, "row", "keys")
    /\ RemoveRow(d)
    /\ UNCHANGED <<storeVars, cacheVars, upload, batch, chunk, readerVars, failures>>

--------------------------------------------------------------------------------
(* DocumentController.invalidateUserCache: KEYS, then DEL of what it found. *)

AfterKeys == IF cached = {} THEN "done" ELSE "del"

FindKeys(d) ==
    /\ \/ UploadGoes(d, "keys", AfterKeys) /\ UNCHANGED deletion
       \/ DeletionGoes(d, "keys", AfterKeys) /\ UNCHANGED upload
    /\ UNCHANGED <<storeVars, tableVars, cacheVars, batch, chunk, readerVars, failures>>

\* Mutant: the keys that were found are kept.
DeleteKeysNot(d) ==
    /\ \/ UploadGoes(d, "del", "done") /\ UNCHANGED deletion
       \/ DeletionGoes(d, "del", "done") /\ UNCHANGED upload
    /\ UNCHANGED <<storeVars, tableVars, cacheVars, batch, chunk, readerVars, failures>>

DeleteKeys(d) ==
    /\ \/ UploadGoes(d, "del", "done") /\ UNCHANGED deletion
       \/ DeletionGoes(d, "del", "done") /\ UNCHANGED upload
    /\ cached' = {} /\ late' = FALSE
    /\ UNCHANGED <<storeVars, tableVars, batch, chunk, readerVars, failures>>

--------------------------------------------------------------------------------
(* DocumentController.listByUser. *)

ReaderGoes(r, from, to) == reader[r] = from /\ reader' = [reader EXCEPT ![r] = to]

\* A hit ends the request.
ReadCache(r) ==
    /\ cached = {}
    /\ ReaderGoes(r, "idle", "query")
    /\ UNCHANGED <<storeVars, tableVars, cacheVars, handlerVars, list, failures>>

QueryRows(r) ==
    /\ ReaderGoes(r, "query", "set")
    /\ list' = [list EXCEPT ![r] = rows]
    /\ UNCHANGED <<storeVars, tableVars, cacheVars, handlerVars, failures>>

SetCache(r) ==
    /\ ReaderGoes(r, "set", "idle")
    /\ cached' = {list[r]} /\ late' = (list[r] # rows)
    /\ list' = [list EXCEPT ![r] = {}]
    /\ UNCHANGED <<storeVars, tableVars, handlerVars, failures>>

\* 60 seconds.
ExpireCache ==
    /\ cached # {} /\ cached' = {} /\ late' = FALSE
    /\ UNCHANGED <<storeVars, tableVars, handlerVars, readerVars, failures>>

--------------------------------------------------------------------------------
(* Failures.  A put or a delete of the bucket that throws may have been     *)
(* done; a statement of the database that throws has not.                   *)

Fault == failures < MaxFailures /\ failures' = failures + 1

MaybeObject(d) ==
    object' \in {object,
                 CASE upload[d] = "put" -> object \cup {d}
                   [] upload[d] = "undoObject" -> object \ {d}
                   [] OTHER -> object}
MaybeArtifact(d) ==
    artifacts' \in {artifacts, IF upload[d] \in {"source", "text"}
                               THEN [artifacts EXCEPT ![d] = @ \cup {<<upload[d]>>}]
                               ELSE artifacts}

UploadThrows(d) ==
    /\ upload[d] \in Uploading \ {"chunks"}
    /\ upload[d] = "embed" => batch[d] < Batches
    /\ upload' = [upload EXCEPT ![d] =
          CASE @ \in {"put", "save"} \cup Undoing -> "failed"
            [] @ \in {"extract", "source", "text", "embed"} -> "undoObject"
            [] @ \in {"keys", "del"} -> "done"]
    /\ MaybeObject(d) /\ MaybeArtifact(d)
    /\ Fault
    /\ UNCHANGED <<tableVars, cacheVars, batch, chunk, deletion, readerVars>>

ChunkFails(d, i) ==
    /\ chunk[d][i] \in {"put", "save"}
    /\ ChunkThrows(d, i)
    /\ \/ UNCHANGED artifacts
       \/ /\ chunk[d][i] = "put"
          /\ artifacts' = [artifacts EXCEPT ![d] = @ \cup {<<"chunk", i>>}]
    /\ Fault
    /\ UNCHANGED object

\* Failures of the artifacts and of the cache are swallowed.
DeletionThrows(d) ==
    /\ deletion[d] \in Deleting
    /\ deletion' = [deletion EXCEPT ![d] =
          CASE @ \in {"object", "row"} -> "failed"
            [] @ = "artifacts" -> "row"
            [] @ \in {"keys", "del"} -> "done"]
    /\ object' \in {object, IF deletion[d] = "object" THEN object \ {d} ELSE object}
    /\ \E kept \in SUBSET Copies :
          artifacts' = [artifacts EXCEPT ![d] =
              IF deletion[d] = "artifacts" THEN @ \ (Copies \ kept) ELSE @]
    /\ Fault
    /\ UNCHANGED <<tableVars, cacheVars, upload, batch, chunk, readerVars>>

\* The replica dies in the middle of all its handlers.
Crash ==
    /\ \E d \in Docs : upload[d] \in Uploading \/ deletion[d] \in Deleting
    /\ upload' = [d \in Docs |-> IF upload[d] \in Uploading THEN "lost" ELSE upload[d]]
    /\ deletion' = [d \in Docs |-> IF deletion[d] \in Deleting THEN "lost" ELSE deletion[d]]
    /\ chunk' = [d \in Docs |-> [i \in ChunkNumbers |->
                    IF chunk[d][i] \in {"put", "save"} THEN "failed" ELSE chunk[d][i]]]
    /\ reader' = [r \in Readers |-> "idle"] /\ list' = [r \in Readers |-> {}]
    /\ Fault
    /\ UNCHANGED <<storeVars, tableVars, cacheVars, batch>>

--------------------------------------------------------------------------------

UploadStep(d) ==
    \/ Upload(d) \/ PutObject(d) \/ SaveRow(d) \/ ExtractText(d)
    \/ PutArtifact(d, "source", "text") \/ PutArtifact(d, "text", "embed")
    \/ EmbedBatch(d) \/ EmbedEnds(d) \/ BatchDone(d) \/ UndoObject(d) \/ UndoRow(d)

ChunkStep(d, i) == PutChunk(d, i) \/ SaveChunk(d, i) \/ SaveChunkRefused(d, i)

DeletionStep(d) == Delete(d) \/ DeleteObject(d) \/ DeleteArtifacts(d) \/ DeleteRow(d)

Next ==
    \/ \E d \in Docs : \/ UploadStep(d) \/ DeletionStep(d) \/ UploadThrows(d)
                       \/ DeletionThrows(d) \/ FindKeys(d) \/ DeleteKeys(d)
                       \/ \E i \in ChunkNumbers : ChunkStep(d, i) \/ ChunkFails(d, i)
    \/ \E r \in Readers : ReadCache(r) \/ QueryRows(r) \/ SetCache(r)
    \/ ExpireCache \/ Crash

Spec == Init /\ [][Next]_vars

--------------------------------------------------------------------------------
(* Properties. *)

\* document.service.ts:239, "We await vectorization": an upload that is
\* answered with its document has stored it, and of its text, in all batches,
\* every chunk that the model has sent an embedding for, unless a deletion has
\* begun.  (A chunk without one is passed over without an error: such an upload
\* is answered like any other, and its text is found in part.)
UploadedComplete ==
    \A d \in Docs :
        upload[d] = "done" /\ deletion[d] = "new" =>
            /\ d \in rows \cap object
            /\ <<"text">> \in artifacts[d] =>
                  {i \in ChunkNumbers : chunk[d][i] # "skipped"} \subseteq embedded[d]

\* A listed document can be downloaded: its object is there, but for one
\* document per failed command, and for those whose removal is on its way or
\* was interrupted by a crash.
RowsDownloadable ==
    Cardinality({d \in rows \ object :
        /\ upload[d] \notin Undoing \cup {"lost"}
        /\ deletion[d] \notin Deleting \cup {"lost"}}) <= failures

\* document.service.ts:248 "we clean up the document metadata and file": the
\* row of a failed upload stays only if the cleanup failed as well.
FailedUploadGone ==
    2 * Cardinality({d \in rows : upload[d] = "failed"}) <= failures

\* document/README.md, "Uploads e remocoes invalidam o cache": without
\* failures a cached list is that of the rows unless a handler is about to
\* invalidate it or it was outdated already when its reader set it.
ListFresh ==
    \/ failures > 0 \/ cached \subseteq {rows} \/ late
    \/ \E d \in Docs :
          \/ upload[d] \in Uploading \cup {"failed"} \/ deletion[d] \in Deleting
================================================================================
