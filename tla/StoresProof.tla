------------------------------ MODULE StoresProof ------------------------------
(*****************************************************************************)
(* What DocumentStore promises for every number of documents, chunks,        *)
(* readers and failures: an upload that was answered with its document has   *)
(* stored all of it, the cached list is not left outdated, and every row     *)
(* that a failed upload or deletion leaves is paid for by failures; that     *)
(* downloads beside them are served (DocumentReading); that the sessions in  *)
(* the memory of a replica (FallbackStore) stay listed, for every number of  *)
(* tokens and lists and all lifetimes; and that the .env files (EnvFiles)    *)
(* agree, for every set of settings and any number of edits.                 *)
(*****************************************************************************)
EXTENDS DocumentReading, EnvFiles, FallbackStore, FiniteSetTheorems, SequenceTheorems, TLAPS

--------------------------------------------------------------------------------
(* Documents.                                                                *)

\* The shapes the steps of a handler rely on.
Shape ==
    /\ upload \in [Docs -> Uploading \cup {"new", "done", "failed", "lost"}]
    /\ deletion \in [Docs -> Deleting \cup {"new", "done", "failed", "lost"}]
    /\ batch \in [Docs -> 0..Batches]
    /\ chunk \in [Docs -> [ChunkNumbers -> {"todo", "skipped", "put", "save", "done", "failed"}]]
    /\ DOMAIN artifacts = Docs
    /\ embedded \in [Docs -> SUBSET ChunkNumbers]

\* What becomes of a chunk that the upload need not wait for any more.
Settled == {"done", "skipped"}

Answered == {"keys", "del", "done"}
Vectorizing == {"embed", "chunks"} \cup Answered

\* While nobody deletes it, a document has what its upload has written, and
\* the batches its upload has left behind are embedded or passed over.
Complete(d) ==
    /\ upload[d] \in {"save", "extract", "source", "text"} \cup Vectorizing => d \in object
    /\ upload[d] \in {"extract", "source", "text"} \cup Vectorizing => d \in rows
    /\ upload[d] \notin Undoing \cup {"failed", "lost"} =>
          \A i \in ChunkNumbers : chunk[d][i] = "done" => i \in embedded[d]
    /\ upload[d] \in {"new", "put", "save", "extract", "source", "text"} => batch[d] = 0
    /\ upload[d] \in {"new", "put", "save", "extract"} => <<"text">> \notin artifacts[d]
    /\ upload[d] = "embed" =>
          \A n \in 1..batch[d], i \in ChunkNumbers : i \in BatchOf(n) => chunk[d][i] \in Settled
    /\ upload[d] = "chunks" =>
          \A n \in 1..(batch[d] - 1), i \in ChunkNumbers : i \in BatchOf(n) => chunk[d][i] \in Settled
    /\ upload[d] \in Answered /\ <<"text">> \in artifacts[d] =>
          \A i \in ChunkNumbers : chunk[d][i] \in Settled

Progress == Shape /\ \A d \in Docs : deletion[d] = "new" => Complete(d)

--------------------------------------------------------------------------------

\* Every chunk belongs to a batch.
LEMMA BatchesCover == \A i \in ChunkNumbers : \E n \in 1..Batches : i \in BatchOf(n)
<1> SUFFICES ASSUME NEW i \in ChunkNumbers PROVE \E n \in 1..Batches : i \in BatchOf(n)
  OBVIOUS
<1> DEFINE n == (i - 1) \div BatchSize + 1
<1>1. /\ Chunks \in Nat /\ BatchSize \in Nat /\ BatchSize > 0 /\ i \in Nat /\ 1 <= i /\ i <= Chunks
  BY DocumentAssumption DEF ChunkNumbers
<1>2. (i - 1) \div BatchSize \in Int /\ Batches \in Int
  BY <1>1 DEF Batches
<1>3. 0 <= (i - 1) \div BatchSize
  BY <1>1
<1>4. (i - 1) \div BatchSize + 1 <= (Chunks + BatchSize - 1) \div BatchSize
  BY <1>1
<1>5. n \in 1..Batches BY <1>2, <1>3, <1>4 DEF Batches
<1>6. i \in BatchOf(n) BY <1>2 DEF BatchOf
<1> QED BY <1>5, <1>6

\* A chunk is in one batch only.
LEMMA BatchesApart ==
    ASSUME NEW k \in Nat, NEW n \in 1..k, NEW i \in BatchOf(n)
    PROVE  i \notin BatchOf(k + 1)
<1>1. (i - 1) \div BatchSize = n - 1 BY DEF BatchOf
<1>2. n - 1 # (k + 1) - 1 OBVIOUS
<1> QED BY <1>1, <1>2 DEF BatchOf

\* A step that leaves a document alone keeps what is known of it.
Same(d) ==
    /\ upload'[d] = upload[d] /\ batch'[d] = batch[d] /\ chunk'[d] = chunk[d]
    /\ deletion'[d] = deletion[d]
    /\ d \in rows' <=> d \in rows
    /\ d \in object' <=> d \in object
    /\ embedded'[d] = embedded[d] /\ artifacts'[d] = artifacts[d]

\* A document nobody touches stays complete.
LEMMA SameComplete ==
    ASSUME NEW d \in Docs, Same(d), Complete(d)
    PROVE  Complete(d)'
BY DEF Same, Complete, Vectorizing, Answered

\* A step of one document leaves the others; a step of none leaves all.
LEMMA OneMoves ==
    ASSUME Progress, NEW d \in Docs, Shape',
           \A e \in Docs \ {d} : Same(e),
           deletion'[d] = "new" => Complete(d)'
    PROVE  Progress'
<1> SUFFICES ASSUME NEW e \in Docs, deletion'[e] = "new" PROVE Complete(e)'
  BY DEF Progress
<1>1. CASE e = d BY <1>1
<1>2. CASE e # d
  <2>1. Same(e) BY <1>2
  <2> QED BY <2>1, SameComplete DEF Progress, Same
<1> QED BY <1>1, <1>2

LEMMA NoneMoves ==
    ASSUME Progress, UNCHANGED <<storeVars, tableVars, handlerVars>>
    PROVE  Progress'
<1>1. Shape' BY DEF Progress, Shape, storeVars, tableVars, handlerVars
<1>2. \A d \in Docs : Same(d) BY DEF Same, storeVars, tableVars, handlerVars
<1> QED BY <1>1, <1>2, SameComplete DEF Progress, Same

--------------------------------------------------------------------------------
(* The upload. *)

\* The commands of an upload, of its chunks, of the cache and of a deletion
\* keep the progress.
LEMMA UploadKeeps ==
    ASSUME Progress, NEW d \in Docs, UploadStep(d)
    PROVE  Progress'
<1> USE DEF Progress, storeVars, tableVars, cacheVars, readerVars
<1>0. /\ upload \in [Docs -> Uploading \cup {"new", "done", "failed", "lost"}]
      /\ batch \in [Docs -> 0..Batches]
      /\ chunk \in [Docs -> [ChunkNumbers -> {"todo", "skipped", "put", "save", "done", "failed"}]]
      /\ deletion \in [Docs -> Deleting \cup {"new", "done", "failed", "lost"}]
      /\ DOMAIN artifacts = Docs /\ embedded \in [Docs -> SUBSET ChunkNumbers]
      /\ deletion[d] = "new" => Complete(d)
      /\ Batches \in Int
  BY DocumentAssumption DEF Shape, Batches
<1>1. CASE Upload(d)
  <2>1. Shape' BY <1>0, <1>1 DEF Upload, UploadGoes, Shape, Uploading, Undoing
  <2>2. \A e \in Docs \ {d} : Same(e) BY <1>0, <1>1 DEF Upload, UploadGoes, Same
  <2>3. deletion'[d] = "new" => Complete(d)'
    BY <1>0, <1>1 DEF Upload, UploadGoes, Complete, Vectorizing, Answered, Undoing
  <2> QED BY <2>1, <2>2, <2>3, OneMoves
<1>2. CASE PutObject(d)
  <2>1. Shape' BY <1>0, <1>2 DEF PutObject, UploadGoes, Shape, Uploading, Undoing
  <2>2. \A e \in Docs \ {d} : Same(e) BY <1>0, <1>2 DEF PutObject, UploadGoes, Same
  <2>3. deletion'[d] = "new" => Complete(d)'
    BY <1>0, <1>2 DEF PutObject, UploadGoes, Complete, Vectorizing, Answered, Undoing
  <2> QED BY <2>1, <2>2, <2>3, OneMoves
<1>3. CASE SaveRow(d)
  <2>1. Shape' BY <1>0, <1>3 DEF SaveRow, UploadGoes, Shape, Uploading, Undoing
  <2>2. \A e \in Docs \ {d} : Same(e) BY <1>0, <1>3 DEF SaveRow, UploadGoes, Same
  <2>3. deletion'[d] = "new" => Complete(d)'
    BY <1>0, <1>3 DEF SaveRow, UploadGoes, Complete, Vectorizing, Answered, Undoing
  <2> QED BY <2>1, <2>2, <2>3, OneMoves
<1>4. CASE ExtractText(d)
  <2>1. Shape' BY <1>0, <1>4 DEF ExtractText, UploadGoes, Shape, Uploading, Undoing
  <2>2. \A e \in Docs \ {d} : Same(e) BY <1>0, <1>4 DEF ExtractText, UploadGoes, Same
  <2>3. deletion'[d] = "new" => Complete(d)'
    BY <1>0, <1>4 DEF ExtractText, UploadGoes, Complete, Vectorizing, Answered, Undoing
  <2> QED BY <2>1, <2>2, <2>3, OneMoves
<1>5. CASE PutArtifact(d, "source", "text")
  <2>1. Shape' BY <1>0, <1>5 DEF PutArtifact, UploadGoes, Shape, Uploading, Undoing
  <2>2. \A e \in Docs \ {d} : Same(e) BY <1>0, <1>5 DEF PutArtifact, UploadGoes, Same
  <2>3. deletion'[d] = "new" => Complete(d)'
    BY <1>0, <1>5 DEF PutArtifact, UploadGoes, Complete, Vectorizing, Answered, Undoing
  <2> QED BY <2>1, <2>2, <2>3, OneMoves
<1>6. CASE PutArtifact(d, "text", "embed")
  <2>1. Shape' BY <1>0, <1>6 DEF PutArtifact, UploadGoes, Shape, Uploading, Undoing
  <2>2. \A e \in Docs \ {d} : Same(e) BY <1>0, <1>6 DEF PutArtifact, UploadGoes, Same
  <2>3. deletion'[d] = "new" => Complete(d)'
    BY <1>0, <1>6 DEF PutArtifact, UploadGoes, Complete, Vectorizing, Answered, Undoing
  <2> QED BY <2>1, <2>2, <2>3, OneMoves
<1>7. CASE EmbedBatch(d)
  <2>1. Shape' BY <1>0, <1>7 DEF EmbedBatch, StartWrites, UploadGoes, Shape, Uploading, Undoing
  <2>2. \A e \in Docs \ {d} : Same(e) BY <1>0, <1>7 DEF EmbedBatch, StartWrites, UploadGoes, Same
  <2>3. ASSUME deletion[d] = "new" PROVE Complete(d)'
    <3>1. /\ upload[d] = "embed" /\ upload'[d] = "chunks" /\ Complete(d)
          /\ batch'[d] = batch[d] + 1 /\ batch[d] \in Nat
          /\ \A i \in ChunkNumbers :
                IF i \in BatchOf(batch[d] + 1) THEN chunk'[d][i] \in {"put", "skipped"}
                ELSE chunk'[d][i] = chunk[d][i]
      BY <1>0, <1>7, <2>3 DEF EmbedBatch, StartWrites, UploadGoes
    <3>2. ASSUME NEW n \in 1..(batch'[d] - 1), NEW i \in ChunkNumbers, i \in BatchOf(n)
          PROVE  chunk'[d][i] \in Settled
      <4>1. n \in 1..batch[d] BY <3>1
      <4>2. chunk[d][i] \in Settled BY <3>1, <3>2, <4>1 DEF Complete
      <4>3. i \notin BatchOf(batch[d] + 1) BY <3>1, <3>2, <4>1, BatchesApart
      <4> QED BY <3>1, <4>2, <4>3
    <3>3. \A i \in ChunkNumbers : chunk'[d][i] = "done" => i \in embedded[d]
      BY <3>1 DEF Complete, Undoing
    <3>4. UNCHANGED <<object, rows, embedded, artifacts>>
      BY <1>7 DEF EmbedBatch
    <3> QED BY <3>1, <3>2, <3>3, <3>4, BatchesApart DEF Complete, Vectorizing, Answered, Undoing, BatchOf
  <2>4. deletion'[d] = deletion[d] BY <1>7 DEF EmbedBatch
  <2> QED BY <2>1, <2>2, <2>3, <2>4, OneMoves
<1>8. CASE EmbedEnds(d)
  <2>1. Shape' BY <1>0, <1>8 DEF EmbedEnds, UploadGoes, Shape, Uploading, Undoing
  <2>2. \A e \in Docs \ {d} : Same(e) BY <1>0, <1>8 DEF EmbedEnds, UploadGoes, Same
  <2>3. ASSUME deletion[d] = "new" PROVE Complete(d)'
    <3>1. /\ upload[d] = "embed" /\ upload'[d] = "keys" /\ Complete(d)
          /\ batch[d] = Batches
          /\ UNCHANGED <<object, rows, embedded, artifacts, chunk, batch>>
      BY <1>0, <1>8, <2>3 DEF EmbedEnds, UploadGoes
    <3>2. \A i \in ChunkNumbers : chunk[d][i] \in Settled
      BY <3>1, BatchesCover DEF Complete
    <3> QED BY <3>1, <3>2 DEF Complete, Vectorizing, Answered, Undoing
  <2>4. deletion'[d] = deletion[d] BY <1>8 DEF EmbedEnds
  <2> QED BY <2>1, <2>2, <2>3, <2>4, OneMoves
<1>9. CASE BatchDone(d)
  <2>1. Shape' BY <1>0, <1>9 DEF BatchDone, UploadGoes, Shape, Uploading, Undoing
  <2>2. \A e \in Docs \ {d} : Same(e) BY <1>0, <1>9 DEF BatchDone, UploadGoes, Same
  <2>3. ASSUME deletion[d] = "new" PROVE Complete(d)'
    <3>1. /\ upload[d] = "chunks" /\ upload'[d] = "embed" /\ Complete(d)
          /\ batch[d] \in Nat
          /\ \A i \in BatchOf(batch[d]) : chunk[d][i] \in Settled
          /\ UNCHANGED <<object, rows, embedded, artifacts, chunk, batch>>
      BY <1>0, <1>9, <2>3 DEF BatchDone, UploadGoes, Settled
    <3>2. ASSUME NEW n \in 1..batch[d], NEW i \in ChunkNumbers, i \in BatchOf(n)
          PROVE  chunk[d][i] \in Settled
      <4>1. CASE n = batch[d] BY <3>1, <3>2, <4>1
      <4>2. CASE n # batch[d]
        <5>1. n \in 1..(batch[d] - 1) BY <3>1, <4>2
        <5> QED BY <3>1, <3>2, <5>1 DEF Complete
      <4> QED BY <4>1, <4>2
    <3> QED BY <3>1, <3>2 DEF Complete, Vectorizing, Answered, Undoing, BatchOf
  <2>4. deletion'[d] = deletion[d] BY <1>9 DEF BatchDone
  <2> QED BY <2>1, <2>2, <2>3, <2>4, OneMoves
<1>10. CASE UndoObject(d)
  <2>1. Shape' BY <1>0, <1>10 DEF UndoObject, UploadGoes, Shape, Uploading, Undoing
  <2>2. \A e \in Docs \ {d} : Same(e) BY <1>0, <1>10 DEF UndoObject, UploadGoes, Same
  <2>3. deletion'[d] = "new" => Complete(d)'
    BY <1>0, <1>10 DEF UndoObject, UploadGoes, Complete, Vectorizing, Answered, Undoing
  <2> QED BY <2>1, <2>2, <2>3, OneMoves
<1>11. CASE UndoRow(d)
  <2>1. Shape' BY <1>0, <1>11 DEF UndoRow, RemoveRow, UploadGoes, Shape, Uploading, Undoing
  <2>2. \A e \in Docs \ {d} : Same(e) BY <1>0, <1>11 DEF UndoRow, RemoveRow, UploadGoes, Same
  <2>3. deletion'[d] = "new" => Complete(d)'
    BY <1>0, <1>11 DEF UndoRow, RemoveRow, UploadGoes, Complete, Vectorizing, Answered, Undoing
  <2> QED BY <2>1, <2>2, <2>3, OneMoves
<1> QED BY <1>1, <1>2, <1>3, <1>4, <1>5, <1>6, <1>7, <1>8, <1>9, <1>10, <1>11 DEF UploadStep

LEMMA ChunkKeeps ==
    ASSUME Progress, NEW d \in Docs, NEW i \in ChunkNumbers,
           ChunkStep(d, i) \/ ChunkFails(d, i)
    PROVE  Progress'
<1> USE DEF Progress, storeVars, tableVars, cacheVars, readerVars
<1>0. /\ upload \in [Docs -> Uploading \cup {"new", "done", "failed", "lost"}]
      /\ chunk \in [Docs -> [ChunkNumbers -> {"todo", "skipped", "put", "save", "done", "failed"}]]
      /\ deletion \in [Docs -> Deleting \cup {"new", "done", "failed", "lost"}]
      /\ DOMAIN artifacts = Docs /\ embedded \in [Docs -> SUBSET ChunkNumbers]
      /\ deletion[d] = "new" => Complete(d)
  BY DEF Shape
<1>1. CASE PutChunk(d, i)
  <2>1. Shape' BY <1>0, <1>1 DEF PutChunk, Shape, Uploading, Undoing
  <2>2. \A e \in Docs \ {d} : Same(e) BY <1>0, <1>1 DEF PutChunk, Same
  <2>3. deletion'[d] = "new" => Complete(d)'
    BY <1>0, <1>1 DEF PutChunk, Complete, Settled, Vectorizing, Answered, Uploading, Undoing
  <2> QED BY <2>1, <2>2, <2>3, OneMoves
<1>2. CASE SaveChunk(d, i)
  <2>1. Shape' BY <1>0, <1>2 DEF SaveChunk, Shape, Uploading, Undoing
  <2>2. \A e \in Docs \ {d} : Same(e) BY <1>0, <1>2 DEF SaveChunk, Same
  <2>3. deletion'[d] = "new" => Complete(d)'
    BY <1>0, <1>2 DEF SaveChunk, Complete, Settled, Vectorizing, Answered, Uploading, Undoing
  <2> QED BY <2>1, <2>2, <2>3, OneMoves
<1>3. CASE SaveChunkRefused(d, i)
  <2>1. Shape' BY <1>0, <1>3 DEF SaveChunkRefused, ChunkThrows, Shape, Uploading, Undoing
  <2>2. \A e \in Docs \ {d} : Same(e) BY <1>0, <1>3 DEF SaveChunkRefused, ChunkThrows, Same
  <2>3. deletion'[d] = "new" => Complete(d)'
    BY <1>0, <1>3 DEF SaveChunkRefused, ChunkThrows, Complete, Vectorizing, Answered, Uploading, Undoing
  <2> QED BY <2>1, <2>2, <2>3, OneMoves
<1>4. CASE ChunkFails(d, i)
  <2>1. Shape' BY <1>0, <1>4 DEF ChunkFails, ChunkThrows, Shape, Uploading, Undoing
  <2>2. \A e \in Docs \ {d} : Same(e) BY <1>0, <1>4 DEF ChunkFails, ChunkThrows, Same
  <2>3. deletion'[d] = "new" => Complete(d)'
    BY <1>0, <1>4 DEF ChunkFails, ChunkThrows, Complete, Settled, Vectorizing, Answered, Uploading, Undoing
  <2> QED BY <2>1, <2>2, <2>3, OneMoves
<1> QED BY <1>1, <1>2, <1>3, <1>4 DEF ChunkStep

LEMMA UploadThrowsKeeps ==
    ASSUME Progress, NEW d \in Docs, UploadThrows(d)
    PROVE  Progress'
<1> USE DEF Progress, storeVars, tableVars, cacheVars, readerVars
<1>0. /\ upload \in [Docs -> Uploading \cup {"new", "done", "failed", "lost"}]
      /\ chunk \in [Docs -> [ChunkNumbers -> {"todo", "skipped", "put", "save", "done", "failed"}]]
      /\ deletion \in [Docs -> Deleting \cup {"new", "done", "failed", "lost"}]
      /\ DOMAIN artifacts = Docs /\ embedded \in [Docs -> SUBSET ChunkNumbers]
      /\ deletion[d] = "new" => Complete(d)
  BY DEF Shape
<1>1. Shape' BY <1>0 DEF UploadThrows, MaybeObject, MaybeArtifact, Shape, Uploading, Undoing
<1>2. \A e \in Docs \ {d} : Same(e) BY <1>0 DEF UploadThrows, MaybeObject, MaybeArtifact, Same
<1>3. deletion'[d] = "new" => Complete(d)'
  BY <1>0 DEF UploadThrows, MaybeObject, MaybeArtifact, Complete, Vectorizing, Answered, Uploading, Undoing
<1> QED BY <1>1, <1>2, <1>3, OneMoves

LEMMA CacheKeeps ==
    ASSUME Progress, NEW d \in Docs, FindKeys(d) \/ DeleteKeys(d)
    PROVE  Progress'
<1> USE DEF Progress, storeVars, tableVars, cacheVars, readerVars
<1>0. /\ upload \in [Docs -> Uploading \cup {"new", "done", "failed", "lost"}]
      /\ chunk \in [Docs -> [ChunkNumbers -> {"todo", "skipped", "put", "save", "done", "failed"}]]
      /\ deletion \in [Docs -> Deleting \cup {"new", "done", "failed", "lost"}]
      /\ DOMAIN artifacts = Docs /\ embedded \in [Docs -> SUBSET ChunkNumbers]
      /\ deletion[d] = "new" => Complete(d)
  BY DEF Shape
<1>1. CASE FindKeys(d)
  <2>1. Shape' BY <1>0, <1>1 DEF FindKeys, AfterKeys, UploadGoes, DeletionGoes, Deleting, Shape, Uploading, Undoing
  <2>2. \A e \in Docs \ {d} : Same(e) BY <1>0, <1>1 DEF FindKeys, AfterKeys, UploadGoes, DeletionGoes, Deleting, Same
  <2>3. deletion'[d] = "new" => Complete(d)'
    BY <1>0, <1>1 DEF FindKeys, AfterKeys, UploadGoes, DeletionGoes, Deleting, Complete, Vectorizing, Answered, Uploading, Undoing
  <2> QED BY <2>1, <2>2, <2>3, OneMoves
<1>2. CASE DeleteKeys(d)
  <2>1. Shape' BY <1>0, <1>2 DEF DeleteKeys, UploadGoes, DeletionGoes, Deleting, Shape, Uploading, Undoing
  <2>2. \A e \in Docs \ {d} : Same(e) BY <1>0, <1>2 DEF DeleteKeys, UploadGoes, DeletionGoes, Deleting, Same
  <2>3. deletion'[d] = "new" => Complete(d)'
    BY <1>0, <1>2 DEF DeleteKeys, UploadGoes, DeletionGoes, Deleting, Complete, Vectorizing, Answered, Uploading, Undoing
  <2> QED BY <2>1, <2>2, <2>3, OneMoves
<1> QED BY <1>1, <1>2

--------------------------------------------------------------------------------
(* The deletion, the readers and the crash. *)

LEMMA DeletionKeeps ==
    ASSUME Progress, NEW d \in Docs, DeletionStep(d) \/ DeletionThrows(d)
    PROVE  Progress'
<1> USE DEF Progress, storeVars, tableVars, cacheVars, readerVars
<1>0. /\ upload \in [Docs -> Uploading \cup {"new", "done", "failed", "lost"}]
      /\ chunk \in [Docs -> [ChunkNumbers -> {"todo", "skipped", "put", "save", "done", "failed"}]]
      /\ deletion \in [Docs -> Deleting \cup {"new", "done", "failed", "lost"}]
      /\ DOMAIN artifacts = Docs /\ embedded \in [Docs -> SUBSET ChunkNumbers]
      /\ deletion[d] = "new" => Complete(d)
  BY DEF Shape
<1>1. deletion'[d] # "new" /\ deletion' \in [Docs -> Deleting \cup {"new", "done", "failed", "lost"}]
  BY <1>0 DEF DeletionStep, Delete, DeleteObject, DeleteArtifacts, DeleteRow, RemoveRow, DeletionGoes, DeletionThrows, Deleting
<1>2. UNCHANGED <<upload, batch, chunk>> /\ DOMAIN artifacts' = Docs /\ embedded' \in [Docs -> SUBSET ChunkNumbers]
  BY <1>0 DEF DeletionStep, Delete, DeleteObject, DeleteArtifacts, DeleteRow, RemoveRow, DeletionGoes, DeletionThrows
<1>3. Shape' BY <1>1, <1>2 DEF Shape
<1>4. \A e \in Docs \ {d} : Same(e) BY <1>0 DEF DeletionStep, Delete, DeleteObject, DeleteArtifacts, DeleteRow, RemoveRow, DeletionGoes, DeletionThrows, Same
<1> QED BY <1>1, <1>3, <1>4, OneMoves

LEMMA CrashKeeps == Progress /\ Crash => Progress'
<1> SUFFICES ASSUME Progress, Crash PROVE Progress' OBVIOUS
<1> USE DEF Progress, storeVars, tableVars, cacheVars
<1>1. Shape' BY DEF Crash, Shape, Uploading, Undoing, Deleting
<1>2. ASSUME NEW d \in Docs, deletion'[d] = "new" PROVE Complete(d)'
  <2>1. deletion[d] = "new" /\ Complete(d) BY <1>2 DEF Crash, Shape, Deleting
  <2>2. \/ upload'[d] = "lost"
        \/ upload'[d] = upload[d] /\ upload[d] \in {"new", "done", "failed", "lost"}
    BY DEF Crash, Shape
  <2>3. \A i \in ChunkNumbers : /\ chunk'[d][i] = "done" <=> chunk[d][i] = "done"
                                /\ chunk'[d][i] = "skipped" <=> chunk[d][i] = "skipped"
    BY DEF Crash, Shape
  <2>4. UNCHANGED <<object, rows, embedded, artifacts, batch>> BY DEF Crash
  <2> QED BY <2>1, <2>2, <2>3, <2>4 DEF Complete, Settled, Vectorizing, Answered, Undoing, Uploading
<1> QED BY <1>1, <1>2

--------------------------------------------------------------------------------

LEMMA ProgressInit == Init => Progress
<1> SUFFICES ASSUME Init PROVE Progress OBVIOUS
<1>1. Batches \in Nat
  <2>1. /\ Chunks \in Nat /\ BatchSize \in Nat /\ BatchSize > 0 /\ Chunks > 0
    BY DocumentAssumption
  <2>2. Chunks + BatchSize - 1 \in Nat BY <2>1
  <2> QED BY <2>1, <2>2 DEF Batches
<1>2. Shape BY <1>1 DEF Init, Shape, NoChunks
<1>3. ASSUME NEW d \in Docs PROVE Complete(d)
  BY DEF Init, Complete, Vectorizing, Answered, Undoing, NoChunks
<1> QED BY <1>2, <1>3 DEF Progress

\* Every step keeps it ...
LEMMA ProgressStep == Progress /\ [Next]_vars => Progress'
<1> SUFFICES ASSUME Progress, [Next]_vars PROVE Progress' OBVIOUS
<1>1. CASE UNCHANGED vars BY <1>1, NoneMoves DEF vars
<1>2. ASSUME NEW d \in Docs, UploadStep(d) PROVE Progress' BY <1>2, UploadKeeps
<1>3. ASSUME NEW d \in Docs, DeletionStep(d) \/ DeletionThrows(d) PROVE Progress'
  BY <1>3, DeletionKeeps
<1>4. ASSUME NEW d \in Docs, UploadThrows(d) PROVE Progress' BY <1>4, UploadThrowsKeeps
<1>5. ASSUME NEW d \in Docs, FindKeys(d) \/ DeleteKeys(d) PROVE Progress' BY <1>5, CacheKeeps
<1>6. ASSUME NEW d \in Docs, NEW i \in ChunkNumbers, ChunkStep(d, i) \/ ChunkFails(d, i)
      PROVE  Progress'
  BY <1>6, ChunkKeeps
<1>7. ASSUME NEW r \in Readers, ReadCache(r) \/ QueryRows(r) \/ SetCache(r) PROVE Progress'
  BY <1>7, NoneMoves DEF ReadCache, QueryRows, SetCache
<1>8. CASE ExpireCache BY <1>8, NoneMoves DEF ExpireCache
<1>9. CASE Crash BY <1>9, CrashKeeps
<1> QED BY <1>1, <1>2, <1>3, <1>4, <1>5, <1>6, <1>7, <1>8, <1>9 DEF Next

\* ... so it holds for ever ...
LEMMA ProgressHolds == Spec => []Progress
<1> QED BY ProgressInit, ProgressStep, PTL DEF Spec

\* ... and an upload that has come to its answer has come past its last batch.
LEMMA ProgressComplete == Progress => UploadedComplete
<1> SUFFICES ASSUME Progress, NEW d \in Docs, upload[d] = "done", deletion[d] = "new"
             PROVE  /\ d \in rows \cap object
                    /\ <<"text">> \in artifacts[d] =>
                          {i \in ChunkNumbers : chunk[d][i] # "skipped"} \subseteq embedded[d]
  BY DEF UploadedComplete
<1>1. Complete(d) BY DEF Progress
<1>2. d \in rows \cap object BY <1>1 DEF Complete, Vectorizing, Answered
<1>3. ASSUME <<"text">> \in artifacts[d], NEW i \in ChunkNumbers, chunk[d][i] # "skipped"
      PROVE  i \in embedded[d]
  BY <1>1, <1>3 DEF Complete, Settled, Answered, Undoing
<1> QED BY <1>2, <1>3

\* An upload that was answered with its document (document.service.ts:239
\* waits for the vectorization) has its object and its row, and every chunk of
\* its text that the model has sent an embedding for is embedded, however many
\* batches there are, whatever fails or crashes and whoever is uploading,
\* deleting or listing beside it.
THEOREM UploadedHolds == Spec => []UploadedComplete
BY ProgressHolds, ProgressComplete, PTL

--------------------------------------------------------------------------------
(* The cached list.  ListFresh is inductive by itself: whoever changes the *)
(* rows is about to invalidate the list, or has failed.                    *)

Fresh == failures \in Nat /\ Shape /\ ListFresh

Late(d) == upload[d] \in Uploading \cup {"failed"} \/ deletion[d] \in Deleting

\* A step whose document is in the hands of a handler afterwards.
LEMMA LateFresh ==
    ASSUME Fresh, NEW d \in Docs, Late(d)'
    PROVE  ListFresh'
BY DEF ListFresh, Late

\* A step that changes neither the rows nor the list, and after which everybody
\* who was about to invalidate the list still is.
LEMMA SameFresh ==
    ASSUME Fresh, UNCHANGED <<rows, cached, late>>, failures' >= failures, failures' \in Nat,
           \A d \in Docs : Late(d) => Late(d)'
    PROVE  ListFresh'
BY DEF Fresh, ListFresh, Late

\* Every step leaves the list fresh, or somebody to excuse it.
LEMMA FreshStep ==
    ASSUME Fresh, Shape', Next
    PROVE  Fresh'
<1>1. failures' \in Nat /\ failures' >= failures
  <2>1. failures' = failures \/ failures' = failures + 1
    BY DEF Next, UploadStep, DeletionStep, ChunkStep, Upload, PutObject, SaveRow, ExtractText,
       PutArtifact, EmbedBatch, EmbedEnds, BatchDone, UndoObject, UndoRow, PutChunk, SaveChunk,
       SaveChunkRefused, Delete, DeleteObject, DeleteArtifacts, DeleteRow, FindKeys, DeleteKeys,
       ReadCache, QueryRows, SetCache, ExpireCache, UploadThrows, DeletionThrows, ChunkFails,
       Crash, Fault
  <2> QED BY <2>1 DEF Fresh
<1>2. ListFresh'
  <2>1. ASSUME NEW d \in Docs, UploadStep(d) PROVE ListFresh'
    <3>1. upload'[d] \in Uploading \cup {"failed"}
      BY <2>1 DEF UploadStep, Upload, PutObject, SaveRow, ExtractText, PutArtifact, EmbedBatch,
         EmbedEnds, BatchDone, UndoObject, UndoRow, UploadGoes, Uploading, Undoing, Fresh, Shape
    <3> QED BY <3>1, LateFresh DEF Late
  <2>2. ASSUME NEW d \in Docs, DeletionStep(d) PROVE ListFresh'
    <3>1. deletion'[d] \in Deleting
      BY <2>2 DEF DeletionStep, Delete, DeleteObject, DeleteArtifacts, DeleteRow, DeletionGoes,
         Deleting, Fresh, Shape
    <3> QED BY <3>1, LateFresh DEF Late
  <2>3. ASSUME Fault PROVE ListFresh'
    BY <2>3 DEF Fault, Fresh, ListFresh
  <2>4. ASSUME NEW d \in Docs, UploadThrows(d) \/ DeletionThrows(d) PROVE ListFresh'
    BY <2>3, <2>4 DEF UploadThrows, DeletionThrows
  <2>5. ASSUME NEW d \in Docs, FindKeys(d) PROVE ListFresh'
    <3>1. UNCHANGED <<rows, cached, late>>
      BY <2>5 DEF FindKeys, tableVars, cacheVars
    <3>2. CASE cached = {}
      BY <3>1, <3>2 DEF ListFresh
    <3>3. CASE cached # {}
      <4>1. Late(d)'
        BY <2>5, <3>3 DEF FindKeys, AfterKeys, UploadGoes, DeletionGoes, Late, Uploading, Deleting,
           Fresh, Shape
      <4> QED BY <4>1, LateFresh
    <3> QED BY <3>2, <3>3
  <2>6. ASSUME NEW d \in Docs, DeleteKeys(d) PROVE ListFresh'
    BY <2>6 DEF DeleteKeys, ListFresh
  <2>7. ASSUME NEW d \in Docs, NEW i \in ChunkNumbers, ChunkStep(d, i) PROVE ListFresh'
    <3>1. UNCHANGED <<rows, cached, late, deletion>>
      BY <2>7 DEF ChunkStep, PutChunk, SaveChunk, SaveChunkRefused, ChunkThrows, tableVars, cacheVars
    <3>2. \/ upload' = upload
          \/ upload' = [upload EXCEPT ![d] = IF @ = "chunks" THEN "undoObject" ELSE @]
      BY <2>7 DEF ChunkStep, PutChunk, SaveChunk, SaveChunkRefused, ChunkThrows
    <3>3. \A x \in Docs : Late(x) => Late(x)'
      BY <3>1, <3>2 DEF Late, Uploading, Undoing, Fresh, Shape
    <3> QED BY <1>1, <3>1, <3>3, SameFresh
  <2>8. ASSUME NEW d \in Docs, NEW i \in ChunkNumbers, ChunkFails(d, i) PROVE ListFresh'
    BY <2>3, <2>8 DEF ChunkFails
  <2>9. ASSUME NEW r \in Readers, ReadCache(r) \/ QueryRows(r) PROVE ListFresh'
    BY <1>1, <2>9, SameFresh DEF ReadCache, QueryRows, tableVars, cacheVars, handlerVars, Late
  <2>10. ASSUME NEW r \in Readers, SetCache(r) PROVE ListFresh'
    BY <2>10 DEF SetCache, tableVars, ListFresh
  <2>11. ASSUME ExpireCache PROVE ListFresh'
    BY <2>11 DEF ExpireCache, ListFresh
  <2>12. ASSUME Crash PROVE ListFresh'
    BY <2>3, <2>12 DEF Crash
  <2> QED
    BY <2>1, <2>2, <2>4, <2>5, <2>6, <2>7, <2>8, <2>9, <2>10, <2>11, <2>12 DEF Next
<1> QED BY <1>1, <1>2 DEF Fresh

\* Without failures, the list of documents in the cache (document.controller.ts:422)
\* is that of the rows, or somebody is about to drop it or failed at it, or its
\* reader was outdated when it set it: however many documents are uploaded,
\* taken back and deleted beside however many readers.
THEOREM ListStaysFresh == Spec => []ListFresh
<1>1. Init => Fresh
  BY ProgressInit DEF Init, ListFresh, Fresh, Progress
<1>2. Progress' /\ Fresh /\ [Next]_vars => Fresh'
  <2>1. ASSUME Progress', Fresh, Next PROVE Fresh'
    BY <2>1, FreshStep DEF Progress
  <2>2. ASSUME Progress', Fresh, UNCHANGED vars PROVE Fresh'
    BY <2>2 DEF vars, tableVars, cacheVars, handlerVars, Fresh, ListFresh, Progress
  <2> QED BY <2>1, <2>2
<1>3. Fresh => ListFresh
  BY DEF Fresh
<1> QED BY <1>1, <1>2, <1>3, ProgressHolds, PTL DEF Spec

--------------------------------------------------------------------------------
(* What is left behind.                                                      *)

\* What vectorization may put beside an object.
Artifacts == Copies \cup ({"chunk"} \X ChunkNumbers)

\* The types that Shape leaves out.
StoreTyped ==
    /\ object \subseteq Docs /\ rows \subseteq Docs
    /\ cached \subseteq SUBSET Docs /\ Cardinality(cached) <= 1
    /\ late \in BOOLEAN
    /\ reader \in [Readers -> {"idle", "query", "set"}]
    /\ list \in [Readers -> SUBSET Docs]
    /\ failures \in 0..MaxFailures

ArtifactsTyped == artifacts \in [Docs -> SUBSET Artifacts]

\* The types, without and with the stores.
LEMMA TypesSplit == DocTypeOK <=> Shape /\ StoreTyped /\ ArtifactsTyped
BY DEF DocTypeOK, Shape, StoreTyped, ArtifactsTyped, Artifacts

\* Only the bucket's puts and deletes change the artifacts, of one document.
LEMMA ArtifactsStep == ArtifactsTyped /\ [Next]_vars => ArtifactsTyped'
<1> SUFFICES ASSUME ArtifactsTyped, [Next]_vars PROVE ArtifactsTyped' OBVIOUS
<1> USE DEF storeVars
<1>0. ASSUME NEW d \in Docs, NEW A \in SUBSET Artifacts, artifacts' = [artifacts EXCEPT ![d] = A]
      PROVE  ArtifactsTyped'
  BY <1>0 DEF ArtifactsTyped
<1>1. ASSUME UNCHANGED artifacts PROVE ArtifactsTyped'
  BY <1>1 DEF ArtifactsTyped
<1>2. \A a \in {"source", "text"} : <<a>> \in Artifacts BY DEF Artifacts, Copies
<1>3. \A i \in ChunkNumbers : <<"chunk", i>> \in Artifacts BY DEF Artifacts
<1>4. \A d \in Docs : artifacts[d] \in SUBSET Artifacts BY DEF ArtifactsTyped
<1>5. ASSUME NEW d \in Docs, NEW a \in {"source", "text"}, NEW next, PutArtifact(d, a, next)
      PROVE  ArtifactsTyped'
  <2>1. artifacts' = [artifacts EXCEPT ![d] = artifacts[d] \cup {<<a>>}]
    BY <1>5 DEF PutArtifact
  <2>2. artifacts[d] \cup {<<a>>} \in SUBSET Artifacts BY <1>2, <1>4
  <2> QED BY <1>0, <2>1, <2>2
<1>6. ASSUME NEW d \in Docs, UploadStep(d) PROVE ArtifactsTyped'
  BY <1>1, <1>5, <1>6 DEF UploadStep, Upload, PutObject, SaveRow, ExtractText, EmbedBatch,
     EmbedEnds, BatchDone, UndoObject, UndoRow
<1>7. ASSUME NEW d \in Docs, DeletionStep(d) PROVE ArtifactsTyped'
  <2>1. CASE DeleteArtifacts(d)
    <3>1. artifacts' = [artifacts EXCEPT ![d] = artifacts[d] \ Copies]
      BY <2>1 DEF DeleteArtifacts
    <3> QED BY <1>0, <1>4, <3>1
  <2> QED BY <1>1, <1>7, <2>1 DEF DeletionStep, Delete, DeleteObject, DeleteRow
<1>8. ASSUME NEW d \in Docs, UploadThrows(d) PROVE ArtifactsTyped'
  <2>1. CASE UNCHANGED artifacts BY <1>1, <2>1
  <2>2. CASE /\ upload[d] \in {"source", "text"}
             /\ artifacts' = [artifacts EXCEPT ![d] = artifacts[d] \cup {<<upload[d]>>}]
    <3>1. artifacts[d] \cup {<<upload[d]>>} \in SUBSET Artifacts BY <1>2, <1>4, <2>2
    <3> QED BY <1>0, <2>2, <3>1
  <2> QED BY <1>8, <2>1, <2>2 DEF UploadThrows, MaybeArtifact
<1>9. ASSUME NEW d \in Docs, DeletionThrows(d) PROVE ArtifactsTyped'
  <2>1. PICK kept \in SUBSET Copies : artifacts' = [artifacts EXCEPT ![d] =
              IF deletion[d] = "artifacts" THEN artifacts[d] \ (Copies \ kept) ELSE artifacts[d]]
    BY <1>9 DEF DeletionThrows
  <2>2. (IF deletion[d] = "artifacts" THEN artifacts[d] \ (Copies \ kept) ELSE artifacts[d])
           \in SUBSET Artifacts
    BY <1>4
  <2> QED BY <1>0, <2>1, <2>2
<1>10. ASSUME NEW d \in Docs, NEW i \in ChunkNumbers, ChunkStep(d, i) \/ ChunkFails(d, i)
       PROVE  ArtifactsTyped'
  <2>1. CASE artifacts' = [artifacts EXCEPT ![d] = artifacts[d] \cup {<<"chunk", i>>}]
    <3>1. artifacts[d] \cup {<<"chunk", i>>} \in SUBSET Artifacts BY <1>3, <1>4
    <3> QED BY <1>0, <2>1, <3>1
  <2> QED BY <1>1, <1>10, <2>1 DEF ChunkStep, PutChunk, SaveChunk, SaveChunkRefused, ChunkFails
<1> QED
  BY <1>1, <1>6, <1>7, <1>8, <1>9, <1>10
  DEF Next, FindKeys, DeleteKeys, ReadCache, QueryRows, SetCache, ExpireCache, Crash, vars

\* Every step keeps the types of the stores.
LEMMA StoreTypesStep == StoreTyped /\ [Next]_vars => StoreTyped'
<1> SUFFICES ASSUME StoreTyped, [Next]_vars PROVE StoreTyped' OBVIOUS
<1> USE DocumentAssumption DEF StoreTyped
<1>1. ASSUME NEW d \in Docs, UploadStep(d) PROVE StoreTyped'
  BY <1>1 DEF UploadStep, Upload, PutObject, SaveRow, ExtractText, PutArtifact, EmbedBatch,
     EmbedEnds, BatchDone, UndoObject, UndoRow, RemoveRow, storeVars, tableVars, cacheVars, readerVars
<1>2. ASSUME NEW d \in Docs, DeletionStep(d) PROVE StoreTyped'
  BY <1>2 DEF DeletionStep, Delete, DeleteObject, DeleteArtifacts, DeleteRow, RemoveRow,
     storeVars, tableVars, cacheVars, readerVars
<1>3. Fault => failures' \in 0..MaxFailures BY DEF Fault
<1>4. ASSUME NEW d \in Docs, UploadThrows(d) PROVE StoreTyped'
  <2>1. object' \subseteq Docs BY <1>4 DEF UploadThrows, MaybeObject
  <2> QED BY <1>3, <1>4, <2>1 DEF UploadThrows, tableVars, cacheVars, readerVars
<1>5. ASSUME NEW d \in Docs, DeletionThrows(d) PROVE StoreTyped'
  <2>1. object' \subseteq Docs BY <1>5 DEF DeletionThrows
  <2> QED BY <1>3, <1>5, <2>1 DEF DeletionThrows, tableVars, cacheVars, readerVars
<1>6. ASSUME NEW d \in Docs, FindKeys(d) PROVE StoreTyped'
  BY <1>6 DEF FindKeys, storeVars, tableVars, cacheVars, readerVars
<1>7. ASSUME cached' = {}, late' = FALSE, UNCHANGED <<object, rows, reader, list, failures>>
      PROVE  StoreTyped'
  <2>1. Cardinality(cached') = 0 BY <1>7, FS_EmptySet
  <2>2. Cardinality(cached') <= 1 BY <2>1
  <2> QED BY <1>7, <2>2
<1>8. ASSUME NEW d \in Docs, DeleteKeys(d) PROVE StoreTyped'
  BY <1>7, <1>8 DEF DeleteKeys, storeVars, tableVars, readerVars
<1>9. ASSUME NEW d \in Docs, NEW i \in ChunkNumbers, ChunkStep(d, i) PROVE StoreTyped'
  BY <1>9 DEF ChunkStep, PutChunk, SaveChunk, SaveChunkRefused, ChunkThrows,
     storeVars, tableVars, cacheVars, readerVars
<1>10. ASSUME NEW d \in Docs, NEW i \in ChunkNumbers, ChunkFails(d, i) PROVE StoreTyped'
  BY <1>3, <1>10 DEF ChunkFails, ChunkThrows, tableVars, cacheVars, readerVars
<1>11. ASSUME NEW r \in Readers, ReadCache(r) \/ QueryRows(r) PROVE StoreTyped'
  BY <1>11 DEF ReadCache, QueryRows, ReaderGoes, storeVars, tableVars, cacheVars, handlerVars
<1>12. ASSUME NEW r \in Readers, SetCache(r) PROVE StoreTyped'
  <2>1. PICK held \in SUBSET Docs : held = list[r] BY DEF StoreTyped
  <2>2. cached' = {held} BY <1>12, <2>1 DEF SetCache
  <2>3. Cardinality(cached') = 1 BY <2>2, FS_Singleton, Zenon
  <2> QED BY <1>12, <2>1, <2>2, <2>3 DEF SetCache, ReaderGoes, storeVars, tableVars, handlerVars
<1>13. CASE ExpireCache
  BY <1>7, <1>13 DEF ExpireCache, storeVars, tableVars, handlerVars, readerVars
<1>14. CASE Crash
  BY <1>3, <1>14 DEF Crash, storeVars, tableVars, cacheVars
<1>15. CASE UNCHANGED vars
  BY <1>15 DEF vars, storeVars, tableVars, cacheVars, handlerVars, readerVars
<1> QED
  BY <1>1, <1>2, <1>4, <1>5, <1>6, <1>8, <1>9, <1>10, <1>11, <1>12, <1>13, <1>14, <1>15 DEF Next

\* At first the stores are empty.
LEMMA InitTyped == Init => StoreTyped /\ ArtifactsTyped
<1> SUFFICES ASSUME Init PROVE StoreTyped /\ ArtifactsTyped OBVIOUS
<1>1. cached = {} BY DEF Init
<1>2. Cardinality(cached) = 0 BY <1>1, FS_EmptySet
<1>3. Cardinality(cached) <= 1 BY <1>2
<1>4. ArtifactsTyped BY DEF Init, ArtifactsTyped
<1>5. failures \in 0..MaxFailures BY DocumentAssumption DEF Init
<1>6. reader \in [Readers -> {"idle", "query", "set"}] /\ list \in [Readers -> SUBSET Docs]
  BY DEF Init
<1>7. object \subseteq Docs /\ rows \subseteq Docs /\ late \in BOOLEAN BY DEF Init
<1> QED BY <1>1, <1>3, <1>4, <1>5, <1>6, <1>7 DEF StoreTyped

\* The bucket, the tables, the list, the handlers of every document and the
\* requests keep their types, for every number of them.
THEOREM DocumentTypeCorrect == Spec => []DocTypeOK
<1>1. Progress => Shape BY DEF Progress
<1> QED BY <1>1, ProgressHolds, InitTyped, TypesSplit, ArtifactsStep, StoreTypesStep, PTL DEF Spec

\* The rows of failed uploads, of uploads that are being taken back, and the
\* documents whose deletion failed.
LeftBehind == {d \in rows : upload[d] = "failed"}
TakenBack == {d \in rows : upload[d] \in Undoing}
Kept == {d \in Docs : deletion[d] = "failed"}

\* An upload that is taken back has met one failure, its row is left only by a
\* second one, and a deletion fails by one of its own.
Charged ==
    /\ IsFiniteSet(LeftBehind) /\ IsFiniteSet(TakenBack) /\ IsFiniteSet(Kept)
    /\ 2 * Cardinality(LeftBehind) + Cardinality(TakenBack) + Cardinality(Kept) <= failures

\* A row appears once, after its object, and goes with its deletion.
Steady(d) ==
    /\ upload[d] \in {"new", "put", "save"} => d \notin rows /\ deletion[d] = "new"
    /\ deletion[d] \in {"keys", "del", "done"} => d \notin rows
    /\ failures = 0 => upload[d] # "lost"

Accounted == DocTypeOK /\ Charged /\ \A d \in Docs : Steady(d)

\* One set may gain a document, the others none.
LEMMA GainsOne ==
    ASSUME NEW S, NEW T, NEW d, IsFiniteSet(S), T \subseteq S \cup {d}
    PROVE  /\ IsFiniteSet(T) /\ Cardinality(S) \in Nat /\ Cardinality(T) \in Nat
           /\ Cardinality(T) <= Cardinality(S) + 1
           /\ d \notin T \/ d \in S => Cardinality(T) <= Cardinality(S)
           /\ d \in S /\ d \notin T => Cardinality(T) <= Cardinality(S) - 1
<1>0. Cardinality(S) \in Nat BY FS_CardinalityType
<1>1. IsFiniteSet(S \cup {d}) /\ Cardinality(S) \in Nat /\ Cardinality(S \cup {d}) <= Cardinality(S) + 1
  BY <1>0, FS_AddElement
<1>2. IsFiniteSet(T) /\ Cardinality(T) \in Nat /\ Cardinality(T) <= Cardinality(S \cup {d})
  BY <1>1, FS_Subset, FS_CardinalityType
<1>3. Cardinality(S \cup {d}) \in Nat BY <1>1, FS_CardinalityType
<1>4. ASSUME d \notin T \/ d \in S PROVE Cardinality(T) <= Cardinality(S)
  <2>1. T \subseteq S BY <1>4
  <2> QED BY <2>1, FS_Subset
<1>5. ASSUME d \in S, d \notin T PROVE Cardinality(T) <= Cardinality(S) - 1
  <2>1. T \subseteq S \ {d} BY <1>5
  <2>2. IsFiniteSet(S \ {d}) /\ Cardinality(S \ {d}) = Cardinality(S) - 1
    BY <1>5, FS_RemoveElement
  <2> QED BY <2>1, <2>2, FS_Subset
<1> QED BY <1>1, <1>2, <1>3, <1>4, <1>5

\* How the three sets may change in one step.
LEMMA NobodyCharged ==
    ASSUME Charged, failures \in Nat, failures' \in Nat, failures' >= failures,
           LeftBehind' \subseteq LeftBehind, TakenBack' \subseteq TakenBack, Kept' \subseteq Kept
    PROVE  Charged'
<1>1. \A S, T : IsFiniteSet(S) /\ T \subseteq S =>
        IsFiniteSet(T) /\ Cardinality(S) \in Nat /\ Cardinality(T) \in Nat /\ Cardinality(T) <= Cardinality(S)
  BY FS_Subset, FS_CardinalityType
<1> QED BY <1>1 DEF Charged

\* A failure is charged to an upload that is taken back, to the row it leaves
\* when it was charged once already, or to a deletion.
LEMMA OneCharged ==
    ASSUME Charged, failures \in Nat, failures' = failures + 1, NEW d,
           LeftBehind' \subseteq LeftBehind \cup {d}, TakenBack' \subseteq TakenBack \cup {d},
           Kept' \subseteq Kept \cup {d},
           \/ LeftBehind' \subseteq LeftBehind /\ (TakenBack' \subseteq TakenBack \/ Kept' \subseteq Kept)
           \/ d \in TakenBack /\ d \notin TakenBack' /\ Kept' \subseteq Kept
    PROVE  Charged'
<1>1. \A S, T : IsFiniteSet(S) /\ T \subseteq S \cup {d} =>
        /\ IsFiniteSet(T) /\ Cardinality(S) \in Nat /\ Cardinality(T) \in Nat
        /\ Cardinality(T) <= Cardinality(S) + 1
        /\ d \in S /\ d \notin T => Cardinality(T) <= Cardinality(S) - 1
  BY GainsOne
<1>2. \A S, T : IsFiniteSet(S) /\ T \subseteq S => Cardinality(T) <= Cardinality(S)
  BY FS_Subset
<1>3. /\ IsFiniteSet(LeftBehind') /\ IsFiniteSet(TakenBack') /\ IsFiniteSet(Kept')
      /\ Cardinality(LeftBehind) \in Nat /\ Cardinality(TakenBack) \in Nat /\ Cardinality(Kept) \in Nat
      /\ Cardinality(LeftBehind') \in Nat /\ Cardinality(TakenBack') \in Nat /\ Cardinality(Kept') \in Nat
      /\ Cardinality(LeftBehind') <= Cardinality(LeftBehind) + 1
      /\ Cardinality(TakenBack') <= Cardinality(TakenBack) + 1
      /\ Cardinality(Kept') <= Cardinality(Kept) + 1
      /\ d \in TakenBack /\ d \notin TakenBack' => Cardinality(TakenBack') <= Cardinality(TakenBack) - 1
      /\ LeftBehind' \subseteq LeftBehind => Cardinality(LeftBehind') <= Cardinality(LeftBehind)
      /\ TakenBack' \subseteq TakenBack => Cardinality(TakenBack') <= Cardinality(TakenBack)
      /\ Kept' \subseteq Kept => Cardinality(Kept') <= Cardinality(Kept)
  BY <1>1, <1>2 DEF Charged
<1>4. 2 * Cardinality(LeftBehind) + Cardinality(TakenBack) + Cardinality(Kept) <= failures
  BY DEF Charged
<1> HIDE DEF LeftBehind, TakenBack, Kept
<1>5. 2 * Cardinality(LeftBehind') + Cardinality(TakenBack') + Cardinality(Kept') <= failures'
  BY <1>3, <1>4
<1> QED BY <1>3, <1>5 DEF Charged

\* A step that concerns another document leaves this one's state alone.
Still(d) ==
    /\ upload'[d] = upload[d] /\ deletion'[d] = deletion[d]
    /\ d \in rows' <=> d \in rows

\* What a step of d may charge to it.
Billed(d) ==
    \/ /\ failures' = failures
       /\ d \in LeftBehind' => d \in LeftBehind
       /\ d \in TakenBack' => d \in TakenBack
       /\ d \in Kept' => d \in Kept
    \/ /\ failures' = failures + 1
       /\ d \in LeftBehind' => d \in LeftBehind
       /\ (d \in TakenBack' => d \in TakenBack) \/ (d \in Kept' => d \in Kept)
    \/ /\ failures' = failures + 1
       /\ d \in TakenBack /\ d \notin TakenBack'
       /\ d \in Kept' => d \in Kept

\* A step of one document that is billed for keeps the account.
LEMMA OneAccounted ==
    ASSUME Accounted, DocTypeOK', NEW d \in Docs,
           \A e \in Docs \ {d} : Still(e), Steady(d)', Billed(d)
    PROVE  Accounted'
<1>1. /\ failures \in Nat /\ failures' \in Nat /\ rows' \subseteq Docs
      /\ Charged /\ \A e \in Docs : Steady(e)
  BY DocumentAssumption DEF Accounted, DocTypeOK
<1>2. failures' >= failures BY <1>1 DEF Billed
<1>3. \A e \in Docs : Steady(e)'
  <2> SUFFICES ASSUME NEW e \in Docs \ {d} PROVE Steady(e)' OBVIOUS
  <2> QED BY <1>1, <1>2 DEF Steady, Still
<1>4. /\ LeftBehind' \subseteq LeftBehind \cup {d}
      /\ TakenBack' \subseteq TakenBack \cup {d}
      /\ Kept' \subseteq Kept \cup {d}
  BY <1>1 DEF LeftBehind, TakenBack, Kept, Still
<1>5. Charged'
  <2>1. CASE /\ failures' = failures
             /\ d \in LeftBehind' => d \in LeftBehind
             /\ d \in TakenBack' => d \in TakenBack
             /\ d \in Kept' => d \in Kept
    <3>1. LeftBehind' \subseteq LeftBehind /\ TakenBack' \subseteq TakenBack /\ Kept' \subseteq Kept
      BY <1>4, <2>1
    <3> QED BY <1>1, <1>2, <3>1, NobodyCharged
  <2>2. CASE /\ failures' = failures + 1
             /\ d \in LeftBehind' => d \in LeftBehind
             /\ (d \in TakenBack' => d \in TakenBack) \/ (d \in Kept' => d \in Kept)
    <3>1. LeftBehind' \subseteq LeftBehind /\ (TakenBack' \subseteq TakenBack \/ Kept' \subseteq Kept)
      BY <1>4, <2>2
    <3> QED BY <1>1, <1>4, <2>2, <3>1, OneCharged
  <2>3. CASE /\ failures' = failures + 1
             /\ d \in TakenBack /\ d \notin TakenBack'
             /\ d \in Kept' => d \in Kept
    <3>1. Kept' \subseteq Kept BY <1>4, <2>3
    <3> QED BY <1>1, <1>4, <2>3, <3>1, OneCharged
  <2> QED BY <2>1, <2>2, <2>3 DEF Billed
<1> QED BY <1>3, <1>5 DEF Accounted

\* Every step keeps the account ...
LEMMA AccountedStep == Accounted /\ DocTypeOK' /\ [Next]_vars => Accounted'
<1> SUFFICES ASSUME Accounted, DocTypeOK', [Next]_vars PROVE Accounted' OBVIOUS
<1> USE DEF storeVars, tableVars, cacheVars, readerVars
<1>0. /\ upload \in [Docs -> Uploading \cup {"new", "done", "failed", "lost"}]
      /\ deletion \in [Docs -> Deleting \cup {"new", "done", "failed", "lost"}]
      /\ rows \subseteq Docs /\ failures \in Nat
      /\ \A e \in Docs : Steady(e)
  BY DocumentAssumption DEF Accounted, DocTypeOK
<1>1. ASSUME NEW d \in Docs, UploadStep(d) PROVE Accounted'
  <2>1. \A e \in Docs \ {d} : Still(e)
    BY <1>0, <1>1 DEF UploadStep, Upload, PutObject, SaveRow, ExtractText, PutArtifact, EmbedBatch,
       EmbedEnds, BatchDone, UndoObject, UndoRow, RemoveRow, UploadGoes, Still
  <2>2. Steady(d) BY <1>0
  <2>3. Steady(d)'
    BY <1>0, <1>1, <2>2 DEF UploadStep, Upload, PutObject, SaveRow, ExtractText, PutArtifact, EmbedBatch,
       EmbedEnds, BatchDone, UndoObject, UndoRow, RemoveRow, UploadGoes, Steady
  <2>4. Billed(d)
    BY <1>0, <1>1 DEF UploadStep, Upload, PutObject, SaveRow, ExtractText, PutArtifact, EmbedBatch,
       EmbedEnds, BatchDone, UndoObject, UndoRow, RemoveRow, UploadGoes, Billed, LeftBehind, TakenBack,
       Kept, Undoing
  <2> QED BY <2>1, <2>3, <2>4, OneAccounted
<1>2. ASSUME NEW d \in Docs, DeletionStep(d) PROVE Accounted'
  <2>1. \A e \in Docs \ {d} : Still(e)
    BY <1>0, <1>2 DEF DeletionStep, Delete, DeleteObject, DeleteArtifacts, DeleteRow, RemoveRow,
       DeletionGoes, Still
  <2>2. Steady(d) BY <1>0
  <2>3. Steady(d)'
    BY <1>0, <1>2, <2>2 DEF DeletionStep, Delete, DeleteObject, DeleteArtifacts, DeleteRow, RemoveRow,
       DeletionGoes, Steady
  <2>4. Billed(d)
    BY <1>0, <1>2 DEF DeletionStep, Delete, DeleteObject, DeleteArtifacts, DeleteRow, RemoveRow,
       DeletionGoes, Billed, LeftBehind, TakenBack, Kept
  <2> QED BY <2>1, <2>3, <2>4, OneAccounted
<1>3. ASSUME NEW d \in Docs, UploadThrows(d) PROVE Accounted'
  <2>1. \A e \in Docs \ {d} : Still(e) BY <1>0, <1>3 DEF UploadThrows, Still
  <2>2. Steady(d) BY <1>0
  <2>3. /\ failures' = failures + 1 /\ UNCHANGED <<rows, deletion>>
        /\ upload[d] \in Uploading \ {"chunks"}
        /\ upload'[d] = CASE upload[d] \in {"put", "save"} \cup Undoing -> "failed"
                          [] upload[d] \in {"extract", "source", "text", "embed"} -> "undoObject"
                          [] upload[d] \in {"keys", "del"} -> "done"
    BY <1>0, <1>3 DEF UploadThrows, Fault
  <2>4. \/ upload[d] \in {"put", "save"} /\ upload'[d] = "failed"
        \/ upload[d] \in Undoing /\ upload'[d] = "failed"
        \/ upload[d] \in {"extract", "source", "text", "embed"} /\ upload'[d] = "undoObject"
        \/ upload[d] \in {"keys", "del"} /\ upload'[d] = "done"
    BY <2>3 DEF Uploading, Undoing
  <2>5. Steady(d)' BY <1>0, <2>2, <2>3, <2>4 DEF Steady
  <2>6. Billed(d)
    BY <1>0, <2>2, <2>3, <2>4 DEF Billed, LeftBehind, TakenBack, Kept, Undoing, Steady
  <2> QED BY <2>1, <2>5, <2>6, OneAccounted
<1>4. ASSUME NEW d \in Docs, DeletionThrows(d) PROVE Accounted'
  <2>1. \A e \in Docs \ {d} : Still(e) BY <1>0, <1>4 DEF DeletionThrows, Still
  <2>2. Steady(d) BY <1>0
  <2>3. /\ failures' = failures + 1 /\ UNCHANGED <<rows, upload>>
        /\ \/ deletion[d] \in {"object", "row"} /\ deletion'[d] = "failed"
           \/ deletion[d] = "artifacts" /\ deletion'[d] = "row"
           \/ deletion[d] \in {"keys", "del"} /\ deletion'[d] = "done"
    BY <1>0, <1>4 DEF DeletionThrows, Fault, Deleting
  <2>5. Steady(d)' BY <1>0, <2>2, <2>3 DEF Steady
  <2>6. Billed(d)
    BY <1>0, <2>3 DEF Billed, LeftBehind, TakenBack, Kept
  <2> QED BY <2>1, <2>5, <2>6, OneAccounted
<1>5. ASSUME NEW d \in Docs, FindKeys(d) \/ DeleteKeys(d) PROVE Accounted'
  <2>1. \A e \in Docs \ {d} : Still(e)
    BY <1>0, <1>5 DEF FindKeys, DeleteKeys, AfterKeys, UploadGoes, DeletionGoes, Still
  <2>2. Steady(d) BY <1>0
  <2>3. Steady(d)'
    BY <1>0, <1>5, <2>2 DEF FindKeys, DeleteKeys, AfterKeys, UploadGoes, DeletionGoes, Steady
  <2>4. Billed(d)
    BY <1>0, <1>5 DEF FindKeys, DeleteKeys, AfterKeys, UploadGoes, DeletionGoes, Billed, LeftBehind,
       TakenBack, Kept, Undoing
  <2> QED BY <2>1, <2>3, <2>4, OneAccounted
<1>6. ASSUME NEW d \in Docs, NEW i \in ChunkNumbers, ChunkStep(d, i) \/ ChunkFails(d, i)
      PROVE  Accounted'
  <2>1. \A e \in Docs \ {d} : Still(e)
    BY <1>0, <1>6 DEF ChunkStep, PutChunk, SaveChunk, SaveChunkRefused, ChunkFails, ChunkThrows, Still
  <2>2. Steady(d) BY <1>0
  <2>3. UNCHANGED <<rows, deletion>>
    BY <1>6 DEF ChunkStep, PutChunk, SaveChunk, SaveChunkRefused, ChunkFails, ChunkThrows
  <2>4. \/ upload'[d] = upload[d] /\ failures' \in {failures, failures + 1}
        \/ upload[d] = "chunks" /\ upload'[d] = "undoObject" /\ failures' = failures + 1
        \/ upload[d] = "chunks" /\ upload'[d] = "undoObject" /\ failures' = failures /\ d \notin rows
    BY <1>0, <1>6 DEF ChunkStep, PutChunk, SaveChunk, SaveChunkRefused, ChunkFails, ChunkThrows, Fault
  <2>5. Steady(d)' BY <1>0, <2>2, <2>3, <2>4 DEF Steady
  <2>6. Billed(d)
    BY <1>0, <2>3, <2>4 DEF Billed, LeftBehind, TakenBack, Kept, Undoing
  <2> QED BY <2>1, <2>5, <2>6, OneAccounted
<1>7. ASSUME UNCHANGED <<rows, upload, deletion, failures>> PROVE Accounted'
  <2>1. UNCHANGED <<LeftBehind, TakenBack, Kept>> BY <1>7 DEF LeftBehind, TakenBack, Kept
  <2>2. Charged' BY <1>7, <2>1 DEF Charged, Accounted
  <2> QED BY <1>0, <1>7, <2>2 DEF Accounted, Steady
<1>8. ASSUME NEW r \in Readers, ReadCache(r) \/ QueryRows(r) \/ SetCache(r) PROVE Accounted'
  BY <1>7, <1>8 DEF ReadCache, QueryRows, SetCache, handlerVars
<1>9. CASE ExpireCache BY <1>7, <1>9 DEF ExpireCache, handlerVars
<1>10. CASE Crash
  <2>1. /\ failures' = failures + 1 /\ rows' = rows
        /\ \A d \in Docs : /\ upload'[d] = upload[d] \/ (upload[d] \in Uploading /\ upload'[d] = "lost")
                           /\ deletion'[d] = deletion[d]
                              \/ (deletion[d] \in Deleting /\ deletion'[d] = "lost")
    BY <1>10 DEF Crash, Fault
  <2>2. \A d \in Docs : Steady(d)' BY <1>0, <2>1 DEF Steady, Deleting
  <2>3. LeftBehind' \subseteq LeftBehind /\ TakenBack' \subseteq TakenBack /\ Kept' \subseteq Kept
    BY <1>0, <2>1 DEF LeftBehind, TakenBack, Kept, Undoing
  <2>4. Charged' BY <1>0, <2>1, <2>3, NobodyCharged DEF Accounted
  <2> QED BY <2>2, <2>4 DEF Accounted
<1>11. CASE UNCHANGED vars BY <1>7, <1>11 DEF vars, handlerVars
<1> QED BY <1>1, <1>2, <1>3, <1>4, <1>5, <1>6, <1>8, <1>9, <1>10, <1>11 DEF Next

\* ... which starts at nothing ...
LEMMA AccountedInit == Init => Accounted
<1> SUFFICES ASSUME Init, DocTypeOK PROVE Accounted
  BY ProgressInit, InitTyped, TypesSplit DEF Progress
<1>1. LeftBehind = {} /\ TakenBack = {} /\ Kept = {}
  BY DEF Init, LeftBehind, TakenBack, Kept
<1>2. /\ IsFiniteSet(LeftBehind) /\ IsFiniteSet(TakenBack) /\ IsFiniteSet(Kept)
      /\ Cardinality(LeftBehind) = 0 /\ Cardinality(TakenBack) = 0 /\ Cardinality(Kept) = 0
  BY <1>1, FS_EmptySet
<1>3. Charged BY <1>2 DEF Charged, Init
<1> QED BY <1>3 DEF Accounted, Steady, Init

\* ... and pays for every row that is left behind ...
LEMMA AccountedGone == Accounted => FailedUploadGone
<1> SUFFICES ASSUME Accounted PROVE FailedUploadGone OBVIOUS
<1>1. /\ Cardinality(LeftBehind) \in Nat /\ Cardinality(TakenBack) \in Nat
      /\ Cardinality(Kept) \in Nat /\ failures \in Nat
      /\ 2 * Cardinality(LeftBehind) + Cardinality(TakenBack) + Cardinality(Kept) <= failures
  BY FS_CardinalityType, DocumentAssumption DEF Accounted, Charged, DocTypeOK
<1>2. 2 * Cardinality(LeftBehind) <= failures BY <1>1
<1> QED BY <1>2 DEF LeftBehind, FailedUploadGone

\* document.service.ts:248: the row of a failed upload stays only if taking it
\* back failed as well, whatever else is uploaded, deleted or crashes: two
\* failures for each such row.
THEOREM FailedUploadsGo == Spec => []FailedUploadGone
BY AccountedInit, AccountedStep, AccountedGone, DocumentTypeCorrect, PTL DEF Spec

--------------------------------------------------------------------------------
(* The download.                                                             *)

\* A document that is listed and whose object is missing is the leftover of a
\* failed upload or of a failed deletion, or somebody is at it.
LEMMA MissingIsLeft ==
    ASSUME Progress, Accounted, NEW d \in rows \ object,
           upload[d] \notin Undoing \cup {"lost"}, deletion[d] \notin Deleting \cup {"lost"}
    PROVE  d \in LeftBehind \cup Kept
<1>1. /\ d \in Docs /\ Steady(d)
      /\ upload[d] \in Uploading \cup {"new", "done", "failed", "lost"}
      /\ deletion[d] \in Deleting \cup {"new", "done", "failed", "lost"}
      /\ deletion[d] = "new" => Complete(d)
  BY DEF Accounted, DocTypeOK, Progress
<1>2. deletion[d] \in {"new", "failed"} BY <1>1 DEF Steady, Deleting
<1>3. CASE deletion[d] = "failed" BY <1>1, <1>3 DEF Kept
<1>4. CASE deletion[d] = "new"
  <2>1. upload[d] = "failed"
    BY <1>1, <1>4 DEF Complete, Steady, Uploading, Undoing, Vectorizing, Answered
  <2> QED BY <2>1 DEF LeftBehind
<1> QED BY <1>2, <1>3, <1>4

\* ... and for every row without its object.
LEMMA RowsDownloadableHere == Progress /\ Accounted => RowsDownloadable
<1> SUFFICES ASSUME Progress, Accounted PROVE RowsDownloadable OBVIOUS
<1> DEFINE missing == {d \in rows \ object :
                          /\ upload[d] \notin Undoing \cup {"lost"}
                          /\ deletion[d] \notin Deleting \cup {"lost"}}
<1>1. missing \subseteq LeftBehind \cup Kept BY MissingIsLeft
<1>2. /\ IsFiniteSet(LeftBehind) /\ IsFiniteSet(Kept) /\ IsFiniteSet(TakenBack)
      /\ 2 * Cardinality(LeftBehind) + Cardinality(TakenBack) + Cardinality(Kept) <= failures
      /\ failures \in Nat
  BY DocumentAssumption DEF Accounted, Charged, DocTypeOK
<1>3. /\ Cardinality(LeftBehind) \in Nat /\ Cardinality(Kept) \in Nat /\ Cardinality(TakenBack) \in Nat
  BY <1>2, FS_CardinalityType
<1>4. /\ IsFiniteSet(LeftBehind \cup Kept)
      /\ Cardinality(LeftBehind \cup Kept)
            = Cardinality(LeftBehind) + Cardinality(Kept) - Cardinality(LeftBehind \cap Kept)
      /\ Cardinality(LeftBehind \cap Kept) \in Nat /\ Cardinality(LeftBehind \cup Kept) \in Nat
  <2>1. IsFiniteSet(LeftBehind \cap Kept) BY <1>2, FS_Intersection
  <2>2. IsFiniteSet(LeftBehind \cup Kept) BY <1>2, FS_Union
  <2> QED BY <1>2, <2>1, <2>2, FS_Union, FS_CardinalityType
<1>5. Cardinality(missing) <= Cardinality(LeftBehind \cup Kept) /\ Cardinality(missing) \in Nat
  BY <1>1, <1>4, FS_Subset, FS_CardinalityType
<1>6. Cardinality(missing) <= failures
  <2> HIDE DEF missing
  <2> QED BY <1>2, <1>3, <1>4, <1>5
<1> QED BY <1>6 DEF RowsDownloadable

\* What excuses a download that fails without a failure.
Excused(d) == deletion[d] # "new" \/ upload[d] \in Undoing \cup {"failed"}

\* A row that was found had its object, and only those who take the document
\* away have removed it since.
Opened ==
    failures = 0 =>
        /\ download = "open" => \A d \in wanted : d \in object \/ Excused(d)
        /\ download = "broken" => \E d \in wanted : Excused(d)

ReadingInv == Progress /\ Accounted /\ DownloadTypeOK /\ Opened

\* A step beside the download takes no object without an excuse, and an excuse
\* stays one.
LEMMA ExcusesStay ==
    ASSUME Accounted, Next, failures' = 0, NEW d \in Docs
    PROVE  /\ Excused(d) => Excused(d)'
           /\ d \in object => d \in object' \/ Excused(d)'
<1> USE DEF storeVars, tableVars, cacheVars, handlerVars, readerVars
<1>0. /\ upload \in [Docs -> Uploading \cup {"new", "done", "failed", "lost"}]
      /\ deletion \in [Docs -> Deleting \cup {"new", "done", "failed", "lost"}]
      /\ failures \in Nat
  BY DocumentAssumption DEF Accounted, DocTypeOK
<1>1. ~Fault BY <1>0 DEF Fault
<1>2. ASSUME NEW e \in Docs, UploadStep(e)
      PROVE  /\ Excused(d) => Excused(d)'
             /\ d \in object => d \in object' \/ Excused(d)'
  BY <1>0, <1>2 DEF UploadStep, Upload, PutObject, SaveRow, ExtractText, PutArtifact, EmbedBatch,
     EmbedEnds, BatchDone, UndoObject, UndoRow, RemoveRow, UploadGoes, Excused, Undoing
<1>3. ASSUME NEW e \in Docs, DeletionStep(e)
      PROVE  /\ Excused(d) => Excused(d)'
             /\ d \in object => d \in object' \/ Excused(d)'
  BY <1>0, <1>3 DEF DeletionStep, Delete, DeleteObject, DeleteArtifacts, DeleteRow, RemoveRow,
     DeletionGoes, Excused
<1>4. ASSUME NEW e \in Docs, FindKeys(e) \/ DeleteKeys(e)
      PROVE  /\ Excused(d) => Excused(d)'
             /\ d \in object => d \in object' \/ Excused(d)'
  BY <1>0, <1>4 DEF FindKeys, DeleteKeys, AfterKeys, UploadGoes, DeletionGoes, Excused, Undoing
<1>5. ASSUME NEW e \in Docs, NEW i \in ChunkNumbers, ChunkStep(e, i)
      PROVE  /\ Excused(d) => Excused(d)'
             /\ d \in object => d \in object' \/ Excused(d)'
  BY <1>0, <1>5 DEF ChunkStep, PutChunk, SaveChunk, SaveChunkRefused, ChunkThrows, Excused, Undoing
<1>6. ASSUME NEW r \in Readers, ReadCache(r) \/ QueryRows(r) \/ SetCache(r)
      PROVE  /\ Excused(d) => Excused(d)'
             /\ d \in object => d \in object' \/ Excused(d)'
  BY <1>6 DEF ReadCache, QueryRows, SetCache, Excused
<1>7. ASSUME ExpireCache
      PROVE  /\ Excused(d) => Excused(d)'
             /\ d \in object => d \in object' \/ Excused(d)'
  BY <1>7 DEF ExpireCache, Excused
<1> QED
  BY <1>1, <1>2, <1>3, <1>4, <1>5, <1>6, <1>7
  DEF Next, UploadThrows, DeletionThrows, ChunkFails, Crash

\* Failures are never forgotten.
LEMMA NoFailureBefore ==
    ASSUME Accounted, Next, failures' = 0
    PROVE  failures = 0
<1>1. failures \in Nat BY DocumentAssumption DEF Accounted, DocTypeOK
<1>2. failures' = failures \/ failures' = failures + 1
  BY DEF Next, UploadStep, DeletionStep, ChunkStep, Upload, PutObject, SaveRow, ExtractText,
     PutArtifact, EmbedBatch, EmbedEnds, BatchDone, UndoObject, UndoRow, PutChunk, SaveChunk,
     SaveChunkRefused, Delete, DeleteObject, DeleteArtifacts, DeleteRow, FindKeys, DeleteKeys,
     ReadCache, QueryRows, SetCache, ExpireCache, UploadThrows, DeletionThrows, ChunkFails,
     Crash, Fault
<1> QED BY <1>1, <1>2

\* A step of the handlers and of the readers leaves the download as it is, a
\* crash may break it.
LEMMA BesideDownload ==
    ASSUME Accounted, DownloadTypeOK, Opened, Accounted', Next,
           \/ UNCHANGED downloadVars
           \/ Crash /\ download' \in {"broken", download} /\ wanted' = wanted
    PROVE  DownloadTypeOK' /\ Opened'
<1>1. DownloadTypeOK' BY DEF DownloadTypeOK, downloadVars
<1>2. CASE failures' = 0
  <2>1. ~Crash BY <1>2, DocumentAssumption DEF Crash, Fault, Accounted, DocTypeOK
  <2>2. wanted \subseteq Docs BY DEF DownloadTypeOK
  <2>3. UNCHANGED <<download, wanted>> BY <2>1 DEF downloadVars
  <2>4. \A d \in wanted : /\ Excused(d) => Excused(d)'
                          /\ d \in object => d \in object' \/ Excused(d)'
    BY <1>2, <2>2, ExcusesStay
  <2>5. ASSUME download' = "open", NEW d \in wanted PROVE d \in object' \/ Excused(d)'
    <3>1. failures = 0 BY <1>2, NoFailureBefore
    <3> QED BY <2>3, <2>4, <2>5, <3>1 DEF Opened
  <2>6. ASSUME download' = "broken" PROVE \E d \in wanted : Excused(d)'
    <3>1. failures = 0 BY <1>2, NoFailureBefore
    <3>2. PICK d \in wanted : Excused(d) BY <2>3, <2>6, <3>1 DEF Opened
    <3> QED BY <2>4, <3>2
  <2> QED BY <1>1, <2>3, <2>5, <2>6 DEF Opened
<1>3. CASE failures' # 0 BY <1>1, <1>3 DEF Opened
<1> QED BY <1>1, <1>2, <1>3

\* DownloadThrows is the one step that no handler and no reader takes.
LEMMA ReadingStep == ReadingInv /\ [ReadingNext]_readingVars => ReadingInv'
<1> SUFFICES ASSUME ReadingInv, [ReadingNext]_readingVars PROVE ReadingInv' OBVIOUS
<1> USE DEF ReadingInv
<1>0. DocTypeOK /\ Shape /\ StoreTyped /\ ArtifactsTyped BY TypesSplit DEF Accounted
<1>1. ASSUME [Next]_vars PROVE Progress' /\ Accounted'
  <2>1. Progress' /\ Shape' BY <1>1, ProgressStep DEF Progress
  <2>2. StoreTyped' /\ ArtifactsTyped' BY <1>0, <1>1, ArtifactsStep, StoreTypesStep
  <2>3. DocTypeOK'
    BY <2>1, <2>2 DEF DocTypeOK, Shape, StoreTyped, ArtifactsTyped, Artifacts
  <2> QED BY <1>1, <2>1, <2>3, AccountedStep
<1>2. ASSUME UNCHANGED readingVars PROVE ReadingInv'
  <2>1. UNCHANGED vars /\ UNCHANGED downloadVars BY <1>2 DEF readingVars
  <2>2. Progress' /\ Accounted' BY <1>1, <2>1
  <2> QED
    BY <2>1, <2>2 DEF DownloadTypeOK, Opened, Excused, vars, storeVars, tableVars, handlerVars, downloadVars
<1>3. ASSUME Next, UNCHANGED downloadVars PROVE ReadingInv'
  BY <1>1, <1>3, BesideDownload
<1>4. CASE CrashInDownload
  <2>1. Next BY <1>4 DEF CrashInDownload, Next
  <2> QED BY <1>1, <1>4, <2>1, BesideDownload DEF CrashInDownload
<1>5. ASSUME NEW d \in Docs, FindDocument(d) PROVE ReadingInv'
  <2>1. UNCHANGED vars /\ wanted' = {d} /\ download' = IF d \in rows THEN "open" ELSE "missing"
    BY <1>5 DEF FindDocument
  <2>2. Progress' /\ Accounted' BY <1>1, <2>1
  <2>3. Cardinality(wanted') = 1 BY <2>1, FS_Singleton
  <2>4. Cardinality(wanted') <= 1 BY <2>3
  <2>5. DownloadTypeOK' BY <2>1, <2>4 DEF DownloadTypeOK
  <2>6. ASSUME failures = 0, d \in rows PROVE d \in object \/ Excused(d)
    <3>1. Steady(d) /\ (deletion[d] = "new" => Complete(d))
          /\ upload[d] \in Uploading \cup {"new", "done", "failed", "lost"}
      BY <1>0 DEF Accounted, Progress, DocTypeOK
    <3> QED BY <2>6, <3>1 DEF Steady, Complete, Excused, Uploading, Undoing, Vectorizing, Answered
  <2>7. Opened'
    BY <2>1, <2>6 DEF Opened, Excused, vars, storeVars, tableVars, handlerVars
  <2> QED BY <2>2, <2>5, <2>7
<1>6. ASSUME NEW d \in Docs, DownloadThrows(d) PROVE ReadingInv'
  <2>1. /\ UNCHANGED <<storeVars, tableVars, cacheVars, handlerVars, readerVars>>
        /\ wanted' = {d} /\ download' = "broken" /\ failures' = failures + 1 /\ failures < MaxFailures
    BY <1>6 DEF DownloadThrows, Fault
  <2>2. Progress' BY <2>1, NoneMoves
  <2>3. failures \in Nat /\ failures' \in 0..MaxFailures /\ MaxFailures \in Nat
    BY <1>0, <2>1, DocumentAssumption DEF StoreTyped
  <2>4. DocTypeOK' BY <1>0, <2>1, <2>3 DEF DocTypeOK, storeVars, tableVars, cacheVars, handlerVars, readerVars
  <2>5. UNCHANGED <<rows, upload, deletion>> BY <2>1 DEF tableVars, handlerVars
  <2>6. UNCHANGED <<LeftBehind, TakenBack, Kept>> BY <2>5 DEF LeftBehind, TakenBack, Kept
  <2>7. Charged' BY <2>1, <2>3, <2>6, NobodyCharged DEF Accounted
  <2>8. \A e \in Docs : Steady(e)' BY <2>1, <2>3, <2>5 DEF Accounted, Steady
  <2>9. Cardinality(wanted') = 1 BY <2>1, FS_Singleton
  <2>10. Cardinality(wanted') <= 1 BY <2>9
  <2>11. DownloadTypeOK' BY <2>1, <2>10 DEF DownloadTypeOK
  <2>12. Opened' BY <2>1, <2>3 DEF Opened
  <2> QED BY <2>2, <2>4, <2>7, <2>8, <2>11, <2>12 DEF Accounted
<1>7. CASE OpenObject
  <2>1. UNCHANGED <<vars, wanted>> /\ download = "open"
        /\ download' = IF wanted \subseteq object THEN "served" ELSE "broken"
    BY <1>7 DEF OpenObject
  <2>2. Progress' /\ Accounted' BY <1>1, <2>1
  <2>3. DownloadTypeOK' BY <2>1 DEF DownloadTypeOK
  <2>4. Opened'
    BY <2>1 DEF Opened, Excused, vars, storeVars, tableVars, handlerVars
  <2> QED BY <2>2, <2>3, <2>4
<1>8. ASSUME NEW d \in Docs, HandlerStep(d) PROVE Next
  BY <1>8 DEF HandlerStep, Next
<1>9. ASSUME NEW r \in Readers, ReaderStep(r) PROVE Next
  BY <1>9 DEF ReaderStep, Next
<1>10. ExpireCache => Next BY DEF Next
<1> QED BY <1>2, <1>3, <1>4, <1>5, <1>6, <1>7, <1>8, <1>9, <1>10 DEF ReadingNext

\* document.service.ts (streamForDownload): a listed document can be downloaded
\* but for one document per failure, and without failures a download that found
\* its row breaks only if a deletion or a failed upload took its document away,
\* for every number of documents and handlers; the answered uploads are complete
\* and the failed ones gone beside it as well.
THEOREM DownloadsServedHolds == ReadingSpec => [](DownloadsServed /\ UploadedComplete /\ FailedUploadGone)
<1>1. ReadingInit => ReadingInv
  <2> SUFFICES ASSUME ReadingInit PROVE ReadingInv OBVIOUS
  <2>1. Init /\ wanted = {} /\ download = "new" BY DEF ReadingInit
  <2>2. Progress BY <2>1, ProgressInit
  <2>3. Accounted BY <2>1, AccountedInit
  <2>4. Cardinality(wanted) = 0 BY <2>1, FS_EmptySet
  <2>5. Cardinality(wanted) <= 1 BY <2>4
  <2>6. DownloadTypeOK BY <2>1, <2>5 DEF DownloadTypeOK
  <2>7. Opened BY <2>1 DEF Opened
  <2> QED BY <2>2, <2>3, <2>6, <2>7 DEF ReadingInv
<1>2. ReadingInv => DownloadsServed /\ UploadedComplete /\ FailedUploadGone
  <2>1. ReadingInv => UploadedComplete BY ProgressComplete DEF ReadingInv
  <2>2. ReadingInv => FailedUploadGone BY AccountedGone DEF ReadingInv
  <2>3. ReadingInv => DownloadsServed
    BY RowsDownloadableHere DEF ReadingInv, DownloadsServed, Opened, Excused
  <2> QED BY <2>1, <2>2, <2>3
<1> QED BY <1>1, <1>2, ReadingStep, PTL DEF ReadingSpec

--------------------------------------------------------------------------------
(* The memory of a replica.                                                  *)

\* No session outlives the timer of the set: it was set by the last login, and
\* all sessions have the same lifetime.
Bounded ==
    /\ \A t \in Tokens : store[t] <= now + TokenTtl
    /\ \A due \in expiry, t \in Tokens : store[t] <= due

FallbackInv == FallbackTypeOK /\ SessionsListed /\ Bounded

\* At first nobody is listed.
LEMMA InvInit == FallbackInit => FallbackInv
  BY FallbackAssumption DEF FallbackInit, FallbackInv, FallbackTypeOK, SessionsListed, Bounded,
     Keys, Times

\* Every step keeps the invariant.
LEMMA InvStep == FallbackInv /\ [FallbackNext]_fallbackVars => FallbackInv'
<1> SUFFICES ASSUME FallbackInv, [FallbackNext]_fallbackVars PROVE FallbackInv'
  OBVIOUS
<1> USE FallbackAssumption DEF FallbackInv, Keys, Times
<1>1. ASSUME NEW t \in Tokens, Issue(t) PROVE FallbackInv'
  <2>0. /\ now' = now /\ listed' = listed \cup {t} /\ issued' = issued \cup {t}
        /\ expiry' = {now + TokenTtl}
        /\ \/ /\ store' = [store EXCEPT ![t] = now + TokenTtl]
              /\ timers' = timers \cup {<<t, now + TokenTtl>>}
           \/ store' = store /\ timers' = timers
    BY <1>1 DEF Issue, Set, Expire, Ttl
  <2>1. FallbackTypeOK'
    BY <2>0 DEF FallbackTypeOK
  <2>2. SessionsListed'
    BY <2>0 DEF FallbackTypeOK, SessionsListed
  <2>3. Bounded'
    BY <2>0 DEF FallbackTypeOK, Bounded
  <2> QED BY <2>1, <2>2, <2>3
<1>2. ASSUME NEW t \in Tokens, Logout(t) PROVE FallbackInv'
  BY <1>2 DEF Logout, FallbackTypeOK, SessionsListed, Bounded
<1>3. ASSUME NEW k \in Lists, List(k) PROVE FallbackInv'
  <2>0. /\ UNCHANGED <<now, listed, expiry, issued>>
        /\ store' = [store EXCEPT ![k] = now + ListTtl]
        /\ timers' = timers \cup {<<k, now + ListTtl>>}
        /\ k \notin Tokens
    BY <1>3 DEF List, Set, Ttl
  <2>1. FallbackTypeOK'
    BY <2>0 DEF FallbackTypeOK
  <2>2. SessionsListed'
    BY <2>0 DEF FallbackTypeOK, SessionsListed
  <2>3. Bounded'
    BY <2>0 DEF FallbackTypeOK, Bounded
  <2> QED BY <2>1, <2>2, <2>3
<1>4. ASSUME NEW k \in Keys, Forget(k) PROVE FallbackInv'
  BY <1>4 DEF Forget, FallbackTypeOK, SessionsListed, Bounded
<1>5. ASSUME NEW k \in Keys, NEW due \in Times, TimerFires(k, due) PROVE FallbackInv'
  <2>0. /\ UNCHANGED <<now, listed, expiry, issued>>
        /\ due <= now /\ timers' = timers \ {<<k, due>>}
        /\ store' = [store EXCEPT ![k] = IF store[k] <= now THEN 0 ELSE store[k]]
    BY <1>5 DEF TimerFires
  <2>1. FallbackTypeOK'
    BY <2>0 DEF FallbackTypeOK
  <2>2. SessionsListed'
    BY <2>0 DEF FallbackTypeOK, SessionsListed
  <2>3. Bounded'
    BY <2>0 DEF FallbackTypeOK, Bounded
  <2> QED BY <2>1, <2>2, <2>3
<1>6. ASSUME NEW due \in Times, ExpiryFires(due) PROVE FallbackInv'
  BY <1>6 DEF ExpiryFires, FallbackTypeOK, SessionsListed, Bounded
<1>7. CASE Invalidate
  BY <1>7 DEF Invalidate, FallbackTypeOK, SessionsListed, Bounded
<1>8. CASE TimePasses
  BY <1>8 DEF TimePasses, FallbackTypeOK, SessionsListed, Bounded
<1>9. CASE UNCHANGED fallbackVars
  BY <1>9 DEF fallbackVars, FallbackTypeOK, SessionsListed, Bounded
<1> QED
  BY <1>1, <1>2, <1>3, <1>4, <1>5, <1>6, <1>7, <1>8, <1>9 DEF FallbackNext

\* jwt.strategy.ts:79: a living session is listed among those of its user,
\* although the timer that clears the set does not look at it.
THEOREM SessionsStayListed == FallbackSpec => []SessionsListed
<1>1. FallbackInv => SessionsListed
  BY DEF FallbackInv
<1> QED BY InvInit, InvStep, <1>1, PTL DEF FallbackSpec

--------------------------------------------------------------------------------
(* The .env files.                                                           *)

\* The document gives no setting twice, and within its section.
DocumentOK ==
    /\ document \in Seq(Given) /\ Len(document) <= MaxSettings
    /\ IsInjective(document) /\ WellNested(document)

\* No file has what is not its application's.
FilesOwn ==
    /\ DOMAIN file = Range(Apps)
    /\ \A app \in Range(Apps) : \A v \in DOMAIN file[app] : Has(app, v)

\* While generate-envs runs and the document rests, the files it has written are
\* those of the document.
Current ==
    /\ turn \in 0..(Len(Apps) + 1)
    /\ ~stale => \A i \in DOMAIN Apps : i < turn => file[Apps[i]] = Generated(Apps[i])

EnvInv == DocumentOK /\ FilesOwn /\ Current /\ edits \in 0..MaxEdits /\ stale \in BOOLEAN

LEMMA AppsAre ==
    /\ Len(Apps) = 3 /\ DOMAIN Apps = 1..3 /\ Range(Apps) = {"frontend", "backend", "worker"}
    /\ Apps[1] = "frontend" /\ Apps[2] = "backend" /\ Apps[3] = "worker"
    /\ \A i \in 1..3 : Apps[i] \in Range(Apps)
    /\ \A app \in Range(Apps) : \E i \in 1..3 : app = Apps[i]
<1>1. Len(Apps) = 3 /\ DOMAIN Apps = 1..3 BY DEF Apps
<1>2. Apps[1] = "frontend" /\ Apps[2] = "backend" /\ Apps[3] = "worker" BY DEF Apps
<1>3. Range(Apps) = {Apps[i] : i \in 1..3} BY <1>1 DEF Range
<1>4. 1..3 = {1, 2, 3} OBVIOUS
<1> QED BY <1>1, <1>2, <1>3, <1>4

\* A setting given in between, or taken out, leaves the others in their order.
LEMMA Inserted ==
    ASSUME NEW S, NEW d \in Seq(S), NEW s \in S, NEW i \in 1..(Len(d) + 1)
    PROVE  /\ InsertAt(d, i, s) \in Seq(S) /\ Len(InsertAt(d, i, s)) = Len(d) + 1
           /\ \A k \in 1..(Len(d) + 1) :
                 InsertAt(d, i, s)[k] = IF k < i THEN d[k] ELSE IF k = i THEN s ELSE d[k - 1]
<1> DEFINE a == SubSeq(d, 1, i - 1)
           c == SubSeq(d, i, Len(d))
<1>1. Len(d) \in Nat /\ \A k \in 1..Len(d) : d[k] \in S BY LenProperties, ElementOfSeq
<1>2. /\ a \in Seq(S) /\ Len(a) = i - 1 /\ \A k \in 1..(i - 1) : a[k] = d[k]
  BY <1>1, SubSeqProperties
<1>3. /\ c \in Seq(S) /\ Len(c) = Len(d) - i + 1
      /\ \A k \in 1..(Len(d) - i + 1) : c[k] = d[i + k - 1]
  BY <1>1, SubSeqProperties
<1>4. <<s>> \in Seq(S) /\ Len(<<s>>) = 1 /\ <<s>>[1] = s OBVIOUS
<1> DEFINE b == a \o <<s>>
<1> HIDE DEF a, c
<1>5. /\ b \in Seq(S) /\ Len(b) = i
      /\ \A k \in 1..i : b[k] = IF k <= i - 1 THEN a[k] ELSE <<s>>[k - (i - 1)]
  BY <1>1, <1>2, <1>4, ConcatProperties
<1> HIDE DEF b
<1>6. /\ b \o c \in Seq(S) /\ Len(b \o c) = Len(d) + 1
      /\ \A k \in 1..(Len(d) + 1) : (b \o c)[k] = IF k <= i THEN b[k] ELSE c[k - i]
  BY <1>1, <1>3, <1>5, ConcatProperties
<1>7. InsertAt(d, i, s) = b \o c BY DEF InsertAt, a, b, c
<1>8. ASSUME NEW k \in 1..(Len(d) + 1)
      PROVE  (b \o c)[k] = IF k < i THEN d[k] ELSE IF k = i THEN s ELSE d[k - 1]
  <2>1. CASE k < i BY <1>1, <1>2, <1>5, <1>6, <2>1
  <2>2. CASE k = i
    <3>1. k - (i - 1) = 1 /\ ~(k <= i - 1) BY <1>1, <2>2
    <3> QED BY <1>1, <1>4, <1>5, <1>6, <2>2, <3>1
  <2>3. CASE k > i
    <3>1. k - i \in 1..(Len(d) - i + 1) /\ i + (k - i) - 1 = k - 1 /\ ~(k <= i) BY <1>1, <2>3
    <3>2. (b \o c)[k] = c[k - i] BY <1>6, <3>1
    <3>3. c[k - i] = d[i + (k - i) - 1] BY <1>3, <3>1
    <3> QED BY <1>1, <2>3, <3>1, <3>2, <3>3
  <2>4. i \in Int /\ k \in Int BY <1>1
  <2>5. k < i \/ k = i \/ k > i BY <2>4
  <2> QED BY <2>1, <2>2, <2>3, <2>5
<1> QED BY <1>6, <1>7, <1>8

LEMMA Removed ==
    ASSUME NEW S, NEW d \in Seq(S), NEW i \in 1..Len(d)
    PROVE  /\ RemoveAt(d, i) \in Seq(S) /\ Len(RemoveAt(d, i)) = Len(d) - 1
           /\ \A k \in 1..(Len(d) - 1) : RemoveAt(d, i)[k] = IF k < i THEN d[k] ELSE d[k + 1]
<1> DEFINE a == SubSeq(d, 1, i - 1)
           c == SubSeq(d, i + 1, Len(d))
<1>1. Len(d) \in Nat /\ \A k \in 1..Len(d) : d[k] \in S BY LenProperties, ElementOfSeq
<1>2. /\ a \in Seq(S) /\ Len(a) = i - 1 /\ \A k \in 1..(i - 1) : a[k] = d[k]
  BY <1>1, SubSeqProperties
<1>3. /\ c \in Seq(S) /\ Len(c) = Len(d) - i
      /\ \A k \in 1..(Len(d) - i) : c[k] = d[i + k]
  BY <1>1, SubSeqProperties
<1> HIDE DEF a, c
<1>4. /\ a \o c \in Seq(S) /\ Len(a \o c) = Len(d) - 1
      /\ \A k \in 1..(Len(d) - 1) : (a \o c)[k] = IF k <= i - 1 THEN a[k] ELSE c[k - (i - 1)]
  <2>1. /\ a \o c \in Seq(S) /\ Len(a \o c) = Len(a) + Len(c)
        /\ \A k \in 1..(Len(a) + Len(c)) :
              (a \o c)[k] = IF k <= Len(a) THEN a[k] ELSE c[k - Len(a)]
    BY <1>2, <1>3, ConcatProperties
  <2>2. Len(a) + Len(c) = Len(d) - 1 BY <1>1, <1>2, <1>3
  <2> QED BY <1>2, <2>1, <2>2
<1>5. RemoveAt(d, i) = a \o c BY DEF RemoveAt, a, c
<1>6. ASSUME NEW k \in 1..(Len(d) - 1)
      PROVE  (a \o c)[k] = IF k < i THEN d[k] ELSE d[k + 1]
  <2>1. CASE k < i BY <1>1, <1>2, <1>4, <2>1
  <2>2. CASE k >= i
    <3>1. k - (i - 1) \in 1..(Len(d) - i) /\ i + (k - (i - 1)) = k + 1 /\ ~(k <= i - 1)
      BY <1>1, <2>2
    <3>2. (a \o c)[k] = c[k - (i - 1)] BY <1>4, <3>1
    <3>3. c[k - (i - 1)] = d[i + (k - (i - 1))] BY <1>3, <3>1
    <3> QED BY <1>1, <2>2, <3>1, <3>2, <3>3
  <2>3. i \in Int /\ k \in Int BY <1>1
  <2>4. k < i \/ k >= i BY <2>3
  <2> QED BY <2>1, <2>2, <2>4
<1> QED BY <1>4, <1>5, <1>6

\* What a change of config.yaml leaves is a document.
LEMMA GiveKeeps ==
    ASSUME DocumentOK, NEW s \in Given, NEW i, Give(s, i)
    PROVE  DocumentOK'
<1>1. /\ document \in Seq(Given) /\ s \notin Range(document) /\ i \in 1..(Len(document) + 1)
      /\ document' = InsertAt(document, i, s) /\ WellNested(document') /\ Len(document) < MaxSettings
      /\ Len(document) \in Nat /\ MaxSettings \in Nat
  BY LenProperties, EnvAssumption DEF DocumentOK, Give, Edit
<1>2. /\ document' \in Seq(Given) /\ Len(document') = Len(document) + 1
      /\ \A k \in 1..(Len(document) + 1) :
            document'[k] = IF k < i THEN document[k] ELSE IF k = i THEN s ELSE document[k - 1]
  <2>1. \A d \in Seq(Given) : \A k \in 1..(Len(d) + 1) :
           LET e == InsertAt(d, k, s) IN
           /\ e \in Seq(Given) /\ Len(e) = Len(d) + 1
           /\ \A n \in 1..(Len(d) + 1) :
                 e[n] = IF n < k THEN d[n] ELSE IF n = k THEN s ELSE d[n - 1]
    BY Inserted
  <2> QED BY <1>1, <2>1
<1>3. DOMAIN document = 1..Len(document) /\ DOMAIN document' = 1..(Len(document) + 1)
  BY <1>1, <1>2, LenProperties
<1>4. \A k \in 1..Len(document) : document[k] # s BY <1>1, <1>3 DEF Range
<1>5. \A j, k \in 1..Len(document) : document[j] = document[k] => j = k
  BY <1>3 DEF DocumentOK, IsInjective
<1>6. ASSUME NEW j \in 1..(Len(document) + 1), NEW k \in 1..(Len(document) + 1),
             document'[j] = document'[k]
      PROVE  j = k
  <2> DEFINE o(n) == IF n < i THEN n ELSE n - 1
  <2>1. \A n \in 1..(Len(document) + 1) :
           n # i => o(n) \in 1..Len(document) /\ document'[n] = document[o(n)]
    BY <1>1, <1>2
  <2>2. document'[i] = s BY <1>1, <1>2
  <2>3. CASE j = i \/ k = i BY <1>4, <1>6, <2>1, <2>2, <2>3
  <2>4. CASE j # i /\ k # i
    <3>1. o(j) = o(k) BY <1>5, <1>6, <2>1, <2>4
    <3> QED BY <1>1, <2>4, <3>1
  <2> QED BY <2>3, <2>4
<1>7. IsInjective(document') BY <1>3, <1>6 DEF IsInjective
<1> QED BY <1>1, <1>2, <1>7 DEF DocumentOK

LEMMA WithdrawKeeps ==
    ASSUME DocumentOK, NEW i, Withdraw(i)
    PROVE  DocumentOK'
<1>1. /\ document \in Seq(Given) /\ DOMAIN document = 1..Len(document) /\ i \in 1..Len(document)
      /\ document' = RemoveAt(document, i) /\ WellNested(document') /\ Len(document) <= MaxSettings
      /\ Len(document) \in Nat /\ MaxSettings \in Nat
  BY LenProperties, EnvAssumption DEF DocumentOK, Withdraw, Edit
<1>2. /\ document' \in Seq(Given) /\ Len(document') = Len(document) - 1
      /\ \A k \in 1..(Len(document) - 1) :
            document'[k] = IF k < i THEN document[k] ELSE document[k + 1]
  BY <1>1, Removed
<1>3. DOMAIN document' = 1..(Len(document) - 1) BY <1>2, LenProperties
<1>5. \A j, k \in 1..Len(document) : document[j] = document[k] => j = k
  BY <1>1 DEF DocumentOK, IsInjective
<1>6. ASSUME NEW j \in 1..(Len(document) - 1), NEW k \in 1..(Len(document) - 1),
             document'[j] = document'[k]
      PROVE  j = k
  <2> DEFINE o(n) == IF n < i THEN n ELSE n + 1
  <2>1. ASSUME NEW n \in 1..(Len(document) - 1)
        PROVE  o(n) \in 1..Len(document) /\ document'[n] = document[o(n)]
    <3>1. o(n) \in 1..Len(document) BY <1>1
    <3>2. document'[n] = IF n < i THEN document[n] ELSE document[n + 1] BY <1>2
    <3> QED BY <3>1, <3>2
  <2>2. o(j) = o(k) BY <1>5, <1>6, <2>1
  <2> QED BY <1>1, <2>2
<1>7. IsInjective(document') BY <1>3, <1>6 DEF IsInjective
<1> QED BY <1>1, <1>2, <1>7 DEF DocumentOK

\* A file has what is its application's, and of the variables the merged ones.
LEMMA GeneratedHas ==
    \A app : /\ \A v \in DOMAIN Generated(app) : Has(app, v) /\ v \in DOMAIN Validated
             /\ \A v \in DOMAIN Generated(app) : Generated(app)[v] = Validated[v]
BY DEF Generated, Restrict

LEMMA GeneratedSame ==
    ASSUME document' = document
    PROVE  \A app : Generated(app)' = Generated(app)
BY DEF Generated, Validated, Merged

LEMMA EnvStep == EnvInv /\ [EnvNext]_envVars => EnvInv'
<1> SUFFICES ASSUME EnvInv, [EnvNext]_envVars PROVE EnvInv'
  OBVIOUS
<1>0. turn \in 0..4 /\ edits \in 0..MaxEdits /\ MaxEdits \in Nat
  BY AppsAre, EnvAssumption DEF EnvInv, Current
<1>1. ASSUME NEW d, Edit(d), DocumentOK' PROVE EnvInv'
  BY <1>0, <1>1 DEF Edit, EnvInv, FilesOwn, Current
<1>2. ASSUME NEW s \in Given, NEW i, Give(s, i) PROVE EnvInv'
  <2>1. DocumentOK' BY <1>2, GiveKeeps DEF EnvInv
  <2> QED BY <1>1, <1>2, <2>1 DEF Give
<1>3. ASSUME NEW i, Withdraw(i) PROVE EnvInv'
  <2>1. DocumentOK' BY <1>3, WithdrawKeeps DEF EnvInv
  <2> QED BY <1>1, <1>3, <2>1 DEF Withdraw
<1>4. ASSUME UNCHANGED <<document, file, edits>>, turn' \in {0, 1}, stale' \in BOOLEAN
      PROVE  EnvInv'
  BY <1>4, AppsAre DEF EnvInv, DocumentOK, FilesOwn, Current
<1>5. CASE GenerateEnvs \/ InvalidConfiguration \/ Stop
  BY <1>4, <1>5 DEF GenerateEnvs, InvalidConfiguration, Stop, EnvInv
<1>6. ASSUME NEW app \in Range(Apps), UNCHANGED <<document, edits, stale>>,
             file' = [file EXCEPT ![app] = Generated(app)], turn' \in 0..4,
             \A i \in 1..3 : i < turn' => i < turn \/ Apps[i] = app
      PROVE  EnvInv'
  <2>1. \A a : Generated(a)' = Generated(a) BY <1>6, GeneratedSame
  <2>2. FilesOwn'
    <3>1. DOMAIN file' = Range(Apps) BY <1>6 DEF EnvInv, FilesOwn
    <3>2. \A a \in Range(Apps) : file'[a] = IF a = app THEN Generated(app) ELSE file[a]
      BY <1>6 DEF EnvInv, FilesOwn
    <3>3. \A a \in Range(Apps) : \A v \in DOMAIN file'[a] : Has(a, v)
      BY <3>2, GeneratedHas DEF EnvInv, FilesOwn
    <3> QED BY <3>1, <3>3 DEF FilesOwn
  <2>3. Current'
    <3>1. \A i \in 1..3 : i < turn' /\ ~stale' => file'[Apps[i]] = Generated(Apps[i])
      BY <1>6, AppsAre DEF EnvInv, FilesOwn, Current
    <3> QED BY <1>6, <2>1, <3>1, AppsAre DEF Current
  <2> QED BY <1>6, <2>2, <2>3 DEF EnvInv, DocumentOK
<1>7. CASE Generate
  <2>1. turn \in 1..3 /\ turn' = turn + 1 BY <1>7, AppsAre DEF Generate
  <2>2. Apps[turn] \in Range(Apps) BY <2>1, AppsAre
  <2>3. \A i \in 1..3 : i < turn' => i < turn \/ Apps[i] = Apps[turn] BY <2>1
  <2>4. turn' \in 0..4 BY <2>1
  <2> QED BY <1>6, <1>7, <2>2, <2>3, <2>4 DEF Generate
<1>8. CASE GenerateFrontend
  BY <1>0, <1>6, <1>8, AppsAre DEF GenerateFrontend
<1>9. CASE UNCHANGED envVars
  <2>1. \A a : Generated(a)' = Generated(a) BY <1>9, GeneratedSame DEF envVars
  <2> QED BY <1>9, <2>1 DEF envVars, EnvInv, DocumentOK, FilesOwn, Current
<1> QED BY <1>2, <1>3, <1>5, <1>7, <1>8, <1>9 DEF EnvNext

LEMMA EnvStart == EnvInit => EnvInv
<1> SUFFICES ASSUME EnvInit PROVE EnvInv
  OBVIOUS
<1>1. PICK m \in 0..(MaxSettings - 1) : document \in [1..m -> Given]
  BY DEF EnvInit, SeqOf
<1>2. document \in Seq(Given) /\ Len(document) = m
  BY <1>1, EnvAssumption
<1>3. DocumentOK BY <1>1, <1>2, EnvAssumption DEF EnvInit, DocumentOK
<1>4. FilesOwn BY DEF EnvInit, FilesOwn, None
<1>5. Current BY AppsAre DEF EnvInit, Current
<1>6. edits = 0 /\ stale = FALSE BY DEF EnvInit
<1>7. MaxEdits \in Nat BY EnvAssumption
<1>8. edits \in 0..MaxEdits BY <1>6, <1>7
<1>9. stale \in BOOLEAN BY <1>6
<1> QED BY <1>3, <1>4, <1>5, <1>8, <1>9 DEF EnvInv

LEMMA EnvInvHolds == EnvSpec => []EnvInv
BY EnvStart, EnvStep, PTL DEF EnvSpec

LEMMA EnvInvTypes == EnvInv => EnvTypeOK
<1> SUFFICES ASSUME EnvInv PROVE EnvTypeOK
  OBVIOUS
<1>1. Range(document) \subseteq Given BY ElementOfSeq, LenProperties DEF EnvInv, DocumentOK, Range
<1> QED BY <1>1 DEF EnvInv, DocumentOK, FilesOwn, Current, EnvTypeOK

\* The types of the .env files.
THEOREM EnvTypeCorrect == EnvSpec => []EnvTypeOK
BY EnvInvHolds, EnvInvTypes, PTL

LEMMA StopgapsAre ==
    ASSUME NEW g \in Stopgaps
    PROVE  /\ g[1] # g[2] /\ g[1][1] = g[2][1]
           /\ g[3] \in Variables(g[2])[1] /\ g[3] \notin Variables(g[1])[1]
           /\ Value(g[2], g[3]) = g[2]
           /\ g[3] \notin {"SERVER_RATE_LIMIT_ENABLED", "DATABASE_PGVECTOR_ENABLED"}
<1>1. CASE g = <<<<"frontend", "api_url">>, <<"frontend", "next_public_api_url">>, "NEXT_PUBLIC_API_URL">>
  <2>1. /\ Variables(g[1]) = <<{"API_URL"}, {"NEXT_PUBLIC_API_URL"}>>
        /\ Variables(g[2]) = <<{"NEXT_PUBLIC_API_URL"}, {}>>
    BY <1>1 DEF Variables, Frontend
  <2> QED BY <1>1, <2>1 DEF Value
<1>2. CASE g = <<<<"email_smtp", "from">>, <<"email_smtp", "from_name">>, "SMTP_FROM_NAME">>
  <2>1. /\ Variables(g[1]) = <<{"SMTP_FROM", "SMTP_FROM_EMAIL"}, {"SMTP_FROM_NAME"}>>
        /\ Variables(g[2]) = <<{"SMTP_FROM_NAME"}, {}>>
    BY <1>2 DEF Variables, Smtp
  <2>2. g[2] # <<"email_smtp", "from">> BY <1>2
  <2>3. Value(g[2], g[3]) = g[2] BY <2>2 DEF Value
  <2>4. g[3] = "SMTP_FROM_NAME" BY <1>2
  <2> QED BY <1>2, <2>1, <2>2, <2>3, <2>4
<1> QED BY <1>1, <1>2 DEF Stopgaps

\* A stopgap that follows the setting it stands in for assigns nothing; one that
\* precedes it is overwritten.
LEMMA ChoiceCounts ==
    ASSUME DocumentOK, NEW g \in Stopgaps, {g[1], g[2]} \subseteq Range(document)
    PROVE  g[3] \in DOMAIN Parsed(document) /\ Parsed(document)[g[3]] = g[2]
<1>1. /\ document \in Seq(Given) /\ DOMAIN document = 1..Len(document) /\ Len(document) \in Nat
      /\ \A k \in 1..Len(document) : document[k] \in Given
  BY LenProperties, ElementOfSeq DEF DocumentOK
<1>2. PICK i \in 1..Len(document), j \in 1..Len(document) : document[i] = g[1] /\ document[j] = g[2]
  BY <1>1 DEF Range
<1> DEFINE v == g[3]
           P == {k \in DOMAIN document : v \in Assigned(document, k)}
<1>3. i # j /\ j \in P BY <1>1, <1>2, StopgapsAre DEF Assigned
<1>4. ASSUME NEW k \in P PROVE k = i \/ k = j
  <2>1. v \in Names(document[k]) BY DEF Assigned, Names
  <2>2. document[k] \in {g[1], g[2]} BY <1>1, <2>1, EnvAssumption
  <2> QED BY <1>1, <1>2, <2>2 DEF DocumentOK, IsInjective
<1>5. i \in P => ~(j < i)
  <2> SUFFICES ASSUME i \in P, j < i PROVE FALSE
    OBVIOUS
  <2>1. v \notin Variables(document[i])[1] /\ v \in Names(document[j])
        /\ document[j][1] = document[i][1]
    BY <1>2, StopgapsAre DEF Names
  <2>2. j \in 1..(i - 1) BY <1>1
  <2> QED BY <2>1, <2>2 DEF Assigned
<1>6. \A k \in P : j >= k
  <2>1. i \in Int /\ j \in Int BY <1>1
  <2> QED BY <1>4, <1>5, <2>1
<1>7. Max(P) = j
  <2>1. \A k \in P : k \in Int BY <1>1
  <2>2. Max(P) \in P /\ \A k \in P : Max(P) >= k BY <1>3, <1>6 DEF Max
  <2>3. Max(P) >= j /\ j >= Max(P) /\ Max(P) \in Int /\ j \in Int BY <1>3, <1>6, <2>1, <2>2
  <2> QED BY <2>3
<1>8. v \in UNION {Assigned(document, k) : k \in DOMAIN document} BY <1>3
<1>9. Parsed(document)[v] = Value(document[Max(P)], v) BY <1>8 DEF Parsed
<1>10. v \in DOMAIN Parsed(document) BY <1>8 DEF Parsed
<1> QED BY <1>2, <1>7, <1>9, <1>10, StopgapsAre

LEMMA FinishedAgree == EnvInv => FilesAgree
<1> SUFFICES ASSUME EnvInv, Finished, ~stale
             PROVE  /\ \A a, b \in Range(Apps) :
                          \A v \in DOMAIN file[a] \cap DOMAIN file[b] : file[a][v] = file[b][v]
                    /\ \A a \in Range(Apps), g \in Stopgaps :
                          {g[1], g[2]} \subseteq Range(document) /\ g[3] \in DOMAIN file[a] \ Shell =>
                              file[a][g[3]] = g[2]
  BY DEF FilesAgree
<1>1. \A a \in Range(Apps) : file[a] = Generated(a)
  <2>1. turn = 4 BY AppsAre DEF Finished
  <2>2. \A i \in 1..3 : i < turn BY <2>1
  <2> QED BY <2>2, AppsAre DEF EnvInv, Current
<1>2. ASSUME NEW a \in Range(Apps), NEW b \in Range(Apps), NEW v \in DOMAIN file[a] \cap DOMAIN file[b]
      PROVE  file[a][v] = file[b][v]
  BY <1>1, GeneratedHas
<1>3. ASSUME NEW a \in Range(Apps), NEW g \in Stopgaps, {g[1], g[2]} \subseteq Range(document),
             g[3] \in DOMAIN file[a] \ Shell
      PROVE  file[a][g[3]] = g[2]
  <2>1. file[a][g[3]] = Validated[g[3]] BY <1>1, <1>3, GeneratedHas
  <2>2. g[3] \in DOMAIN Parsed(document) /\ Parsed(document)[g[3]] = g[2]
    BY <1>3, ChoiceCounts DEF EnvInv
  <2>3. g[3] \in DOMAIN Merged /\ Merged[g[3]] = g[2] BY <1>3, <2>2 DEF Merged
  <2>4. Validated[g[3]] = Merged[g[3]] BY <2>3, StopgapsAre DEF Validated
  <2> QED BY <2>1, <2>3, <2>4
<1> QED BY <1>2, <1>3

\* Applications that one generate-envs lets start agree on what they share, and no
\* stopgap replaces the setting it stands in for.
THEOREM FilesAgreeHolds == EnvSpec => []FilesAgree
BY EnvInvHolds, FinishedAgree, PTL
================================================================================
