---------------------------- MODULE DocumentReading ----------------------------
(***************************************************************************)
(* A download beside the uploads and deletions of DocumentStore: the row   *)
(* is read from the database, and only then the object from the bucket     *)
(* (DocumentService.streamForDownload).                                    *)
(***************************************************************************)
EXTENDS DocumentStore

VARIABLES
    download,       \* the state of the request
    wanted          \* its document; none, or one

downloadVars == <<download, wanted>>
readingVars == <<vars, downloadVars>>

DownloadTypeOK ==
    /\ download \in {"new", "open", "served", "missing", "broken"}
    /\ wanted \subseteq Docs /\ Cardinality(wanted) <= 1

ReadingInit == Init /\ download = "new" /\ wanted = {}

\* Mutant: the row is not looked up.
FindDocumentNot(d) ==
    /\ download = "new" /\ wanted' = {d}
    /\ download' = "open"
    /\ UNCHANGED vars

\* A document that was listed may be gone by now: 404.
FindDocument(d) ==
    /\ download = "new" /\ wanted' = {d}
    /\ download' = IF d \in rows THEN "open" ELSE "missing"
    /\ UNCHANGED vars

\* An object that is gone is an error like any other: 500.
OpenObject ==
    /\ download = "open"
    /\ download' = IF wanted \subseteq object THEN "served" ELSE "broken"
    /\ UNCHANGED <<vars, wanted>>

DownloadThrows(d) ==
    /\ \/ download = "new" /\ wanted' = {d}
       \/ download = "open" /\ wanted = {d} /\ UNCHANGED wanted
    /\ download' = "broken"
    /\ Fault
    /\ UNCHANGED <<storeVars, tableVars, cacheVars, handlerVars, readerVars>>

CrashInDownload ==
    /\ Crash
    /\ download' = IF download = "open" THEN "broken" ELSE download
    /\ UNCHANGED wanted

HandlerStep(d) ==
    \/ UploadStep(d) \/ DeletionStep(d) \/ UploadThrows(d) \/ DeletionThrows(d)
    \/ FindKeys(d) \/ DeleteKeys(d)
    \/ \E i \in ChunkNumbers : ChunkStep(d, i) \/ ChunkFails(d, i)

ReaderStep(r) == ReadCache(r) \/ QueryRows(r) \/ SetCache(r)

ReadingNext ==
    \/ \E d \in Docs : HandlerStep(d) /\ UNCHANGED downloadVars
    \/ \E r \in Readers : ReaderStep(r) /\ UNCHANGED downloadVars
    \/ ExpireCache /\ UNCHANGED downloadVars
    \/ \E d \in Docs : FindDocument(d) \/ DownloadThrows(d)
    \/ OpenObject \/ CrashInDownload

ReadingSpec == ReadingInit /\ [][ReadingNext]_readingVars

--------------------------------------------------------------------------------
\* Without failures, a download that found its row is answered with an error
\* only if a deletion overtook it, or an upload that took its document back.
DownloadsServed ==
    /\ RowsDownloadable
    /\ download = "broken" /\ failures = 0 =>
          \E d \in wanted : deletion[d] # "new" \/ upload[d] \in Undoing \cup {"failed"}
================================================================================
