SPECIFICATION StoresSpec
CONSTANTS
    Docs = {d1, d2}
    KbDocs = {d1}
    Chunks = 3
    BatchSize = 2
    Readers = {r1}
    MaxFailures = 2
    Tokens = {t1, t2}
    Lists = {l1}
    TokenTtl = 2
    ListTtl = 1
    MaxNow = 3
    Given <- MCGiven
    Shell <- MCShell
    MaxSettings = 3
    MaxEdits = 1
INVARIANTS
    TypesOK
    UploadedComplete
    DownloadsServed
    FailedUploadGone
    ListFresh
    SessionsListed
    FilesAgree
CHECK_DEADLOCK FALSE
