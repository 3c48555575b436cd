-------------------------------- MODULE MCStores -------------------------------
(***************************************************************************)
(* The stores for TLC: documents (with a reader of the cached list, or     *)
(* with a download), the store in a replica's memory, and the .env files.  *)
(* They share no state; as in MCConversations a behaviour is that of one.  *)
(***************************************************************************)
EXTENDS DocumentReading, EnvFiles, FallbackStore

VARIABLE part      \* what takes the steps
storesVars == <<part, readingVars, envVars, fallbackVars>>

MCGiven == {
    <<"database", "pgvector_enabled">>, <<"redis", "enabled">>, <<"llm", "provider">>,
    <<"auth", "jwt_secret">>, <<"server", "port">>, <<"server_rate_limit", "enabled">>,
    <<"backend", "service_name">>, <<"worker", "service_name">>, <<"s3", "access_key_id">>,
    <<"s3", "access_key">>, <<"rabbitmq", "url">>, <<"email_smtp", "from">>,
    <<"email_smtp", "from_name">>, <<"observability", "service_name">>,
    <<"frontend", "service_name">>, <<"", "OTEL_SERVICE_NAME">>, <<"auth", "auth_secret">>,
    <<"auth", "frontend_auth_secret">>, <<"auth_login_rate_limit", "max">>,
    <<"frontend", "auth_secret">>, <<"frontend", "api_url">>,
    <<"frontend", "next_public_api_url">>, <<"frontend", "otlp_headers">>,
    <<"observability", "otlp_headers">>}

\* Every required variable is given somehow.
MCShell == Required \ {"SMTP_FROM_EMAIL", "SMTP_FROM_NAME"}

StoresInit ==
    /\ part \in {"lists", "downloads", "memory", "config"}
    /\ ReadingInit /\ FallbackInit
    /\ EnvInit /\ (part # "config" => document = <<>>)

\* Bounds beside a reader of the list, whose property speaks of no chunks and of
\* no failures: one failure, and a model that embeds every chunk.
ListFailures == 1
ListBound(d) == failures' <= ListFailures /\ \A i \in ChunkNumbers : chunk'[d][i] # "skipped"

L == part = "lists"
D == part = "downloads"
M == part = "memory"
C == part = "config"
OfLists == UNCHANGED <<part, downloadVars, envVars, fallbackVars>>
OfDownloads == UNCHANGED <<part, envVars, fallbackVars>>
OfMemory == UNCHANGED <<part, readingVars, envVars>>
OfConfig == UNCHANGED <<part, readingVars, fallbackVars>>

HandlerSteps(d) ==
    \/ Upload(d) \/ PutObject(d) \/ SaveRow(d) \/ ExtractText(d)
    \/ PutArtifact(d, "source", "text") \/ PutArtifact(d, "text", "embed")
    \/ EmbedBatch(d) \/ EmbedEnds(d) \/ BatchDone(d) \/ UndoObject(d) \/ UndoRow(d)
    \/ Delete(d) \/ DeleteObject(d) \/ DeleteArtifacts(d) \/ DeleteRow(d)
    \/ FindKeys(d) \/ DeleteKeys(d) \/ UploadThrows(d) \/ DeletionThrows(d)
    \/ \E i \in ChunkNumbers :
          PutChunk(d, i) \/ SaveChunk(d, i) \/ SaveChunkRefused(d, i) \/ ChunkFails(d, i)

ListSteps ==
    \/ \E d \in Docs : L /\ HandlerSteps(d) /\ ListBound(d) /\ OfLists
    \/ \E r \in Readers : L /\ (ReadCache(r) \/ QueryRows(r) \/ SetCache(r)) /\ OfLists
    \/ L /\ ExpireCache /\ OfLists
    \/ L /\ Crash /\ failures' <= ListFailures /\ OfLists

DownloadSteps ==
    \/ \E d \in Docs : D /\ HandlerSteps(d) /\ UNCHANGED downloadVars /\ OfDownloads
    \/ \E d \in Docs : D /\ FindDocument(d) /\ OfDownloads
    \/ \E d \in Docs : D /\ DownloadThrows(d) /\ OfDownloads
    \/ D /\ OpenObject /\ OfDownloads
    \/ D /\ CrashInDownload /\ OfDownloads

MemorySteps ==
    \/ \E t \in Tokens : M /\ (Issue(t) \/ Logout(t)) /\ OfMemory
    \/ \E k \in Lists : M /\ List(k) /\ OfMemory
    \/ \E k \in Keys : M /\ Forget(k) /\ OfMemory
    \/ \E k \in Keys, due \in Times : M /\ TimerFires(k, due) /\ OfMemory
    \/ \E due \in Times : M /\ ExpiryFires(due) /\ OfMemory
    \/ M /\ (Invalidate \/ TimePasses) /\ OfMemory

ConfigSteps ==
    \/ \E s \in Given, i \in 1..MaxSettings : C /\ Give(s, i) /\ OfConfig
    \/ \E i \in 1..MaxSettings : C /\ Withdraw(i) /\ OfConfig
    \/ C /\ (GenerateEnvs \/ Generate \/ InvalidConfiguration \/ Stop) /\ OfConfig
    \/ C /\ GenerateFrontend /\ OfConfig

StoresNext == ListSteps \/ DownloadSteps \/ MemorySteps \/ ConfigSteps

StoresSpec == StoresInit /\ [][StoresNext]_storesVars

\* The types of the part that moves.
TypesOK ==
    CASE part \in {"lists", "downloads"} -> DocTypeOK /\ DownloadTypeOK
      [] part = "memory" -> FallbackTypeOK
      [] part = "config" -> EnvTypeOK
================================================================================
