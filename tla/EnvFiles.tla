-------------------------------- MODULE EnvFiles -------------------------------
(***************************************************************************)
(* packages/config: config.yaml becomes the .env files of the applications *)
(* (pnpm generate-envs).  parseYamlToFlatEnv maps each setting to variables *)
(* of the environment, several settings to the same one; the generators    *)
(* validate them against EnvSchema and write what an application may have, *)
(* one application after another.                                          *)
(*                                                                         *)
(* A setting is <<section, key>>, the section being the joined keys of the *)
(* mappings around it; it stands for its own value.  The model has a       *)
(* selection of the settings the parser knows: of those whose variables    *)
(* meet, of those in a nested section and of those the schema requires.    *)
(* The others, some of which meet in the same ways, are left out.          *)
(***************************************************************************)
EXTENDS Integers, Sequences, FiniteSets, SequencesExt, FiniteSetsExt

CONSTANTS
    Given,          \* the settings a document may give
    Shell,          \* variables that process.env gives to the generators
    MaxSettings,    \* bound on the settings of one document
    MaxEdits        \* bound on the changes of config.yaml

VARIABLES
    document,       \* the settings, in the order of config.yaml
    turn,           \* generate-envs: the generator to run next, 0 when it has stopped
    file,           \* the .env of each application
    edits, stale    \* history: changes; a document changed since generate-envs began

envVars == <<document, turn, file, edits, stale>>

Apps == <<"frontend", "backend", "worker">>
None == [v \in {} |-> <<"", "">>]

-------------------------------------------------------------------------------
(* parser.ts: the variables of a setting.  The first set is assigned, the  *)
(* second only if the section has given no value yet.                      *)

Auth(k) ==
    CASE k = "jwt_secret"           -> <<{"JWT_SECRET"}, {}>>
      [] k = "auth_secret"          -> <<{"AUTH_SECRET"}, {"FRONTEND_AUTH_SECRET"}>>
      [] k = "frontend_auth_secret" -> <<{"FRONTEND_AUTH_SECRET", "AUTH_SECRET"}, {}>>

LoginRateLimit(k) == <<{"AUTH_LOGIN_RATE_LIMIT_MAX"}, {}>>

Database(k) ==
    <<{"DATABASE_PGVECTOR_ENABLED"} \cup (IF k = "pgvector_enabled" THEN {"PGVECTOR_ENABLED"} ELSE {}), {}>>

Redis(k) == <<{"REDIS_ENABLED"}, {}>>

Llm(k) == <<{"LLM_PROVIDER"}, {}>>

\* Only the settings listed there are taken.
Server(k) == IF k = "port" THEN <<{"PORT"}, {}>> ELSE <<{}, {}>>

ServerRateLimit(k) == <<{"SERVER_RATE_LIMIT_ENABLED", "RATE_LIMIT_ENABLED"}, {}>>

\* Mutant: the internal URL always becomes the public one too.
FrontendUnguarded(k) ==
    CASE k = "api_url"              -> <<{"API_URL", "NEXT_PUBLIC_API_URL"}, {}>>
      [] k = "next_public_api_url"  -> <<{"NEXT_PUBLIC_API_URL"}, {}>>
      [] k = "auth_secret"          -> <<{"AUTH_SECRET", "FRONTEND_AUTH_SECRET"}, {}>>
      [] k = "otlp_headers"         -> <<{"OTEL_EXPORTER_OTLP_HEADERS"}, {}>>
      [] k = "service_name"         -> <<{"FRONTEND_OTEL_SERVICE_NAME", "NEXT_PUBLIC_OTEL_SERVICE_NAME"}, {}>>

Frontend(k) ==
    CASE k = "api_url"              -> <<{"API_URL"}, {"NEXT_PUBLIC_API_URL"}>>
      [] k = "next_public_api_url"  -> <<{"NEXT_PUBLIC_API_URL"}, {}>>
      [] k = "auth_secret"          -> <<{"AUTH_SECRET", "FRONTEND_AUTH_SECRET"}, {}>>
      [] k = "otlp_headers"         -> <<{"OTEL_EXPORTER_OTLP_HEADERS"}, {}>>
      [] k = "service_name"         -> <<{"FRONTEND_OTEL_SERVICE_NAME", "NEXT_PUBLIC_OTEL_SERVICE_NAME"}, {}>>

Backend(k) == <<{"BACKEND_OTEL_SERVICE_NAME"}, {}>>

Worker(k) == <<{"WORKER_OTEL_SERVICE_NAME"}, {}>>

S3(k) == <<{"S3_ACCESS_KEY"} \cup (IF k = "access_key_id" THEN {"S3_ACCESS_KEY_ID"} ELSE {}), {}>>

RabbitMq(k) == <<{"MESSAGING_RABBITMQ_URL", "RABBITMQ_URL"}, {}>>

Smtp(k) ==
    CASE k = "from"      -> <<{"SMTP_FROM", "SMTP_FROM_EMAIL"}, {"SMTP_FROM_NAME"}>>
      [] k = "from_name" -> <<{"SMTP_FROM_NAME"}, {}>>

Observability(k) ==
    CASE k = "otlp_headers" -> <<{"OTEL_EXPORTER_OTLP_HEADERS"}, {}>>
      [] k = "service_name" -> <<{"OTEL_SERVICE_NAME", "NEXT_PUBLIC_OTEL_SERVICE_NAME"}, {}>>

\* A setting outside of the sections has its own name for a variable.
Variables(s) ==
    CASE s[1] = "auth"                  -> Auth(s[2])
      [] s[1] = "auth_login_rate_limit" -> LoginRateLimit(s[2])
      [] s[1] = "database"              -> Database(s[2])
      [] s[1] = "redis"                 -> Redis(s[2])
      [] s[1] = "llm"                   -> Llm(s[2])
      [] s[1] = "server"                -> Server(s[2])
      [] s[1] = "server_rate_limit"     -> ServerRateLimit(s[2])
      [] s[1] = "frontend"              -> Frontend(s[2])
      [] s[1] = "backend"               -> Backend(s[2])
      [] s[1] = "worker"                -> Worker(s[2])
      [] s[1] = "s3"                    -> S3(s[2])
      [] s[1] = "rabbitmq"              -> RabbitMq(s[2])
      [] s[1] = "email_smtp"            -> Smtp(s[2])
      [] s[1] = "observability"         -> Observability(s[2])
      [] s[1] = ""                      -> <<{s[2]}, {}>>

Names(s) == Variables(s)[1] \cup Variables(s)[2]

\* What the i-th setting assigns, after the settings of its section before it.
Assigned(d, i) ==
    Variables(d[i])[1] \cup
    {v \in Variables(d[i])[2] : ~ \E j \in 1..(i - 1) : d[j][1] = d[i][1] /\ v \in Names(d[j])}

\* The address alone does not give the sender his name.
Value(s, v) == IF s = <<"email_smtp", "from">> /\ v = "SMTP_FROM_NAME"
               THEN <<"parser", "SaaS Backend">> ELSE s

\* The last assignment counts (Object.assign, nested sections first to last).
Parsed(d) ==
    [v \in UNION {Assigned(d, i) : i \in DOMAIN d} |->
        Value(d[Max({i \in DOMAIN d : v \in Assigned(d, i)})], v)]

\* Settings the parser takes for want of another one, that one, the variable.
Stopgaps == {<<<<"frontend", "api_url">>, <<"frontend", "next_public_api_url">>, "NEXT_PUBLIC_API_URL">>,
             <<<<"email_smtp", "from">>, <<"email_smtp", "from_name">>, "SMTP_FROM_NAME">>}

\* Whoever gives one of those variables otherwise has given up the choice.
ASSUME EnvAssumption ==
    /\ MaxSettings \in Nat \ {0} /\ MaxEdits \in Nat
    /\ \A s \in Given, g \in Stopgaps : g[3] \in Names(s) => s \in {g[1], g[2]}

-------------------------------------------------------------------------------
(* The generators.                                                         *)

\* { ...loaded, ...process.env }
Merged ==
    LET loaded == Parsed(document) IN
    [v \in Shell \cup DOMAIN loaded |-> IF v \in Shell THEN <<"shell", v>> ELSE loaded[v]]

Required == {"PORT", "PGVECTOR_ENABLED", "JWT_SECRET", "AUTH_SECRET", "FRONTEND_AUTH_SECRET", "S3_ACCESS_KEY",
             "MESSAGING_RABBITMQ_URL", "SMTP_FROM_EMAIL", "SMTP_FROM_NAME", "OTEL_SERVICE_NAME"}

Valid == Required \subseteq DOMAIN Merged

Defaults == [v \in {"RATE_LIMIT_ENABLED", "AUTH_LOGIN_RATE_LIMIT_MAX", "REDIS_ENABLED"} |-> <<"schema", "default">>]

\* z.object strips what it does not know.
Validated ==
    LET env == Merged IN
    [v \in (DOMAIN env \ {"SERVER_RATE_LIMIT_ENABLED", "DATABASE_PGVECTOR_ENABLED"}) \cup DOMAIN Defaults |->
        IF v \in DOMAIN env THEN env[v] ELSE Defaults[v]]

SafeForFrontend ==
    {"NEXT_PUBLIC_API_URL", "API_URL", "NEXT_PUBLIC_OTEL_SERVICE_NAME", "OTEL_SERVICE_NAME",
     "FRONTEND_OTEL_SERVICE_NAME", "OTEL_EXPORTER_OTLP_HEADERS", "AUTH_SECRET"}

\* The prefixes that the file of an application leaves out.
ServiceExclusions ==
    [backend |-> {"NEXT_PUBLIC_API_URL", "NEXT_PUBLIC_OTEL_SERVICE_NAME", "WORKER_OTEL_SERVICE_NAME",
                  "FRONTEND_AUTH_SECRET", "FRONTEND_OTEL_SERVICE_NAME", "AUTH_SECRET"},
     worker  |-> {"NEXT_PUBLIC_API_URL", "NEXT_PUBLIC_OTEL_SERVICE_NAME", "BACKEND_OTEL_SERVICE_NAME",
                  "FRONTEND_AUTH_SECRET", "FRONTEND_OTEL_SERVICE_NAME", "AUTH_SECRET",
                  "AUTH_LOGIN_RATE_LIMIT_MAX", "JWT_SECRET", "S3_ACCESS_KEY", "S3_ACCESS_KEY_ID",
                  "API_URL", "PORT"}]

Has(app, v) == IF app = "frontend" THEN v \in SafeForFrontend ELSE v \notin ServiceExclusions[app]

\* Mutant: a file that exists is left as it is.
GeneratedOnce(app) ==
    IF file[app] # None THEN file[app]
    ELSE Restrict(Validated, {v \in DOMAIN Validated : Has(app, v)})

Generated(app) == Restrict(Validated, {v \in DOMAIN Validated : Has(app, v)})

-------------------------------------------------------------------------------

\* A section is one mapping: what is between two of its settings is inside it.
Inside(s, t) == t = "" \/ s = t \/ <<s, t>> \in {<<"auth_login_rate_limit", "auth">>,
                                                  <<"server_rate_limit", "server">>}
WellNested(d) ==
    \A i, j, k \in DOMAIN d : i < j /\ j < k /\ d[i][1] = d[k][1] => Inside(d[j][1], d[i][1])

EnvInit ==
    /\ document \in {d \in SeqOf(Given, MaxSettings - 1) : IsInjective(d) /\ WellNested(d)}
    /\ edits = 0 /\ stale = FALSE
    /\ turn = 0 /\ file = [app \in Range(Apps) |-> None]

Edit(d) ==
    /\ edits < MaxEdits /\ edits' = edits + 1
    /\ document' = d /\ WellNested(d)
    /\ stale' = TRUE
    /\ UNCHANGED <<turn, file>>

Give(s, i) ==
    /\ s \notin Range(document) /\ Len(document) < MaxSettings
    /\ i \in 1..(Len(document) + 1)
    /\ Edit(InsertAt(document, i, s))

Withdraw(i) == i \in DOMAIN document /\ Edit(RemoveAt(document, i))

\* pnpm dev and pnpm build (bound: one generate-envs at a time).
GenerateEnvs ==
    /\ turn = 0 /\ turn' = 1 /\ stale' = FALSE
    /\ UNCHANGED <<document, file, edits>>

\* The generators are joined by &&.
Generate ==
    /\ turn \in DOMAIN Apps /\ Valid
    /\ file' = [file EXCEPT ![Apps[turn]] = Generated(Apps[turn])]
    /\ turn' = turn + 1
    /\ UNCHANGED <<document, edits, stale>>

InvalidConfiguration ==
    /\ turn \in DOMAIN Apps /\ ~Valid
    /\ turn' = 0
    /\ UNCHANGED <<document, file, edits, stale>>

\* Applications are built and started with their files.
Finished == turn = Len(Apps) + 1

Stop ==
    /\ Finished /\ turn' = 0
    /\ UNCHANGED <<document, file, edits, stale>>

\* The frontend's own predev and prebuild.
GenerateFrontend ==
    /\ Valid
    /\ file' = [file EXCEPT !["frontend"] = Generated("frontend")]
    /\ UNCHANGED <<document, turn, edits, stale>>

EnvNext ==
    \/ \E s \in Given, i \in 1..MaxSettings : Give(s, i)
    \/ \E i \in 1..MaxSettings : Withdraw(i)
    \/ GenerateEnvs \/ Generate \/ InvalidConfiguration \/ Stop \/ GenerateFrontend

EnvSpec == EnvInit /\ [][EnvNext]_envVars

-------------------------------------------------------------------------------
EnvTypeOK ==
    /\ Range(document) \subseteq Given /\ Len(document) <= MaxSettings
    /\ IsInjective(document) /\ WellNested(document)
    /\ turn \in 0..(Len(Apps) + 1) /\ edits \in 0..MaxEdits /\ stale \in BOOLEAN
    /\ \A app \in Range(Apps) : \A v \in DOMAIN file[app] : Has(app, v)

\* README.md:102, config.yaml is the "única fonte de verdade": the applications
\* that generate-envs lets start have the same value for a variable that two of
\* their files have; and a setting that is only a stopgap (parser.ts:84 "Only
\* set ... if not already set") never replaces the one it stands in for, in
\* whatever order config.yaml has them.
FilesAgree ==
    Finished /\ ~stale =>
        /\ \A a, b \in Range(Apps) :
              \A v \in DOMAIN file[a] \cap DOMAIN file[b] : file[a][v] = file[b][v]
        /\ \A a \in Range(Apps), g \in Stopgaps :
              {g[1], g[2]} \subseteq Range(document) /\ g[3] \in DOMAIN file[a] \ Shell =>
                  file[a][g[3]] = g[2]
===============================================================================
