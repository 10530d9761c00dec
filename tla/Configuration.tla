--------------------------- MODULE Configuration ---------------------------
(***************************************************************************)
(* What the settings of a process come to: the registry, the loader's      *)
(* merge and its checks, the readers, and the options its Kafka, Valkey    *)
(* and Postgres clients are built with.                                    *)
(*                                                                         *)
(* A text is what it stands for and how it is written, with blanks around  *)
(* it or in letters of the other case; an option of a client is a text     *)
(* too. The dots of a librdkafka property are underscores here.            *)
(***************************************************************************)
EXTENDS Integers

CONSTANT Files  \* the paths of files that can be read and are not empty

Num(n)    == <<"number", n, "plain">>
Word(w)   == <<"word", w, "plain">>
Object(f) == <<"object", f, "plain">>
PerMille(n) == <<"fraction", n, "plain">>
Hours(n)  == <<"duration", n, "plain">>
Unset     == <<"unset", "", "plain">>
Empty     == <<"empty", "", "plain">>
Null      == <<"null", "", "plain">>

Plain(t) == <<t[1], t[2], "plain">>
Trim(t)  == IF t[3] = "padded" THEN Plain(t) ELSE t
Recased(t) == IF t[3] = "recased" THEN Plain(t) ELSE t
Says(t)  == t \notin {Unset, Empty}
Or(t, u) == IF Says(t) THEN t ELSE u
Flag(b)  == IF b THEN Word("true") ELSE Word("false")

\* One function laid over another; and the entries of one that are set.
Overlay(f, g) == [x \in DOMAIN f \union DOMAIN g |-> IF x \in DOMAIN g THEN g[x] ELSE f[x]]
Given(f)     == [x \in {y \in DOMAIN f : Says(f[y])} |-> f[x]]
NoOptions  == [x \in {} |-> Unset]

------------------------------------------------------------------------------
(* env.registry.ts. Unlimited stands for a number without a `max`: no      *)
(* number of the model is above it. A fraction is counted in thousandths.  *)

Unlimited == 2000000000
Entry(type, default, min, max, values, reserved) ==
    [type |-> type, default |-> default, min |-> min, max |-> max, values |-> values,
     reserved |-> reserved]

Text(d)           == Entry("string", d, 0, 0, {}, {})
Duration(d)       == Entry("duration", d, 0, 0, {}, {})
Fraction(lo, hi, d) == Entry("number", d, lo, hi, {}, {})
Within(lo, hi, d) == Entry("int", d, lo, hi, {}, {})
Whole(lo, d)      == Within(lo, Unlimited, d)
Bool(b)           == Entry("bool", Flag(b), 0, 0, {}, {})
Json(owned)       == Entry("json", Unset, 0, 0, {}, owned)
OneOf(d, words)   == Entry("enum", d, 0, 0, {Word(w) : w \in words}, {})
Literal(e, w)     == [e EXCEPT !.values = {Word(w)}]

KAFKA_OWNED_PROPERTIES ==
    {"partition_assignment_strategy", "queue_buffering_max_kbytes", "queue_buffering_max_messages",
     "message_max_bytes", "queued_max_messages_kbytes", "fetch_max_bytes",
     "receive_message_max_bytes", "max_partition_fetch_bytes", "fetch_message_max_bytes"}

AppEntries == [
    NODE_ENV |-> Text(Word("development")), PORT |-> Within(0, 65535, Num(3000)),
    HTTP_BODY_LIMIT_BYTES |-> Whole(1, Num(1048576)),
    HTTP_REQUEST_TIMEOUT_MS |-> Whole(1, Num(10000)),
    HTTP_REQUEST_TIMEOUT_MIN_MS |-> Whole(0, Num(1000)),
    HTTP_SHUTDOWN_DELAY_MS |-> Whole(0, Num(2000))]

AdminEntries == [
    ADMIN_HOST |-> Text(Word("0.0.0.0")), ADMIN_INSECURE |-> Bool(FALSE),
    ADMIN_PORT |-> Within(0, 65535, Num(9090)), APP_URL |-> Text(Word("http://localhost:3000")),
    COOKIE_SECRET |-> Text(Unset), ALLOWED_ORIGINS |-> Text(Word("localhost")),
    LOG_LEVEL |-> OneOf(Unset, {"trace", "debug", "info", "warn", "error", "fatal", "silent"}),
    LOG_LEVEL_MAX_TTL |-> Duration(Hours(24)), ADMIN_TOKEN |-> Text(Unset),
    DEBUG_TOKEN |-> Text(Unset), SERVICE_VERSION |-> Text(Unset), GIT_COMMIT |-> Text(Unset)]

SessionAttrs == {"any", "read-write", "read-only", "primary", "standby", "prefer-standby"}

DatabaseEntries == [
    DATABASE_URL |-> Text(<<"url", [query |-> NoOptions], "plain">>),
    DATABASE_PASSWORD_FILE |-> Text(Unset), DATABASE_READONLY_URL |-> Text(Unset),
    DATABASE_POOL_MAX |-> Whole(1, Num(10)), DATABASE_POOL_MIN |-> Whole(0, Num(0)),
    DATABASE_POOL_IDLE_TIMEOUT_MS |-> Whole(0, Num(30000)),
    DATABASE_POOL_MAX_USES |-> Whole(0, Num(0)),
    DATABASE_CONNECT_TIMEOUT_MS |-> Whole(1, Num(5000)),
    DATABASE_STATEMENT_TIMEOUT_MS |-> Whole(0, Num(30000)),
    DATABASE_IDLE_IN_TRANSACTION_TIMEOUT_MS |-> Whole(0, Num(60000)),
    DATABASE_QUERY_TIMEOUT_MS |-> Whole(0, Unset)]

SessionEntries == [
    DATABASE_KEEPALIVE |-> Bool(TRUE), DATABASE_KEEPALIVE_INITIAL_DELAY_MS |-> Whole(0, Num(10000)),
    DATABASE_APPLICATION_NAME |-> Text(Unset),
    DATABASE_TARGET_SESSION_ATTRS |-> OneOf(Unset, SessionAttrs),
    DATABASE_READONLY_TARGET_SESSION_ATTRS |-> OneOf(Unset, SessionAttrs),
    DATABASE_USE_NATIVE |-> Bool(FALSE),
    DATABASE_SSL_MODE |-> OneOf(Unset, {"disable", "allow", "prefer", "require", "verify-ca",
                                        "verify-full", "no-verify"}),
    DATABASE_SSL_CA_LOCATION |-> Text(Unset), DATABASE_SSL_CA_PEM |-> Text(Unset),
    DATABASE_SSL_SKIP_VERIFY |-> Bool(FALSE), DATABASE_EXTRA_PROPERTIES |-> Json({})]

ResilienceEntries == [
    DATABASE_RETRY_MAX_ATTEMPTS |-> Whole(1, Num(3)),
    DATABASE_RETRY_BASE_DELAY_MS |-> Whole(0, Num(100)),
    DATABASE_RETRY_MAX_DELAY_MS |-> Whole(0, Num(5000)),
    DATABASE_RETRY_BUDGET_MS |-> Whole(0, Num(10000)), DATABASE_CB_ENABLED |-> Bool(TRUE),
    DATABASE_CB_TIMEOUT_MS |-> Whole(1, Num(30000)),
    DATABASE_CB_ERROR_THRESHOLD_PCT |-> Fraction(0, 100000, Num(50)),
    DATABASE_CB_VOLUME_THRESHOLD |-> Whole(1, Num(10)),
    DATABASE_CB_RESET_TIMEOUT_MS |-> Whole(1, Num(30000))]

ValkeyEntries == [
    VALKEY_URL |-> Text(Unset), VALKEY_USERNAME |-> Text(Unset), VALKEY_PASSWORD |-> Text(Unset),
    VALKEY_DB |-> Whole(0, Unset), VALKEY_TLS |-> Bool(FALSE), VALKEY_SKIP_VERIFY |-> Bool(FALSE),
    VALKEY_CA_LOCATION |-> Text(Unset), VALKEY_CA_PEM |-> Text(Unset),
    VALKEY_CONNECT_TIMEOUT_MS |-> Whole(1, Num(5000)),
    VALKEY_COMMAND_TIMEOUT_MS |-> Whole(0, Num(5000)), VALKEY_KEEPALIVE_MS |-> Whole(0, Num(0)),
    VALKEY_MAX_RETRIES_PER_REQUEST |-> Literal(Whole(0, Num(3)), "null"),
    VALKEY_RECONNECT_BASE_DELAY_MS |-> Whole(0, Num(100)),
    VALKEY_RECONNECT_MAX_DELAY_MS |-> Whole(0, Num(5000)), VALKEY_EXTRA_PROPERTIES |-> Json({})]

ValkeyResilienceEntries == [
    VALKEY_RETRY_MAX_ATTEMPTS |-> Whole(1, Num(3)), VALKEY_RETRY_BASE_DELAY_MS |-> Whole(0, Num(50)),
    VALKEY_RETRY_MAX_DELAY_MS |-> Whole(0, Num(1000)), VALKEY_RETRY_BUDGET_MS |-> Whole(0, Num(5000)),
    VALKEY_CB_ENABLED |-> Bool(FALSE), VALKEY_CB_TIMEOUT_MS |-> Whole(1, Num(5000)),
    VALKEY_CB_ERROR_THRESHOLD_PCT |-> Fraction(0, 100000, Num(50)),
    VALKEY_CB_VOLUME_THRESHOLD |-> Whole(1, Num(20)),
    VALKEY_CB_RESET_TIMEOUT_MS |-> Whole(1, Num(15000))]

KafkaClientEntries == [
    KAFKA_BROKERS |-> Text(Unset), KAFKA_CLIENT_ID |-> Text(Unset),
    KAFKA_SASL_PASSWORD_FILE |-> Text(Unset),
    KAFKA_SECURITY_PROTOCOL |-> OneOf(Unset, {"plaintext", "ssl", "sasl_plaintext", "sasl_ssl"}),
    KAFKA_SASL_MECHANISM |-> OneOf(Unset, {"PLAIN", "SCRAM-SHA-256", "SCRAM-SHA-512"}),
    KAFKA_SASL_USERNAME |-> Text(Unset), KAFKA_SASL_PASSWORD |-> Text(Unset),
    KAFKA_SSL_CA_LOCATION |-> Text(Unset), KAFKA_SSL_CA_PEM |-> Text(Unset),
    KAFKA_SSL_ENDPOINT_IDENTIFICATION_ALGORITHM |-> OneOf(Unset, {"https", "none"}),
    KAFKA_REQUEST_TIMEOUT_MS |-> Whole(1, Unset), KAFKA_METADATA_MAX_AGE_MS |-> Whole(0, Unset),
    KAFKA_RECONNECT_BACKOFF_MS |-> Whole(0, Num(100)),
    KAFKA_RECONNECT_BACKOFF_MAX_MS |-> Whole(0, Num(10000))]

KafkaProducerEntries == [
    KAFKA_PRODUCER_ACKS |-> Entry("enum", Word("all"), 0, 0, {Word("all"), Num(-1), Num(0), Num(1)}, {}),
    KAFKA_PRODUCER_ENABLE_IDEMPOTENCE |-> Bool(TRUE),
    KAFKA_PRODUCER_COMPRESSION_TYPE |-> OneOf(Word("lz4"), {"none", "gzip", "snappy", "lz4", "zstd"}),
    KAFKA_PRODUCER_LINGER_MS |-> Whole(0, Num(5)),
    KAFKA_PRODUCER_MESSAGE_TIMEOUT_MS |-> Whole(1, Num(30000)),
    KAFKA_PRODUCER_QUEUE_MAX_KBYTES |-> Whole(1, Num(65536)),
    KAFKA_PRODUCER_QUEUE_MAX_MESSAGES |-> Whole(1, Num(100000))]

KafkaSizeEntries == [
    KAFKA_MESSAGE_MAX_BYTES |-> Whole(1000, Num(1000000)),
    KAFKA_CONSUMER_QUEUE_MAX_KBYTES |-> Whole(1, Num(4096)),
    KAFKA_CONSUMER_FETCH_MAX_BYTES |-> Whole(1000, Num(4194304)),
    KAFKA_CONSUMER_PARTITION_FETCH_MAX_BYTES |-> Whole(1000, Num(1048576)),
    KAFKA_PRODUCER_EXTRA_PROPERTIES |-> Json(KAFKA_OWNED_PROPERTIES),
    KAFKA_CONSUMER_EXTRA_PROPERTIES |-> Json(KAFKA_OWNED_PROPERTIES),
    KAFKA_CONSUMER_PARTITIONS_CONCURRENTLY |-> Whole(1, Num(1))]

KafkaConsumerEntries == [
    KAFKA_CONSUMER_MAX_RETRIES |-> Whole(0, Num(5)),
    KAFKA_CONSUMER_AUTO_OFFSET_RESET |->
        OneOf(Word("earliest"), {"earliest", "latest", "smallest", "largest", "beginning", "end", "error"}),
    KAFKA_DEAD_LETTER_TOPIC |-> Text(Word("{topic}.dlq")),
    KAFKA_STATISTICS_INTERVAL_MS |-> Whole(0, Num(15000)),
    KAFKA_CONSUMER_ENABLE_AUTO_COMMIT |-> Bool(FALSE),
    KAFKA_CONSUMER_ASSIGNMENT_STRATEGY |->
        OneOf(Word("cooperative-sticky"), {"cooperative-sticky", "roundrobin", "range"}),
    KAFKA_CONSUMER_SESSION_TIMEOUT_MS |-> Whole(1, Num(45000)),
    KAFKA_CONSUMER_MAX_POLL_INTERVAL_MS |-> Whole(1, Num(300000)),
    KAFKA_EXTRA_PROPERTIES |-> Json(KAFKA_OWNED_PROPERTIES)]

OtherEntries == [
    OUTBOX_POLL_INTERVAL_MS |-> Whole(1, Num(200)), OUTBOX_BATCH_SIZE |-> Whole(1, Num(100)),
    OUTBOX_MAX_ATTEMPTS |-> Whole(1, Num(10)), OTEL_SERVICE_NAME |-> Text(Unset),
    OTEL_EXPORTER_OTLP_ENDPOINT |-> Text(Unset), SENTRY_DSN |-> Text(Unset),
    PYROSCOPE_SERVER_ADDRESS |-> Text(Unset), HEAP_SNAPSHOT_S3_BUCKET |-> Text(Unset),
    HEAP_SNAPSHOT_S3_PREFIX |-> Text(Word("heap-snapshots")),
    CRASH_REPORT_S3_PREFIX |-> Text(Word("crash-reports")),
    HEAP_OOM_THRESHOLD |-> Fraction(0, 1000, PerMille(850)),
    HEAP_OOM_POLL_INTERVAL_MS |-> Whole(1, Num(10000)), TASK_LIST_PAGE_SIZE |-> Whole(1, Num(50)),
    IDEMPOTENCY_TTL_SECONDS |-> Whole(1, Num(86400)), WORKER_QUEUE_MAX_WAITING |-> Whole(1, Num(10000))]

ValkeyKeys == Overlay(ValkeyEntries, ValkeyResilienceEntries)
KafkaKeys  == Overlay(Overlay(KafkaClientEntries, KafkaProducerEntries),
                      Overlay(KafkaSizeEntries, KafkaConsumerEntries))
Registry   == Overlay(Overlay(Overlay(AppEntries, AdminEntries), Overlay(DatabaseEntries, SessionEntries)),
                      Overlay(Overlay(ResilienceEntries, OtherEntries), Overlay(ValkeyKeys, KafkaKeys)))
Keys       == DOMAIN Registry

\* A key that is bounded by another's value.
AtLeast == [KAFKA_CONSUMER_FETCH_MAX_BYTES |-> "KAFKA_MESSAGE_MAX_BYTES",
            KAFKA_CONSUMER_MAX_POLL_INTERVAL_MS |-> "KAFKA_CONSUMER_SESSION_TIMEOUT_MS"]
AtMost  == [KAFKA_CONSUMER_PARTITION_FETCH_MAX_BYTES |-> "KAFKA_CONSUMER_FETCH_MAX_BYTES"]

------------------------------------------------------------------------------
(* config.values.ts: what a text parses to. Bounds and literals are looked *)
(* at without the blanks, an enum and a boolean without regard to case.    *)

Parses(e, t) ==
    \/ e.type # "enum" /\ Trim(t) \in e.values
    \/ e.type = "string"
    \/ e.type = "int" /\ t[1] = "number" /\ t[2] \in e.min .. e.max
    \/ /\ e.type = "number"
       /\ \/ t[1] = "fraction" /\ t[2] \in e.min .. e.max
          \/ t[1] = "number" /\ 1000 * t[2] \in e.min .. e.max
    \/ e.type = "duration" /\ t[1] \in {"number", "duration"} /\ t[2] >= 0
    \/ e.type = "bool" /\ Plain(t) \in {Word("true"), Word("false"), Num(1), Num(0)}
    \/ e.type = "json" /\ t[1] = "object" /\ DOMAIN t[2] \intersect e.reserved = {}
    \/ e.type = "enum" /\ Plain(t) \in e.values

ReadString(c, k) == c[k]
ReadInt(c, k)    == IF Says(c[k]) THEN Plain(c[k]) ELSE Unset
ReadBool(c, k)   == Plain(c[k]) \in {Word("true"), Num(1)}
ReadJson(c, k)   == IF Says(c[k]) THEN c[k][2] ELSE NoOptions

\* A file that cannot be read, or is empty, throws.
Unreadable(c, k)     == Says(c[k]) /\ c[k][2] \notin Files
ReadSecretFile(c, k) == IF Says(c[k]) THEN <<"content", c[k][2], "plain">> ELSE Unset

------------------------------------------------------------------------------
(* config.loader.ts and integrations.ts. A setup is an app, its            *)
(* environment, the file's structured and flat keys, and whether the file  *)
(* has one that nothing reads.                                             *)

At(f, k) == IF k \in DOMAIN f THEN f[k] ELSE Unset

\* Environment, structured key, flat key, default: the app's over the registry's.
Default(app, k) == IF k = "OTEL_SERVICE_NAME" THEN Word(app) ELSE Registry[k].default
Effective(s, k) == Or(At(s.env, k), Or(At(s.yaml, k), Or(At(s.flat, k), Default(s.app, k))))
Merged(s)       == [k \in Keys |-> Effective(s, k)]
Explicit(s, k)  == Says(At(s.env, k)) \/ Says(At(s.yaml, k)) \/ Says(At(s.flat, k))

Invalid(c)    == \E k \in Keys : Says(c[k]) /\ ~Parses(Registry[k], c[k])
OutOfOrder(c) ==
    \/ \E k \in DOMAIN AtLeast : ~(c[AtLeast[k]][2] <= c[k][2])
    \/ \E k \in DOMAIN AtMost : ~(c[k][2] <= c[AtMost[k]][2])

\* A listener that others can reach needs a token, or an explicit ADMIN_INSECURE.
AdminProblem(c) ==
    /\ ~Says(c.ADMIN_TOKEN)
    /\ c.ADMIN_HOST \notin {Word("localhost"), Word("::1"), Word("127.0.0.1")}
    /\ Recased(c.ADMIN_INSECURE) \notin {Word("true"), Num(1)}

ConnectionKey == [valkey |-> "VALKEY_URL", kafka |-> "KAFKA_BROKERS"]
Group         == [valkey |-> DOMAIN ValkeyKeys, kafka |-> DOMAIN KafkaKeys]
Requires      == [api |-> {}, worker |-> {"kafka"}]
On(c, name)   == Says(c[ConnectionKey[name]])

\* An integration that is off: the app needs it, or a key of its group was set.
IntegrationProblem(s, c) ==
    \E name \in {"valkey", "kafka"} :
        ~On(c, name) /\ (name \in Requires[s.app] \/ \E k \in Group[name] : Explicit(s, k))

\* The bounds by another key are looked at once everything parses.
Problem(s) ==
    LET c == Merged(s)
    IN  \/ s.typo \/ Invalid(c) \/ AdminProblem(c) \/ IntegrationProblem(s, c)
        \/ ~Invalid(c) /\ OutOfOrder(c)

------------------------------------------------------------------------------
(* kafka-config.builder.ts. The escape hatches go over everything else.    *)

KafkaPassword(c) == Or(ReadSecretFile(c, "KAFKA_SASL_PASSWORD_FILE"), c.KAFKA_SASL_PASSWORD)
KafkaCa(c) ==
    Or(c.KAFKA_SSL_CA_LOCATION, IF Says(c.KAFKA_SSL_CA_PEM) THEN Word("/tmp/kafka-ca.pem") ELSE Unset)

buildKafkaClientConfig(c) ==
    Overlay(Given([metadata_broker_list |-> ReadString(c, "KAFKA_BROKERS"),
              client_id |-> Or(c.KAFKA_CLIENT_ID, c.OTEL_SERVICE_NAME),
              security_protocol |-> Recased(ReadString(c, "KAFKA_SECURITY_PROTOCOL")),
              sasl_mechanism |-> Recased(ReadString(c, "KAFKA_SASL_MECHANISM")),
              sasl_username |-> ReadString(c, "KAFKA_SASL_USERNAME"),
              sasl_password |-> KafkaPassword(c), ssl_ca_location |-> KafkaCa(c),
              ssl_endpoint_identification_algorithm |->
                  ReadString(c, "KAFKA_SSL_ENDPOINT_IDENTIFICATION_ALGORITHM"),
              socket_timeout_ms |-> ReadInt(c, "KAFKA_REQUEST_TIMEOUT_MS"),
              topic_metadata_refresh_interval_ms |-> ReadInt(c, "KAFKA_METADATA_MAX_AGE_MS"),
              reconnect_backoff_ms |-> ReadInt(c, "KAFKA_RECONNECT_BACKOFF_MS"),
              reconnect_backoff_max_ms |-> ReadInt(c, "KAFKA_RECONNECT_BACKOFF_MAX_MS"),
              socket_keepalive_enable |-> Flag(TRUE),
              statistics_interval_ms |-> ReadInt(c, "KAFKA_STATISTICS_INTERVAL_MS"),
              message_max_bytes |-> ReadInt(c, "KAFKA_MESSAGE_MAX_BYTES")]),
         ReadJson(c, "KAFKA_EXTRA_PROPERTIES"))

\* A role's options over the client's, then the shared hatch and the role's own.
Role(c, options, hatch) ==
    Overlay(Overlay(Overlay(buildKafkaClientConfig(c), options), ReadJson(c, "KAFKA_EXTRA_PROPERTIES")),
         ReadJson(c, hatch))

buildProducerConfig(c) ==
    Role(c, [acks |-> ReadString(c, "KAFKA_PRODUCER_ACKS"),
             enable_idempotence |-> Flag(ReadBool(c, "KAFKA_PRODUCER_ENABLE_IDEMPOTENCE")),
             compression_type |-> ReadString(c, "KAFKA_PRODUCER_COMPRESSION_TYPE"),
             linger_ms |-> ReadInt(c, "KAFKA_PRODUCER_LINGER_MS"),
             message_timeout_ms |-> ReadInt(c, "KAFKA_PRODUCER_MESSAGE_TIMEOUT_MS"),
             queue_buffering_max_kbytes |-> ReadInt(c, "KAFKA_PRODUCER_QUEUE_MAX_KBYTES"),
             queue_buffering_max_messages |-> ReadInt(c, "KAFKA_PRODUCER_QUEUE_MAX_MESSAGES"),
             retries |-> Num(5)],
         "KAFKA_PRODUCER_EXTRA_PROPERTIES")

ConsumerOptions(c) ==
    [auto_offset_reset |-> ReadString(c, "KAFKA_CONSUMER_AUTO_OFFSET_RESET"),
     allow_auto_create_topics |-> Flag(TRUE),
     enable_auto_commit |-> Flag(ReadBool(c, "KAFKA_CONSUMER_ENABLE_AUTO_COMMIT")),
     session_timeout_ms |-> ReadInt(c, "KAFKA_CONSUMER_SESSION_TIMEOUT_MS"),
     max_poll_interval_ms |-> ReadInt(c, "KAFKA_CONSUMER_MAX_POLL_INTERVAL_MS"),
     partition_assignment_strategy |-> ReadString(c, "KAFKA_CONSUMER_ASSIGNMENT_STRATEGY"),
     queued_min_messages |-> Num(1000),
     queued_max_messages_kbytes |-> ReadInt(c, "KAFKA_CONSUMER_QUEUE_MAX_KBYTES"),
     fetch_max_bytes |-> ReadInt(c, "KAFKA_CONSUMER_FETCH_MAX_BYTES"),
     max_partition_fetch_bytes |-> ReadInt(c, "KAFKA_CONSUMER_PARTITION_FETCH_MAX_BYTES"),
     fetch_message_max_bytes |-> ReadInt(c, "KAFKA_CONSUMER_PARTITION_FETCH_MAX_BYTES"),
     receive_message_max_bytes |-> Num(ReadInt(c, "KAFKA_CONSUMER_FETCH_MAX_BYTES")[2] + 512)]

buildConsumerConfig(c) == Role(c, ConsumerOptions(c), "KAFKA_CONSUMER_EXTRA_PROPERTIES")

------------------------------------------------------------------------------
(* circuit-breaker.builder.ts, retry-policy.builder.ts and                 *)
(* db-rate-limiter.ts read the environment themselves: a boolean is true   *)
(* only as "true" or "1", a number that does not parse is the fallback.    *)

Loosely(t) == t \in {Word("true"), Num(1)}

BreakerKeys == [
    postgres |-> [enabled |-> "DATABASE_CB_ENABLED", timeoutMs |-> "DATABASE_CB_TIMEOUT_MS",
                  errorThresholdPct |-> "DATABASE_CB_ERROR_THRESHOLD_PCT",
                  volumeThreshold |-> "DATABASE_CB_VOLUME_THRESHOLD",
                  resetTimeoutMs |-> "DATABASE_CB_RESET_TIMEOUT_MS"],
    valkey |-> [enabled |-> "VALKEY_CB_ENABLED", timeoutMs |-> "VALKEY_CB_TIMEOUT_MS",
                errorThresholdPct |-> "VALKEY_CB_ERROR_THRESHOLD_PCT",
                volumeThreshold |-> "VALKEY_CB_VOLUME_THRESHOLD",
                resetTimeoutMs |-> "VALKEY_CB_RESET_TIMEOUT_MS"]]
RetryKeys == [
    postgres |-> [maxAttempts |-> "DATABASE_RETRY_MAX_ATTEMPTS", budgetMs |-> "DATABASE_RETRY_BUDGET_MS",
                  baseDelayMs |-> "DATABASE_RETRY_BASE_DELAY_MS",
                  maxDelayMs |-> "DATABASE_RETRY_MAX_DELAY_MS"],
    valkey |-> [maxAttempts |-> "VALKEY_RETRY_MAX_ATTEMPTS", budgetMs |-> "VALKEY_RETRY_BUDGET_MS",
                baseDelayMs |-> "VALKEY_RETRY_BASE_DELAY_MS",
                maxDelayMs |-> "VALKEY_RETRY_MAX_DELAY_MS"]]

\* Every key has a default in the registry, so no fallback is ever taken.
buildCircuitBreaker(c, store) ==
    [x \in DOMAIN BreakerKeys[store] |->
        IF x = "enabled" THEN Flag(Loosely(c[BreakerKeys[store][x]]))
        ELSE ReadInt(c, BreakerKeys[store][x])]
buildRetryPolicy(c, store) ==
    [x \in DOMAIN RetryKeys[store] |-> ReadInt(c, RetryKeys[store][x])]

------------------------------------------------------------------------------
(* valkey-config.builder.ts. A text of kind "url" is one that new URL()    *)
(* takes: what it says of TLS, user, password and database.                *)

ValkeyUrl(c)      == c.VALKEY_URL[2]
ValkeyPassword(c) == Or(c.VALKEY_PASSWORD, ValkeyUrl(c).password)
ValkeyTls(c) ==
    IF ValkeyUrl(c).secure \/ ReadBool(c, "VALKEY_TLS")
    THEN Word(IF ReadBool(c, "VALKEY_SKIP_VERIFY") THEN "unverified" ELSE "verified") ELSE Unset
MaxRetriesPerRequest(c) ==
    IF ReadString(c, "VALKEY_MAX_RETRIES_PER_REQUEST") = Word("null") THEN Null
    ELSE ReadInt(c, "VALKEY_MAX_RETRIES_PER_REQUEST")

\* What both shapes have.
ValkeyOptions(c) ==
    Given([username |-> Or(c.VALKEY_USERNAME, ValkeyUrl(c).user), password |-> ValkeyPassword(c), tls |-> ValkeyTls(c),
         db |-> Or(ReadInt(c, "VALKEY_DB"), ValkeyUrl(c).db),
         connectTimeout |-> ReadInt(c, "VALKEY_CONNECT_TIMEOUT_MS"),
         keepAlive |-> ReadInt(c, "VALKEY_KEEPALIVE_MS"), lazyConnect |-> Flag(TRUE),
         retryDelay |-> ReadInt(c, "VALKEY_RECONNECT_BASE_DELAY_MS"),
         maxRetryDelay |-> ReadInt(c, "VALKEY_RECONNECT_MAX_DELAY_MS")])

toClientOptions(c) ==
    Overlay(Overlay(ValkeyOptions(c),
              [commandTimeout |-> ReadInt(c, "VALKEY_COMMAND_TIMEOUT_MS"),
               maxRetriesPerRequest |-> MaxRetriesPerRequest(c), enableOfflineQueue |-> Flag(FALSE)]),
         ReadJson(c, "VALKEY_EXTRA_PROPERTIES"))
toBullMqOptions(c) ==
    Overlay(Overlay(ValkeyOptions(c), [maxRetriesPerRequest |-> Null, enableReadyCheck |-> Flag(FALSE)]),
         ReadJson(c, "VALKEY_EXTRA_PROPERTIES"))

------------------------------------------------------------------------------
(* postgres-config.builder.ts, connection-string.ts, pg-pool.provider.ts.  *)

\* Env keys win over what the URL says; a text that is not a URL stays as it is.
decorateConnectionString(url, params) ==
    IF url[1] = "url" THEN <<"url", [query |-> Overlay(url[2].query, Given(params))], url[3]>> ELSE url

DatabaseUrl(c, variant) == IF variant = "readonly" THEN c.DATABASE_READONLY_URL ELSE c.DATABASE_URL
SessionAttrsOf(c, variant) ==
    IF variant = "primary" THEN c.DATABASE_TARGET_SESSION_ATTRS
    ELSE Or(c.DATABASE_READONLY_TARGET_SESSION_ATTRS, Or(c.DATABASE_TARGET_SESSION_ATTRS, Word("any")))
AppName(c, variant) ==
    <<"name", <<Or(c.DATABASE_APPLICATION_NAME, c.OTEL_SERVICE_NAME), variant>>, "plain">>
Seconds(ms) == Num((ms[2] + 999) \div 1000)

PostgresCa(c)  == Or(c.DATABASE_SSL_CA_LOCATION, c.DATABASE_SSL_CA_PEM)
PostgresTls(c) ==
    IF \/ Says(PostgresCa(c)) \/ ReadBool(c, "DATABASE_SSL_SKIP_VERIFY")
       \/ Says(c.DATABASE_SSL_MODE) /\ c.DATABASE_SSL_MODE # Word("disable")
    THEN Word(IF ReadBool(c, "DATABASE_SSL_SKIP_VERIFY") THEN "unverified" ELSE "verified") ELSE Unset

\* The statements a fresh connection runs before it is handed out: a limit of 0 is none.
SessionInit(c) ==
    {k \in {"DATABASE_STATEMENT_TIMEOUT_MS", "DATABASE_IDLE_IN_TRANSACTION_TIMEOUT_MS"} :
        ReadInt(c, k)[2] > 0}

buildPostgresConfig(c, variant) ==
    Overlay(Given([connectionString |-> decorateConnectionString(DatabaseUrl(c, variant),
                 [target_session_attrs |-> SessionAttrsOf(c, variant),
                  application_name |-> AppName(c, variant),
                  connect_timeout |-> Seconds(ReadInt(c, "DATABASE_CONNECT_TIMEOUT_MS")),
                  sslmode |-> c.DATABASE_SSL_MODE,
                  password |-> ReadSecretFile(c, "DATABASE_PASSWORD_FILE")]),
              keepAlive |-> Flag(ReadBool(c, "DATABASE_KEEPALIVE")),
              keepAliveInitialDelayMillis |-> ReadInt(c, "DATABASE_KEEPALIVE_INITIAL_DELAY_MS"),
              max |-> ReadInt(c, "DATABASE_POOL_MAX"), min |-> ReadInt(c, "DATABASE_POOL_MIN"),
              idleTimeoutMillis |-> ReadInt(c, "DATABASE_POOL_IDLE_TIMEOUT_MS"),
              maxUses |-> ReadInt(c, "DATABASE_POOL_MAX_USES"),
              connectionTimeoutMillis |-> ReadInt(c, "DATABASE_CONNECT_TIMEOUT_MS"),
              application_name |-> AppName(c, variant), ssl |-> PostgresTls(c),
              query_timeout |-> ReadInt(c, "DATABASE_QUERY_TIMEOUT_MS")]),
         ReadJson(c, "DATABASE_EXTRA_PROPERTIES"))

\* Without a URL of its own the read-only pool is the primary one.
Pools(c) == {"primary"} \union IF Says(c.DATABASE_READONLY_URL) THEN {"readonly"} ELSE {}

------------------------------------------------------------------------------
(* app.module.ts, task-events.module.ts, jobs.module.ts: what an app is    *)
(* made of. A client whose factory throws ends the bootstrap; the Kafka    *)
(* clients are made when they connect.                                     *)

Parts(app, c) ==
    IF app = "api"
    THEN {"postgres"} \union (IF On(c, "valkey") THEN {"valkey", "valkey idempotency"}
                              ELSE {"postgres idempotency"})
                      \union (IF On(c, "kafka") THEN {"producer", "relay"} ELSE {})
    ELSE {"producer", "consumer"} \union IF On(c, "valkey") THEN {"bullmq"} ELSE {"postgres", "pg-boss"}

Throws(app, c) ==
    \/ /\ "postgres" \in Parts(app, c)
       /\ Unreadable(c, "DATABASE_PASSWORD_FILE") \/ Unreadable(c, "DATABASE_SSL_CA_LOCATION")
    \/ /\ Parts(app, c) \intersect {"valkey", "bullmq"} # {}
       /\ c.VALKEY_URL[1] # "url" \/ Unreadable(c, "VALKEY_CA_LOCATION")

------------------------------------------------------------------------------
(* What the settings of a process that starts can be relied on for.        *)

\* Sizes that the broker's client checks against each other fit, whatever the escape
\* hatches say, and no alias stands against its option; the times do unless a hatch
\* names them.
KafkaIsSound(c) ==
    LET k     == buildConsumerConfig(c)
        named == DOMAIN ReadJson(c, "KAFKA_EXTRA_PROPERTIES")
                 \union DOMAIN ReadJson(c, "KAFKA_CONSUMER_EXTRA_PROPERTIES")
    IN  /\ k.message_max_bytes[2] <= k.fetch_max_bytes[2]
        /\ k.max_partition_fetch_bytes[2] <= k.fetch_max_bytes[2]
        /\ k.fetch_message_max_bytes = k.max_partition_fetch_bytes
        /\ k.receive_message_max_bytes[2] = k.fetch_max_bytes[2] + 512
        /\ \/ k.session_timeout_ms[2] <= k.max_poll_interval_ms[2]
           \/ {"session_timeout_ms", "max_poll_interval_ms"} \intersect named # {}

\* BullMQ's connection has no limit on retries and no time limit on a command, and an
\* explicit password is used, unless a hatch names them.
ValkeyIsSound(c) ==
    LET b     == toBullMqOptions(c)
        named == DOMAIN ReadJson(c, "VALKEY_EXTRA_PROPERTIES")
    IN  /\ b.maxRetriesPerRequest = Null \/ "maxRetriesPerRequest" \in named
        /\ "commandTimeout" \notin DOMAIN b \/ "commandTimeout" \in named
        /\ Says(c.VALKEY_PASSWORD) /\ "password" \notin named =>
              b.password = c.VALKEY_PASSWORD /\ toClientOptions(c).password = c.VALKEY_PASSWORD

\* What is set parses; nothing is built on an integration that is off, nor is one that
\* is on left without its part; the clients' options are sound, and no breaker is at
\* work that is not switched on.
ConfigIsSound(app, c) ==
    /\ \A k \in Keys : Says(c[k]) => Parses(Registry[k], c[k])
    /\ Parts(app, c) \intersect {"producer", "consumer", "relay"} # {} <=> On(c, "kafka")
    /\ Parts(app, c) \intersect {"valkey", "valkey idempotency", "bullmq"} # {} <=> On(c, "valkey")
    /\ On(c, "kafka") => KafkaIsSound(c)
    /\ On(c, "valkey") /\ c.VALKEY_URL[1] = "url" => ValkeyIsSound(c)
    /\ \A store \in {"postgres", "valkey"} :
          buildCircuitBreaker(c, store).enabled = Flag(TRUE) => ReadBool(c, BreakerKeys[store].enabled)

\* A pool is opened with the password in the file that it was told to read, and with
\* nothing else.
SecretIsUsed(app, c) ==
    "postgres" \in Parts(app, c) /\ Says(c.DATABASE_PASSWORD_FILE) =>
        /\ c.DATABASE_PASSWORD_FILE[2] \in Files
        /\ "connectionString" \notin DOMAIN ReadJson(c, "DATABASE_EXTRA_PROPERTIES") =>
              \A v \in Pools(c) : DatabaseUrl(c, v)[1] = "url" =>
                  buildPostgresConfig(c, v).connectionString[2].query.password =
                      <<"content", c.DATABASE_PASSWORD_FILE[2], "plain">>
=============================================================================
