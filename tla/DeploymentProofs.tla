------------------------- MODULE DeploymentProofs -------------------------
(***************************************************************************)
(* What Deployment's runners and its process can be relied on for,         *)
(* whatever the number of runners, images, files, keys and requests.       *)
(***************************************************************************)
EXTENDS Deployment, WellFoundedInduction, TLAPS

------------------------------------------------------------------------------
(* The configuration, for every setup: what the loader lets pass is sound, *)
(* and a process that has made its parts uses the secret it was told to    *)
(* read.                                                                   *)


\* What an overlay has: the upper layer's entries, and the lower one's elsewhere.
LEMMA OverlayHas ==
  \A f, g, x :
     /\ x \in DOMAIN g => x \in DOMAIN Overlay(f, g) /\ Overlay(f, g)[x] = g[x]
     /\ x \notin DOMAIN g /\ x \in DOMAIN f => x \in DOMAIN Overlay(f, g) /\ Overlay(f, g)[x] = f[x]
     /\ x \in DOMAIN Overlay(f, g) => x \in DOMAIN f \/ x \in DOMAIN g
BY DEF Overlay

\* An entry that says something is given as it is.
LEMMA GivenHas ==
  \A f, x : x \in DOMAIN f /\ Says(f[x]) => x \in DOMAIN Given(f) /\ Given(f)[x] = f[x]
BY DEF Given

------------------------------------------------------------------------------
(* The registry's entries that matter.                                     *)

LEMMA SizeEntries ==
  /\ {"KAFKA_MESSAGE_MAX_BYTES", "KAFKA_CONSUMER_FETCH_MAX_BYTES",
      "KAFKA_CONSUMER_PARTITION_FETCH_MAX_BYTES", "KAFKA_CONSUMER_EXTRA_PROPERTIES"}
        \subseteq DOMAIN KafkaSizeEntries \ DOMAIN KafkaConsumerEntries
  /\ KafkaSizeEntries["KAFKA_MESSAGE_MAX_BYTES"] = Whole(1000, Num(1000000))
  /\ KafkaSizeEntries["KAFKA_CONSUMER_FETCH_MAX_BYTES"] = Whole(1000, Num(4194304))
  /\ KafkaSizeEntries["KAFKA_CONSUMER_PARTITION_FETCH_MAX_BYTES"] = Whole(1000, Num(1048576))
  /\ KafkaSizeEntries["KAFKA_CONSUMER_EXTRA_PROPERTIES"] = Json(KAFKA_OWNED_PROPERTIES)
BY DEF KafkaSizeEntries, KafkaConsumerEntries

LEMMA ConsumerEntries ==
  /\ {"KAFKA_EXTRA_PROPERTIES", "KAFKA_CONSUMER_SESSION_TIMEOUT_MS", "KAFKA_CONSUMER_MAX_POLL_INTERVAL_MS"}
        \subseteq DOMAIN KafkaConsumerEntries
  /\ KafkaConsumerEntries["KAFKA_EXTRA_PROPERTIES"] = Json(KAFKA_OWNED_PROPERTIES)
  /\ KafkaConsumerEntries["KAFKA_CONSUMER_SESSION_TIMEOUT_MS"] = Whole(1, Num(45000))
  /\ KafkaConsumerEntries["KAFKA_CONSUMER_MAX_POLL_INTERVAL_MS"] = Whole(1, Num(300000))
BY DEF KafkaConsumerEntries

\* The Kafka keys come last in the registry, so nothing else can stand for them.
LEMMA RegistryHasKafka ==
  /\ DOMAIN KafkaConsumerEntries \subseteq Keys /\ DOMAIN KafkaSizeEntries \subseteq Keys
  /\ \A k \in DOMAIN KafkaConsumerEntries : Registry[k] = KafkaConsumerEntries[k]
  /\ \A k \in DOMAIN KafkaSizeEntries \ DOMAIN KafkaConsumerEntries : Registry[k] = KafkaSizeEntries[k]
<1>1. \A k : k \in DOMAIN KafkaConsumerEntries =>
        /\ k \in DOMAIN Overlay(KafkaSizeEntries, KafkaConsumerEntries)
        /\ Overlay(KafkaSizeEntries, KafkaConsumerEntries)[k] = KafkaConsumerEntries[k]
  BY OverlayHas
<1>2. \A k : k \in DOMAIN KafkaSizeEntries =>
        /\ k \in DOMAIN Overlay(KafkaSizeEntries, KafkaConsumerEntries)
        /\ k \notin DOMAIN KafkaConsumerEntries =>
              Overlay(KafkaSizeEntries, KafkaConsumerEntries)[k] = KafkaSizeEntries[k]
  BY OverlayHas
<1>3. \A k : k \in DOMAIN Overlay(KafkaSizeEntries, KafkaConsumerEntries) =>
        k \in DOMAIN KafkaKeys /\ KafkaKeys[k] = Overlay(KafkaSizeEntries, KafkaConsumerEntries)[k]
  BY OverlayHas DEF KafkaKeys
<1>4. ASSUME NEW k \in DOMAIN KafkaKeys PROVE k \in Keys /\ Registry[k] = KafkaKeys[k]
  <2> DEFINE last == Overlay(ValkeyKeys, KafkaKeys)
             more == Overlay(Overlay(ResilienceEntries, OtherEntries), last)
             rest == Overlay(Overlay(AppEntries, AdminEntries), Overlay(DatabaseEntries, SessionEntries))
  <2>1. k \in DOMAIN last /\ last[k] = KafkaKeys[k]
    BY OverlayHas
  <2> HIDE DEF last
  <2>2. k \in DOMAIN more /\ more[k] = last[k]
    BY OverlayHas, <2>1
  <2> HIDE DEF more
  <2>3. k \in DOMAIN Overlay(rest, more) /\ Overlay(rest, more)[k] = more[k]
    BY OverlayHas, <2>2
  <2>4. Registry = Overlay(rest, more)
    BY DEF Registry, more, last
  <2> QED BY <2>1, <2>2, <2>3, <2>4 DEF Keys
<1> QED BY <1>1, <1>2, <1>3, <1>4, Zenon

------------------------------------------------------------------------------
(* What is merged and has no problem.                                      *)

\* A key with a default always says something, and what is said parses.
LEMMA MergedSays ==
  ASSUME NEW s, ~Problem(s), NEW k \in Keys, k # "OTEL_SERVICE_NAME", Says(Registry[k].default)
  PROVE  Says(Merged(s)[k]) /\ Parses(Registry[k], Merged(s)[k])
<1>1. Merged(s)[k] = Effective(s, k)
  BY DEF Merged
<1>2. Says(Effective(s, k))
  BY DEF Effective, Or, Default
<1> QED BY <1>1, <1>2 DEF Problem, Invalid

\* A number that parses is read as it is.
LEMMA NumbersAreRead ==
  ASSUME NEW c, NEW k, NEW lo, NEW hi, NEW d, Says(c[k]), Parses(Within(lo, hi, d), c[k])
  PROVE  Says(ReadInt(c, k)) /\ ReadInt(c, k)[2] = c[k][2] /\ c[k][2] \in lo .. hi
<1>1. c[k][1] = "number" /\ c[k][2] \in lo .. hi
  BY DEF Parses, Within, Entry
<1> QED BY <1>1 DEF ReadInt, Plain, Says, Unset, Empty

\* A hatch that parses names no property that has a key of its own.
LEMMA HatchesAreClean ==
  ASSUME NEW c, NEW k, NEW owned, Says(c[k]) => Parses(Json(owned), c[k])
  PROVE  DOMAIN ReadJson(c, k) \intersect owned = {}
<1>1. CASE Says(c[k])
  <2>1. DOMAIN c[k][2] \intersect owned = {}
    BY <1>1 DEF Parses, Json, Entry
  <2> QED BY <1>1, <2>1 DEF ReadJson
<1>2. CASE ~Says(c[k])
  BY <1>2 DEF ReadJson, NoOptions
<1> QED BY <1>1, <1>2

\* The numbers the consumer's options are made of.
LEMMA SizesFit ==
  ASSUME NEW s, ~Problem(s)
  PROVE  LET c == Merged(s)
             v(k) == ReadInt(c, k)[2]
         IN  /\ Says(ReadInt(c, "KAFKA_MESSAGE_MAX_BYTES"))
             /\ v("KAFKA_MESSAGE_MAX_BYTES") <= v("KAFKA_CONSUMER_FETCH_MAX_BYTES")
             /\ v("KAFKA_CONSUMER_PARTITION_FETCH_MAX_BYTES") <= v("KAFKA_CONSUMER_FETCH_MAX_BYTES")
             /\ v("KAFKA_CONSUMER_SESSION_TIMEOUT_MS") <= v("KAFKA_CONSUMER_MAX_POLL_INTERVAL_MS")
<1> DEFINE c == Merged(s)
           sized == {"KAFKA_MESSAGE_MAX_BYTES", "KAFKA_CONSUMER_FETCH_MAX_BYTES",
                     "KAFKA_CONSUMER_PARTITION_FETCH_MAX_BYTES", "KAFKA_CONSUMER_SESSION_TIMEOUT_MS",
                     "KAFKA_CONSUMER_MAX_POLL_INTERVAL_MS"}
<1>1. ASSUME NEW k \in sized PROVE Says(ReadInt(c, k)) /\ ReadInt(c, k)[2] = c[k][2]
  <2>1. PICK lo, d : k \in Keys /\ Registry[k] = Whole(lo, Num(d))
    BY RegistryHasKafka, SizeEntries, ConsumerEntries
  <2>2. Says(Registry[k].default)
    BY <2>1 DEF Whole, Within, Entry, Num, Says, Unset, Empty
  <2>3. Says(c[k]) /\ Parses(Registry[k], c[k])
    BY <2>1, <2>2, MergedSays
  <2> QED BY <2>1, <2>3, NumbersAreRead DEF Whole
<1>2. ~OutOfOrder(c)
  BY DEF Problem
<1>3. /\ c["KAFKA_MESSAGE_MAX_BYTES"][2] <= c["KAFKA_CONSUMER_FETCH_MAX_BYTES"][2]
      /\ c["KAFKA_CONSUMER_SESSION_TIMEOUT_MS"][2] <= c["KAFKA_CONSUMER_MAX_POLL_INTERVAL_MS"][2]
  BY <1>2 DEF OutOfOrder, AtLeast
<1>4. c["KAFKA_CONSUMER_PARTITION_FETCH_MAX_BYTES"][2] <= c["KAFKA_CONSUMER_FETCH_MAX_BYTES"][2]
  BY <1>2 DEF OutOfOrder, AtMost
<1> QED BY <1>1, <1>3, <1>4

------------------------------------------------------------------------------
(* Options.                                                                *)

\* What no hatch names is what the role says, or else what the client says.
LEMMA RoleKeeps ==
  ASSUME NEW c, NEW options, NEW hatch, NEW x,
         x \notin DOMAIN ReadJson(c, "KAFKA_EXTRA_PROPERTIES"), x \notin DOMAIN ReadJson(c, hatch)
  PROVE  /\ x \in DOMAIN options => Role(c, options, hatch)[x] = options[x]
         /\ x \notin DOMAIN options /\ x \in DOMAIN buildKafkaClientConfig(c) =>
               Role(c, options, hatch)[x] = buildKafkaClientConfig(c)[x]
<1> DEFINE low == buildKafkaClientConfig(c)
           shared == ReadJson(c, "KAFKA_EXTRA_PROPERTIES")
           own == ReadJson(c, hatch)
<1>1. Role(c, options, hatch) = Overlay(Overlay(Overlay(low, options), shared), own)
  BY DEF Role
<1> HIDE DEF low, shared, own
<1>2. x \notin DOMAIN shared /\ x \notin DOMAIN own
  BY DEF shared, own
<1> DEFINE role == Overlay(low, options)
<1>3. x \in DOMAIN role => Overlay(Overlay(role, shared), own)[x] = role[x]
  <2>1. x \in DOMAIN role =>
          x \in DOMAIN Overlay(role, shared) /\ Overlay(role, shared)[x] = role[x]
    BY OverlayHas, <1>2
  <2> DEFINE upper == Overlay(role, shared)
  <2>2. x \in DOMAIN upper => Overlay(upper, own)[x] = upper[x]
    BY OverlayHas, <1>2
  <2> QED BY <2>1, <2>2
<1>4. /\ x \in DOMAIN options => x \in DOMAIN role /\ role[x] = options[x]
      /\ x \notin DOMAIN options /\ x \in DOMAIN low => x \in DOMAIN role /\ role[x] = low[x]
  BY OverlayHas
<1> HIDE DEF role
<1> QED BY <1>1, <1>3, <1>4 DEF low, role

\* The client's limit on a message is the one of its key.
LEMMA ClientKeepsSize ==
  ASSUME NEW c, Says(ReadInt(c, "KAFKA_MESSAGE_MAX_BYTES")),
         "message_max_bytes" \notin DOMAIN ReadJson(c, "KAFKA_EXTRA_PROPERTIES")
  PROVE  /\ "message_max_bytes" \in DOMAIN buildKafkaClientConfig(c)
         /\ buildKafkaClientConfig(c)["message_max_bytes"] = ReadInt(c, "KAFKA_MESSAGE_MAX_BYTES")
<1>1. PICK f : /\ buildKafkaClientConfig(c) = Overlay(Given(f), ReadJson(c, "KAFKA_EXTRA_PROPERTIES"))
               /\ "message_max_bytes" \in DOMAIN f
               /\ f["message_max_bytes"] = ReadInt(c, "KAFKA_MESSAGE_MAX_BYTES")
  BY DEF buildKafkaClientConfig
<1>2. /\ "message_max_bytes" \in DOMAIN Given(f)
      /\ Given(f)["message_max_bytes"] = ReadInt(c, "KAFKA_MESSAGE_MAX_BYTES")
  BY GivenHas, <1>1
<1> QED BY OverlayHas, <1>1, <1>2

\* A consumer's sizes fit each other, and its times do unless a hatch names them.
LEMMA KafkaStaysSound ==
  ASSUME NEW s, ~Problem(s) PROVE KafkaIsSound(Merged(s))
<1> DEFINE c == Merged(s)
           k == buildConsumerConfig(c)
           shared == DOMAIN ReadJson(c, "KAFKA_EXTRA_PROPERTIES")
           own == DOMAIN ReadJson(c, "KAFKA_CONSUMER_EXTRA_PROPERTIES")
<1>1. shared \intersect KAFKA_OWNED_PROPERTIES = {} /\ own \intersect KAFKA_OWNED_PROPERTIES = {}
  <2>1. ASSUME NEW h \in {"KAFKA_EXTRA_PROPERTIES", "KAFKA_CONSUMER_EXTRA_PROPERTIES"}
        PROVE  Says(c[h]) => Parses(Json(KAFKA_OWNED_PROPERTIES), c[h])
    <3>1. h \in Keys /\ Registry[h] = Json(KAFKA_OWNED_PROPERTIES)
      BY RegistryHasKafka, SizeEntries, ConsumerEntries
    <3> QED BY <3>1 DEF Problem, Invalid
  <2> QED BY <2>1, HatchesAreClean
<1>2. \A x : x \notin shared /\ x \notin own =>
        /\ x \in DOMAIN ConsumerOptions(c) => k[x] = ConsumerOptions(c)[x]
        /\ x \notin DOMAIN ConsumerOptions(c) /\ x \in DOMAIN buildKafkaClientConfig(c) =>
              k[x] = buildKafkaClientConfig(c)[x]
  BY RoleKeeps DEF buildConsumerConfig
<1>3. {"queued_max_messages_kbytes", "fetch_max_bytes", "max_partition_fetch_bytes",
       "fetch_message_max_bytes", "receive_message_max_bytes", "message_max_bytes"}
         \subseteq KAFKA_OWNED_PROPERTIES
  BY DEF KAFKA_OWNED_PROPERTIES
<1>4. k["message_max_bytes"] = ReadInt(c, "KAFKA_MESSAGE_MAX_BYTES")
  <2>1. "message_max_bytes" \notin shared /\ "message_max_bytes" \notin own
    BY <1>1, <1>3
  <2>2. "message_max_bytes" \notin DOMAIN ConsumerOptions(c)
    BY DEF ConsumerOptions
  <2>3. Says(ReadInt(c, "KAFKA_MESSAGE_MAX_BYTES"))
    BY SizesFit
  <2> HIDE DEF c, k
  <2>4. /\ "message_max_bytes" \in DOMAIN buildKafkaClientConfig(c)
        /\ buildKafkaClientConfig(c)["message_max_bytes"] = ReadInt(c, "KAFKA_MESSAGE_MAX_BYTES")
    BY <2>1, <2>3, ClientKeepsSize
  <2> QED BY <1>2, <2>1, <2>2, <2>4
<1>5. /\ k["fetch_max_bytes"] = ReadInt(c, "KAFKA_CONSUMER_FETCH_MAX_BYTES")
      /\ k["max_partition_fetch_bytes"] = ReadInt(c, "KAFKA_CONSUMER_PARTITION_FETCH_MAX_BYTES")
      /\ k["fetch_message_max_bytes"] = ReadInt(c, "KAFKA_CONSUMER_PARTITION_FETCH_MAX_BYTES")
      /\ k["receive_message_max_bytes"] = Num(ReadInt(c, "KAFKA_CONSUMER_FETCH_MAX_BYTES")[2] + 512)
  <2>1. /\ "fetch_max_bytes" \notin shared \union own
        /\ "max_partition_fetch_bytes" \notin shared \union own
        /\ "fetch_message_max_bytes" \notin shared \union own
        /\ "receive_message_max_bytes" \notin shared \union own
    BY <1>1, <1>3
  <2> HIDE DEF c, k, shared, own
  <2> QED BY <1>2, <2>1 DEF ConsumerOptions
<1>6. {"session_timeout_ms", "max_poll_interval_ms"} \intersect (shared \union own) = {} =>
        /\ k["session_timeout_ms"] = ReadInt(c, "KAFKA_CONSUMER_SESSION_TIMEOUT_MS")
        /\ k["max_poll_interval_ms"] = ReadInt(c, "KAFKA_CONSUMER_MAX_POLL_INTERVAL_MS")
  <2> HIDE DEF c, k, shared, own
  <2> QED BY <1>2 DEF ConsumerOptions
<1>7. /\ ReadInt(c, "KAFKA_MESSAGE_MAX_BYTES")[2] <= ReadInt(c, "KAFKA_CONSUMER_FETCH_MAX_BYTES")[2]
      /\ ReadInt(c, "KAFKA_CONSUMER_PARTITION_FETCH_MAX_BYTES")[2]
            <= ReadInt(c, "KAFKA_CONSUMER_FETCH_MAX_BYTES")[2]
      /\ ReadInt(c, "KAFKA_CONSUMER_SESSION_TIMEOUT_MS")[2]
            <= ReadInt(c, "KAFKA_CONSUMER_MAX_POLL_INTERVAL_MS")[2]
  BY SizesFit
<1> HIDE DEF c, k
<1>8. \A n : Num(n)[2] = n
  BY DEF Num
<1>9. KafkaIsSound(c)
  BY <1>4, <1>5, <1>6, <1>7, <1>8 DEF KafkaIsSound, k
<1> QED BY <1>9 DEF c

\* BullMQ's connection, and an explicit password.
LEMMA ValkeyStaysSound ==
  ASSUME NEW c PROVE ValkeyIsSound(c)
<1> DEFINE hatch == ReadJson(c, "VALKEY_EXTRA_PROPERTIES")
           forced == [maxRetriesPerRequest |-> Null, enableReadyCheck |-> Flag(FALSE)]
           client == [commandTimeout |-> ReadInt(c, "VALKEY_COMMAND_TIMEOUT_MS"),
                      maxRetriesPerRequest |-> MaxRetriesPerRequest(c), enableOfflineQueue |-> Flag(FALSE)]
<1>1. /\ toBullMqOptions(c) = Overlay(Overlay(ValkeyOptions(c), forced), hatch)
      /\ toClientOptions(c) = Overlay(Overlay(ValkeyOptions(c), client), hatch)
  BY DEF toBullMqOptions, toClientOptions
<1>2. /\ "maxRetriesPerRequest" \in DOMAIN forced /\ forced["maxRetriesPerRequest"] = Null
      /\ "commandTimeout" \notin DOMAIN forced
      /\ "password" \notin DOMAIN forced /\ "password" \notin DOMAIN client
  OBVIOUS
<1>3. "commandTimeout" \notin DOMAIN ValkeyOptions(c)
  BY DEF ValkeyOptions, Given
<1>4. Says(c.VALKEY_PASSWORD) =>
        "password" \in DOMAIN ValkeyOptions(c) /\ ValkeyOptions(c)["password"] = c.VALKEY_PASSWORD
  BY DEF ValkeyOptions, Given, ValkeyPassword, Or
<1> HIDE DEF hatch, forced, client
<1>5. "maxRetriesPerRequest" \notin DOMAIN hatch => toBullMqOptions(c)["maxRetriesPerRequest"] = Null
  <2>1. /\ "maxRetriesPerRequest" \in DOMAIN Overlay(ValkeyOptions(c), forced)
        /\ Overlay(ValkeyOptions(c), forced)["maxRetriesPerRequest"] = Null
    BY OverlayHas, <1>2
  <2> QED BY OverlayHas, <1>1, <2>1
<1>6. "commandTimeout" \notin DOMAIN hatch => "commandTimeout" \notin DOMAIN toBullMqOptions(c)
  <2>1. "commandTimeout" \notin DOMAIN Overlay(ValkeyOptions(c), forced)
    BY OverlayHas, <1>2, <1>3
  <2> QED BY OverlayHas, <1>1, <2>1
<1>7. Says(c.VALKEY_PASSWORD) /\ "password" \notin DOMAIN hatch =>
         /\ toBullMqOptions(c)["password"] = c.VALKEY_PASSWORD
         /\ toClientOptions(c)["password"] = c.VALKEY_PASSWORD
  <2>1. ASSUME NEW o \in {forced, client}, Says(c.VALKEY_PASSWORD), "password" \notin DOMAIN hatch
        PROVE  Overlay(Overlay(ValkeyOptions(c), o), hatch)["password"] = c.VALKEY_PASSWORD
    <3>1. /\ "password" \in DOMAIN Overlay(ValkeyOptions(c), o)
          /\ Overlay(ValkeyOptions(c), o)["password"] = c.VALKEY_PASSWORD
      BY OverlayHas, <1>2, <1>4, <2>1
    <3> QED BY OverlayHas, <2>1, <3>1
  <2> QED BY <1>1, <2>1
<1> QED BY <1>5, <1>6, <1>7 DEF ValkeyIsSound, hatch

------------------------------------------------------------------------------
(* The whole of it.                                                        *)

\* An app has the parts of an integration when it is on.
LEMMA PartsFollow ==
  ASSUME NEW c, NEW app \in {"api", "worker"}, app = "worker" => On(c, "kafka")
  PROVE  /\ Parts(app, c) \intersect {"producer", "consumer", "relay"} # {} <=> On(c, "kafka")
         /\ Parts(app, c) \intersect {"valkey", "valkey idempotency", "bullmq"} # {} <=> On(c, "valkey")
<1>1. CASE app = "api"
  BY <1>1, Zenon DEF Parts
<1>2. CASE app = "worker"
  BY <1>2, Zenon DEF Parts
<1> QED BY <1>1, <1>2

\* A breaker that is at work was switched on.
LEMMA BreakersFollow ==
  ASSUME NEW c, NEW store \in {"postgres", "valkey"},
         buildCircuitBreaker(c, store)["enabled"] = Flag(TRUE)
  PROVE  ReadBool(c, BreakerKeys[store]["enabled"])
<1>1. "enabled" \in DOMAIN BreakerKeys[store]
  BY DEF BreakerKeys
<1>2. buildCircuitBreaker(c, store)["enabled"] = Flag(Loosely(c[BreakerKeys[store]["enabled"]]))
  BY <1>1 DEF buildCircuitBreaker
<1>3. Loosely(c[BreakerKeys[store]["enabled"]])
  BY <1>2 DEF Flag, Word
<1> QED BY <1>3 DEF Loosely, ReadBool, Plain, Word, Num

\* What the loader lets pass is sound, whatever the environment and the file say.
LEMMA LoadedConfigIsSound ==
  ASSUME NEW s, s.app \in {"api", "worker"}, ~Problem(s)
  PROVE  ConfigIsSound(s.app, Merged(s))
<1> DEFINE c == Merged(s)
<1>1. \A k \in Keys : Says(c[k]) => Parses(Registry[k], c[k])
  BY DEF Problem, Invalid
<1>2. s.app = "worker" => On(c, "kafka")
  <2>1. ~IntegrationProblem(s, c)
    BY DEF Problem
  <2> QED BY <2>1 DEF IntegrationProblem, Requires
<1>3. KafkaIsSound(c) /\ ValkeyIsSound(c)
  BY KafkaStaysSound, ValkeyStaysSound
<1>4. \A store \in {"postgres", "valkey"} :
        buildCircuitBreaker(c, store)["enabled"] = Flag(TRUE) => ReadBool(c, BreakerKeys[store]["enabled"])
  BY BreakersFollow
<1> HIDE DEF c
<1>5. ConfigIsSound(s.app, c)
  BY <1>1, <1>2, <1>3, <1>4, PartsFollow DEF ConfigIsSound
<1> QED BY <1>5 DEF c

\* A pool that is made uses the password in the file.
LEMMA MadePartsUseTheSecret ==
  ASSUME NEW app, NEW c, ~Throws(app, c) PROVE SecretIsUsed(app, c)
<1> SUFFICES ASSUME "postgres" \in Parts(app, c), Says(c.DATABASE_PASSWORD_FILE)
             PROVE  /\ c.DATABASE_PASSWORD_FILE[2] \in Files
                    /\ "connectionString" \notin DOMAIN ReadJson(c, "DATABASE_EXTRA_PROPERTIES") =>
                         \A v \in Pools(c) : DatabaseUrl(c, v)[1] = "url" =>
                             buildPostgresConfig(c, v).connectionString[2].query.password =
                                 <<"content", c.DATABASE_PASSWORD_FILE[2], "plain">>
  BY DEF SecretIsUsed
<1>1. c.DATABASE_PASSWORD_FILE[2] \in Files
  BY DEF Throws, Unreadable
<1>2. ASSUME "connectionString" \notin DOMAIN ReadJson(c, "DATABASE_EXTRA_PROPERTIES"),
             NEW v \in Pools(c), DatabaseUrl(c, v)[1] = "url"
      PROVE  buildPostgresConfig(c, v)["connectionString"][2]["query"]["password"] =
                 <<"content", c.DATABASE_PASSWORD_FILE[2], "plain">>
  <2> DEFINE secret == <<"content", c.DATABASE_PASSWORD_FILE[2], "plain">>
             hatch == ReadJson(c, "DATABASE_EXTRA_PROPERTIES")
  <2>1. PICK f, params :
          /\ buildPostgresConfig(c, v) = Overlay(Given(f), hatch)
          /\ "connectionString" \in DOMAIN f
          /\ f["connectionString"] = decorateConnectionString(DatabaseUrl(c, v), params)
          /\ "password" \in DOMAIN params
          /\ params["password"] = ReadSecretFile(c, "DATABASE_PASSWORD_FILE")
    BY DEF buildPostgresConfig
  <2>2. params["password"] = secret /\ Says(params["password"])
    <3>1. ReadSecretFile(c, "DATABASE_PASSWORD_FILE") = secret
      BY DEF ReadSecretFile
    <3>2. Says(secret)
      BY DEF Says, Unset, Empty
    <3> QED BY <2>1, <3>1, <3>2
  <2>3. /\ f["connectionString"] = <<"url", [query |-> Overlay(DatabaseUrl(c, v)[2].query, Given(params))],
                                     DatabaseUrl(c, v)[3]>>
        /\ Says(f["connectionString"])
    <3>1. f["connectionString"] =
            <<"url", [query |-> Overlay(DatabaseUrl(c, v)[2].query, Given(params))], DatabaseUrl(c, v)[3]>>
      BY <1>2, <2>1 DEF decorateConnectionString
    <3>2. \A x, y : Says(<<"url", x, y>>)
      BY DEF Says, Unset, Empty
    <3> QED BY <3>1, <3>2
  <2>4. Overlay(DatabaseUrl(c, v)[2].query, Given(params))["password"] = secret
    <3>1. "password" \in DOMAIN Given(params) /\ Given(params)["password"] = secret
      BY GivenHas, <2>1, <2>2
    <3> QED BY OverlayHas, <3>1
  <2>5. buildPostgresConfig(c, v)["connectionString"] = f["connectionString"]
    <3>1. /\ "connectionString" \in DOMAIN Given(f)
          /\ Given(f)["connectionString"] = f["connectionString"]
      BY GivenHas, <2>1, <2>3
    <3> QED BY OverlayHas, <1>2, <2>1, <3>1
  <2> QED BY <2>3, <2>4, <2>5
<1> QED BY <1>1, <1>2

------------------------------------------------------------------------------
(* The next file to run is the least of those that are pending.            *)

Less == {p \in Nat \X Nat : p[1] < p[2]}

LEMMA LessIsWellFounded == IsWellFoundedOn(Less, Nat)
<1>1. Less = OpToRel(<, Nat)
  BY DEF Less, OpToRel
<1> QED BY <1>1, NatLessThanWellFounded

\* A set of numbers that is not empty has a least one.
LEMMA LeastExists ==
  ASSUME NEW T \in SUBSET Nat, T # {}
  PROVE  \E x \in T : \A y \in T : x <= y
<1>1. PICK x \in T : \A y \in T : ~(<<y, x>> \in Less)
  BY LessIsWellFounded, WFMin
<1>2. ASSUME NEW y \in T PROVE x <= y
  <2>1. ~(<<y, x>> \in Less)
    BY <1>1
  <2>2. <<y, x>> \in Nat \X Nat /\ <<y, x>>[1] = y /\ <<y, x>>[2] = x
    OBVIOUS
  <2>3. ~(y < x)
    BY <2>1, <2>2 DEF Less
  <2> QED BY <2>3, SMT
<1> QED BY <1>2, Zenon

\* Current picks it.
LEMMA CurrentIsLeast ==
  ASSUME MTypeOK, NEW r \in Runners, Pending(r) # {}
  PROVE  Current(r) \in Pending(r) /\ \A w \in Pending(r) : Current(r) <= w
<1>1. Pending(r) \in SUBSET Nat
  BY MigrationsAssumption DEF MTypeOK, Pending
<1>2. \E x \in Pending(r) : \A y \in Pending(r) : x <= y
  BY <1>1, LeastExists
<1> QED BY <1>2 DEF Current

------------------------------------------------------------------------------
(* The runners' inductive invariant.                                       *)

\* Who works has the lock.
LockInv ==
    \A r \in Runners : runner[r] \in {"read", "next", "record", "unlock", "refuse"} => lock = r

\* What it takes for applied is what is applied; the statements of a file without a
\* transaction are done when its row is due.
KnowsInv ==
    \A r \in Runners :
        /\ runner[r] \in {"next", "record"} => applied[r] = InTable
        /\ runner[r] = "record" =>
              /\ Pending(r) # {}
              /\ Current(r) \in NoTransaction => executed[Current(r)] > 0

\* A file that is done and not recorded is one at whose row a runner is, or was when
\* it died.
OnceInv ==
    \A v \in Versions :
        /\ v \in InTable => executed[v] > 0
        /\ v \notin NoTransaction => executed[v] = IF v \in InTable THEN 1 ELSE 0
        /\ executed[v] > 1 => deaths > 0
        /\ executed[v] > 0 /\ v \notin InTable =>
              deaths > 0 \/ \E r \in Runners : runner[r] = "record" /\ Current(r) = v

OrderInv == \A v, w \in Versions : v < w /\ executed[w] > 0 => v \in InTable

MInv == MTypeOK /\ LockInv /\ KnowsInv /\ OnceInv /\ OrderInv

\* A later image has every file of an earlier one: its files are a beginning of the
\* list.
ImagesAreHistories ==
    \A r \in Runners : \A v, w \in Versions : v < w /\ w \in Ships[r] => v \in Ships[r]

LEMMA MInitInv == MInit => MInv
<1> SUFFICES ASSUME MInit PROVE MInv
  OBVIOUS
<1>1. InTable = {}
  BY DEF MInit, InTable
<1> QED
  BY <1>1, MigrationsAssumption DEF MInit, MInv, MTypeOK, LockInv, KnowsInv, OnceInv, OrderInv

LEMMA MInvSound == MInv => SchemaIsSound
BY MigrationsAssumption DEF MInv, MTypeOK, OnceInv, OrderInv, SchemaIsSound, InTable

\* Steps that change neither what is carried out nor what is recorded.
LEMMA TableUnchanged ==
  ASSUME UNCHANGED recorded PROVE InTable' = InTable
BY DEF InTable

LEMMA LocksInv ==
  ASSUME MInv, NEW r \in Runners, Locks(r) PROVE MInv'
<1> USE DEF MInv, Locks, LockIsFree, Moves
<1>1. InTable' = InTable
  BY TableUnchanged
<1>2. \A q \in Runners : runner[q] \notin {"read", "next", "record", "unlock", "refuse"}
  BY MigrationsAssumption DEF LockInv
<1>3. \A q \in Runners : runner'[q] \notin {"next", "record", "unlock", "refuse"}
  BY <1>2 DEF MTypeOK
<1>4. MTypeOK'
  BY DEF MTypeOK
<1>5. LockInv'
  BY <1>2 DEF LockInv, MTypeOK
<1>6. KnowsInv'
  BY <1>3 DEF KnowsInv
<1>7. OnceInv'
  <2>1. \A v \in Versions : executed[v] > 0 /\ v \notin InTable => deaths > 0
    BY <1>2 DEF OnceInv
  <2> QED BY <1>1, <2>1 DEF OnceInv
<1>8. OrderInv'
  BY <1>1 DEF OrderInv
<1> QED BY <1>4, <1>5, <1>6, <1>7, <1>8

\* The others are not at work while one is.
LEMMA OthersWait ==
  ASSUME MInv, NEW r \in Runners, runner[r] \in {"read", "next", "record", "unlock", "refuse"},
         NEW q \in Runners, q # r
  PROVE  runner[q] \in {"start", "done", "failed"}
BY DEF MInv, LockInv, MTypeOK

LEMMA ReadsInv ==
  ASSUME MInv, NEW r \in Runners, Reads(r) PROVE MInv'
<1> USE DEF MInv, Reads, Moves, Learns
<1>1. InTable' = InTable
  BY TableUnchanged
<1>2. \A q \in Runners : q # r => runner'[q] \in {"start", "done", "failed"}
  BY OthersWait DEF MTypeOK
<1>3. runner'[r] \in {"next", "refuse"} /\ (runner'[r] = "next" => applied'[r] = InTable)
  BY DEF MTypeOK
<1>4. MTypeOK'
  <2>1. InTable \in SUBSET Versions
    BY DEF InTable
  <2> QED BY <2>1 DEF MTypeOK
<1>5. LockInv'
  BY <1>2 DEF LockInv, MTypeOK
<1>6. KnowsInv'
  BY <1>1, <1>2, <1>3 DEF KnowsInv
<1>7. OnceInv'
  <2>1. \A q \in Runners : runner[q] # "record"
    BY OthersWait
  <2> QED BY <1>1, <2>1 DEF OnceInv
<1>8. OrderInv'
  BY <1>1 DEF OrderInv
<1> QED BY <1>4, <1>5, <1>6, <1>7, <1>8

\* The file that is run is the least of those that are not in the table.
LEMMA CurrentIsNext ==
  ASSUME ImagesAreHistories, MInv, NEW r \in Runners, runner[r] \in {"next", "record"},
         Pending(r) # {}
  PROVE  /\ Current(r) \in Versions /\ Current(r) \notin InTable
         /\ \A v \in Versions : v < Current(r) => v \in InTable
<1> DEFINE c == Current(r)
<1>1. c \in Pending(r) /\ \A w \in Pending(r) : c <= w
  BY CurrentIsLeast DEF MInv
<1>2. applied[r] = InTable
  BY DEF MInv, KnowsInv
<1>3. c \in Versions /\ c \in Ships[r] /\ c \notin InTable
  BY <1>1, <1>2, MigrationsAssumption DEF Pending
<1>4. ASSUME NEW v \in Versions, v < c PROVE v \in InTable
  <2>1. v \in Nat /\ c \in Nat
    BY <1>3, MigrationsAssumption
  <2>2. v \in Ships[r]
    BY <1>3, <1>4 DEF ImagesAreHistories
  <2>3. v \notin Pending(r)
    BY <1>1, <1>4, <2>1
  <2> QED BY <1>2, <2>2, <2>3 DEF Pending
<1> QED BY <1>3, <1>4

LEMMA RunsFileInv ==
  ASSUME ImagesAreHistories, MInv, NEW r \in Runners, RunsFile(r) PROVE MInv'
<1> USE DEF MInv, RunsFile, Moves, Executes
<1> DEFINE c == Current(r)
<1>1. InTable' = InTable
  BY TableUnchanged
<1>2. c \in Versions /\ c \notin InTable /\ \A v \in Versions : v < c => v \in InTable
  BY CurrentIsNext
<1>3. Pending(r)' = Pending(r) /\ Current(r)' = c
  BY DEF Pending, Current
<1>4. \A q \in Runners : q # r => runner'[q] = runner[q] /\ runner[q] \in {"start", "done", "failed"}
  BY OthersWait DEF MTypeOK
<1>5. runner'[r] = "record"
  BY DEF MTypeOK
<1>6. \/ executed' = [executed EXCEPT ![c] = @ + 1] /\ c \in NoTransaction
      \/ executed' = executed /\ c \notin NoTransaction
  OBVIOUS
<1> HIDE DEF c
<1>7. MTypeOK'
  BY <1>2, <1>6 DEF MTypeOK
<1>8. LockInv'
  BY <1>4 DEF LockInv, MTypeOK
<1>9. KnowsInv'
  <2>1. c \in NoTransaction => executed'[c] > 0
    BY <1>2, <1>6 DEF MTypeOK
  <2> QED BY <1>1, <1>3, <1>4, <1>5, <2>1 DEF KnowsInv, c
<1>10. OnceInv'
  <2> SUFFICES ASSUME NEW v \in Versions PROVE OnceInv!(v)'
    BY DEF OnceInv
  <2>1. executed[v] \in Nat
    BY DEF MTypeOK
  <2>2. CASE v = c /\ c \in NoTransaction
    <3>1. executed'[v] = executed[v] + 1 /\ v \notin InTable
      BY <1>2, <1>6, <2>2 DEF MTypeOK
    <3>2. executed[v] > 0 => deaths > 0
      <4>1. \A q \in Runners : runner[q] # "record"
        BY <1>4
      <4> QED BY <4>1, <3>1 DEF OnceInv
    <3>3. runner'[r] = "record" /\ Current(r)' = v
      BY <1>3, <1>5, <2>2
    <3> QED BY <1>1, <2>1, <2>2, <3>1, <3>2, <3>3
  <2>3. CASE ~(v = c /\ c \in NoTransaction)
    <3>1. executed'[v] = executed[v]
      BY <1>6, <2>3 DEF MTypeOK
    <3>2. \A q \in Runners : runner[q] # "record"
      BY <1>4
    <3> QED BY <1>1, <3>1, <3>2 DEF OnceInv
  <2> QED BY <2>2, <2>3
<1>11. OrderInv'
  BY <1>1, <1>2, <1>6 DEF OrderInv, MTypeOK
<1> QED BY <1>7, <1>8, <1>9, <1>10, <1>11

LEMMA RecordsInv ==
  ASSUME ImagesAreHistories, MInv, NEW r \in Runners, Records(r) PROVE MInv'
<1> USE DEF MInv, Records, Moves, Learns, Enters, Executes
<1> DEFINE c == Current(r)
<1>1. Pending(r) # {} /\ (c \in NoTransaction => executed[c] > 0) /\ applied[r] = InTable
  BY DEF KnowsInv
<1>2. c \in Versions /\ c \notin InTable /\ \A v \in Versions : v < c => v \in InTable
  BY <1>1, CurrentIsNext
<1>3. \A q \in Runners : q # r => runner'[q] = runner[q] /\ runner[q] \in {"start", "done", "failed"}
  BY OthersWait DEF MTypeOK
<1>4. runner'[r] = "next" /\ applied' = [applied EXCEPT ![r] = applied[r] \union {c}]
  BY DEF MTypeOK
<1>5. \/ executed' = [executed EXCEPT ![c] = @ + 1] /\ c \notin NoTransaction
      \/ executed' = executed /\ c \in NoTransaction
  OBVIOUS
<1>6. InTable' = InTable \union {c}
  <2>1. recorded' = [recorded EXCEPT ![c] = File(r, c)] /\ File(r, c) \in {"original", "edited"}
    BY DEF File
  <2> QED BY <1>2, <2>1 DEF InTable, MTypeOK
<1>7. runner[r] = "record" /\ deaths' = deaths /\ lock' = lock
  OBVIOUS
<1>8. MTypeOK'
  <2>1. recorded' \in [Versions -> {"none", "original", "edited"}]
    BY <1>2 DEF File, MTypeOK
  <2> HIDE DEF c
  <2> QED BY <1>2, <1>4, <1>5, <2>1 DEF MTypeOK
<1> HIDE DEF c, Records
<1>9. LockInv'
  BY <1>3, <1>7 DEF LockInv, MTypeOK
<1>10. KnowsInv'
  BY <1>1, <1>3, <1>4, <1>6 DEF KnowsInv, MTypeOK
<1>11. OnceInv'
  <2> SUFFICES ASSUME NEW v \in Versions PROVE OnceInv!(v)'
    BY DEF OnceInv
  <2>1. executed[v] \in Nat /\ OnceInv!(v)
    BY DEF MTypeOK, OnceInv
  <2>2. CASE v = c
    <3>1. executed'[v] = IF v \in NoTransaction THEN executed[v] ELSE executed[v] + 1
      BY <1>2, <1>5, <2>2 DEF MTypeOK
    <3> QED BY <1>1, <1>2, <1>6, <1>7, <2>1, <2>2, <3>1
  <2>3. CASE v # c
    <3>1. executed'[v] = executed[v] /\ (v \in InTable' <=> v \in InTable)
      BY <1>5, <1>6, <2>3 DEF MTypeOK
    <3>2. ~\E q \in Runners : runner[q] = "record" /\ Current(q) = v
      BY <1>3, <2>3 DEF c
    <3> QED BY <1>7, <2>1, <3>1, <3>2
  <2> QED BY <2>2, <2>3
<1>12. OrderInv'
  BY <1>2, <1>5, <1>6 DEF OrderInv, MTypeOK
<1> QED BY <1>8, <1>9, <1>10, <1>11, <1>12

\* A file that is refused leaves no trace, nor does a runner that goes on.
LEMMA QuietInv ==
  ASSUME MInv, NEW r \in Runners, Fails(r) \/ Finds(r) PROVE MInv'
<1> USE DEF MInv, Fails, Finds, Moves
<1>1. InTable' = InTable
  BY TableUnchanged
<1>2. \A q \in Runners : q # r => runner'[q] = runner[q] /\ runner[q] \in {"start", "done", "failed"}
  BY OthersWait DEF MTypeOK
<1>3. runner'[r] \in {"unlock", "refuse"}
  BY DEF MTypeOK
<1>4. runner[r] = "record" => Current(r) \in InTable
  OBVIOUS
<1>5. MTypeOK'
  BY DEF MTypeOK
<1>6. LockInv'
  BY <1>2 DEF LockInv, MTypeOK
<1>7. KnowsInv'
  BY <1>1, <1>2, <1>3 DEF KnowsInv
<1>8. OnceInv'
  <2>1. \A v \in Versions : v \notin InTable =>
           ~\E q \in Runners : runner[q] = "record" /\ Current(q) = v
    BY <1>2, <1>4
  <2> QED BY <1>1, <2>1 DEF OnceInv
<1>9. OrderInv'
  BY <1>1 DEF OrderInv
<1> QED BY <1>5, <1>6, <1>7, <1>8, <1>9

LEMMA UnlocksInv ==
  ASSUME MInv, NEW r \in Runners, Unlocks(r) PROVE MInv'
<1> USE DEF MInv, Unlocks, Moves
<1>1. InTable' = InTable
  BY TableUnchanged
<1>2. \A q \in Runners : runner'[q] \in {"start", "done", "failed"}
  BY OthersWait DEF MTypeOK
<1>3. MTypeOK'
  BY DEF MTypeOK
<1>4. LockInv'
  BY <1>2 DEF LockInv
<1>5. KnowsInv'
  BY <1>2 DEF KnowsInv
<1>6. OnceInv'
  <2>1. \A q \in Runners : runner[q] # "record"
    BY OthersWait
  <2> QED BY <1>1, <2>1 DEF OnceInv
<1>7. OrderInv'
  BY <1>1 DEF OrderInv
<1> QED BY <1>3, <1>4, <1>5, <1>6, <1>7

LEMMA DiesInv ==
  ASSUME MInv, NEW r \in Runners, Dies(r) PROVE MInv'
<1> USE DEF MInv, Dies, Moves, Learns
<1>1. InTable' = InTable
  BY TableUnchanged
<1>2. \A q \in Runners : runner'[q] \in {"start", "done", "failed"}
  BY OthersWait DEF MTypeOK
<1>3. deaths' > 0
  BY DEF MTypeOK
<1>4. MTypeOK'
  BY MigrationsAssumption DEF MTypeOK
<1>5. LockInv'
  BY <1>2 DEF LockInv
<1>6. KnowsInv'
  BY <1>2 DEF KnowsInv
<1>7. OnceInv'
  BY <1>1, <1>3 DEF OnceInv
<1>8. OrderInv'
  BY <1>1 DEF OrderInv
<1> QED BY <1>4, <1>5, <1>6, <1>7, <1>8

LEMMA MStutterInv ==
  ASSUME MInv, UNCHANGED mvars PROVE MInv'
<1>1. InTable' = InTable
  BY DEF mvars, InTable
<1>2. \A r \in Runners : Pending(r)' = Pending(r) /\ Current(r)' = Current(r)
  BY DEF mvars, Pending, Current
<1> QED BY <1>1, <1>2 DEF mvars, MInv, MTypeOK, LockInv, KnowsInv, OnceInv, OrderInv

LEMMA MNextInv ==
  ASSUME ImagesAreHistories, MInv, [MNext]_mvars PROVE MInv'
<1>1. ASSUME NEW r \in Runners, Migrates(r) PROVE MInv'
  BY <1>1, LocksInv, ReadsInv, RunsFileInv, RecordsInv, QuietInv, UnlocksInv DEF Migrates
<1>2. ASSUME NEW r \in Runners, Dies(r) PROVE MInv'
  BY <1>2, DiesInv
<1> QED BY <1>1, <1>2, MStutterInv DEF MNext

\* Every step of a deployment is one of the runners or leaves them alone.
LEMMA MigratesOrStutters == [Next]_vars => [MNext]_mvars
BY DEF Next, Starts, vars

\* SchemaIsSound of Migrations: whichever runners die and are started again, the
\* advisory lock, the checksums and one transaction for a file and its row
\* (apps/migrate/src/migrate.ts) have every file carried out once and in order, except
\* one without a transaction over which a runner died.
THEOREM SchemaStaysSound ==
  ASSUME ImagesAreHistories PROVE Spec => []SchemaIsSound
<1>1. Init => MInv
  BY MInitInv DEF Init
<1>2. MInv /\ [Next]_vars => MInv'
  BY MigratesOrStutters, MNextInv
<1> QED BY <1>1, <1>2, MInvSound, PTL DEF Spec

------------------------------------------------------------------------------
(* The process.                                                            *)

\* The gate is closed before the listener, and the hooks find nothing at work; what
\* listens uses its secret; a probe that is not over has been told nothing.
PhaseInv ==
    /\ life \in {"gate", "draining", "hooks"} => ~ready
    /\ life = "hooks" => inFlight = 0
    /\ life = "admin" => SecretIsUsed(setup.app, config)
    /\ \A r \in Requests : request[r] # "over" => told[r] = None

PInv == PTypeOK /\ OneToolAtATime /\ PhaseInv

\* What a step of the process may not do: the second part of ProcessIsSound.
KeepsItsWord ==
    /\ config' # config => ConfigIsSound(setup.app, config')
    /\ life' = "admin" => SecretIsUsed(setup.app, config)
    /\ \A r \in Requests :
          request[r] = "working" /\ request'[r] = "over" /\ ~ready => told'[r] # "ready"
    /\ life' = "hooks" => inFlight = 0 /\ ~ready

\* A step of the process, or the one with which it starts.
PStep == PNext \/ PStarts

LEMMA PInitInv == PInit => PInv
<1> SUFFICES ASSUME PInit PROVE PInv
  OBVIOUS
<1>1. PTypeOK
  <2>1. life \in Lives /\ inFlight \in 0 .. MaxInFlight /\ stuck \in 0 .. inFlight
    BY ProcessAssumption DEF PInit, Lives
  <2>2. config = [k \in Keys |-> config[k]]
    BY DEF PInit
  <2>3. ready \in BOOLEAN /\ timer \in BOOLEAN /\ flushed \in BOOLEAN /\ crashing \in BOOLEAN
    BY Zenon DEF PInit
  <2> QED BY <2>1, <2>2, <2>3 DEF PInit, PTypeOK
<1>2. OneToolAtATime /\ PhaseInv
  BY DEF PInit, OneToolAtATime, PhaseInv
<1> QED BY <1>1, <1>2 DEF PInv

\* The loader lets a process pass only with a configuration that is sound.
LEMMA LoadsInv ==
  ASSUME PInv, Loads PROVE PInv' /\ KeepsItsWord
<1> USE DEF PInv, Loads, Exits, Becomes, api, admin, tools
<1>1. setup.app \in {"api", "worker"}
  BY ProcessAssumption DEF PTypeOK, NoSetup, Apps
<1>2. config' = config \/ (~Problem(setup) /\ config' = Merged(setup))
  BY Zenon
<1>3. life' \in {"bootstrap", "exited"} /\ code' \in {0, 64, 78} \union {code}
  OBVIOUS
<1>4. PTypeOK'
  <2>1. config' = [k \in Keys |-> config'[k]]
    BY <1>2 DEF PTypeOK, Merged
  <2> QED BY <2>1, <1>3 DEF PTypeOK, Lives
<1>5. OneToolAtATime' /\ PhaseInv'
  BY <1>3 DEF OneToolAtATime, PhaseInv
<1>6. config' # config => ConfigIsSound(setup.app, config')
  BY <1>1, <1>2, LoadedConfigIsSound
<1>7. KeepsItsWord
  BY <1>3, <1>6 DEF KeepsItsWord
<1> QED BY <1>4, <1>5, <1>7

\* The other phases: the process goes on to the next one.
LEMMA PhasesInv ==
  ASSUME PInv,
         PStarts \/ Listens \/ Sigterm \/ DelayOver \/ HooksBegin \/ Flushes \/ Ends \/ Crashes \/ CrashEnds
  PROVE  PInv' /\ KeepsItsWord
<1> USE DEF PInv, PStarts, Listens, Sigterm, DelayOver, HooksBegin, Drained, Flushes, Ends, Crashes, CrashEnds,
            AdminIsUp, Exits, Becomes, api, admin, tools
<1>1. UNCHANGED <<config, inFlight, stuck, request, stalled, told, level, timer, capturing, profiling>>
  OBVIOUS
<1>2. life' = life \/ life' = "exited" \/ <<life, life'>> \in
        {<<"waiting", "loading">>, <<"bootstrap", "admin">>, <<"admin", "serving">>,
         <<"serving", "gate">>, <<"gate", "draining">>, <<"draining", "hooks">>}
  OBVIOUS
<1>3. PTypeOK'
  <2>1. life' \in Lives
    BY <1>2 DEF PTypeOK, Lives
  <2>2. code' = code \/ code' \in {0, 1}
    OBVIOUS
  <2>3. ready' \in BOOLEAN /\ flushed' \in BOOLEAN /\ crashing' \in BOOLEAN
    BY Zenon DEF PTypeOK
  <2>4. setup' \in Setups \union {NoSetup}
    BY DEF PTypeOK
  <2> QED BY <1>1, <2>1, <2>2, <2>3, <2>4 DEF PTypeOK
<1>4. ready' = ready \/ ready' = FALSE
  OBVIOUS
<1>5. life' = "gate" => ~ready'
  BY DEF PhaseInv
<1>6. life' = "hooks" => inFlight = 0 /\ ~ready
  BY DEF PhaseInv
<1>7. life' = "admin" => SecretIsUsed(setup.app, config)
  <2>1. life' = "admin" /\ life # "admin" => ~Throws(setup.app, config)
    OBVIOUS
  <2> QED BY <2>1, MadePartsUseTheSecret DEF PhaseInv
<1>8. OneToolAtATime'
  BY <1>1 DEF OneToolAtATime
<1>9. PhaseInv'
  <2>1. life' = "admin" => SecretIsUsed(setup'.app, config')
    <3>1. life' = "admin" => setup' = setup
      OBVIOUS
    <3> QED BY <1>1, <1>7, <3>1
  <2> QED BY <1>1, <1>2, <1>4, <1>5, <1>6, <2>1 DEF PhaseInv
<1>10. KeepsItsWord
  BY <1>1, <1>6, <1>7 DEF KeepsItsWord
<1> QED BY <1>3, <1>8, <1>9, <1>10

LEMMA ApiInv ==
  ASSUME PInv, ApiRequest \/ ApiAnswers \/ ApiStalls \/ ApiHangsUp PROVE PInv' /\ KeepsItsWord
<1> USE DEF PInv, ApiRequest, ApiAnswers, ApiStalls, ApiHangsUp, admin, tools
<1>1. PTypeOK'
  BY ProcessAssumption DEF PTypeOK
<1>2. OneToolAtATime'
  BY DEF OneToolAtATime
<1>3. PhaseInv'
  BY DEF PhaseInv, PTypeOK
<1>4. KeepsItsWord
  BY DEF KeepsItsWord, PhaseInv
<1> QED BY <1>1, <1>2, <1>3, <1>4

\* The steps of the admin listener leave phase, configuration and gate alone.
LEMMA AdminStep ==
  ASSUME PInv, UNCHANGED <<setup, config, life, code, inFlight, stuck, ready, flushed, crashing>>,
         request' \in [Requests -> {"new", "working", "over"}],
         stalled' \subseteq Requests, told' \in [Requests -> {"ready", "not_ready", None}],
         level' \in {"base", "debug"}, timer' \in BOOLEAN,
         capturing' \in Requests \union {"signal", None}, profiling' \in Requests \union {None},
         OneToolAtATime',
         \A r \in Requests : request'[r] # "over" => told'[r] = None,
         \A r \in Requests : request[r] = "working" /\ request'[r] = "over" /\ ~ready => told'[r] # "ready"
  PROVE  PInv' /\ KeepsItsWord
<1>1. PTypeOK'
  BY DEF PInv, PTypeOK
<1>2. PhaseInv' /\ KeepsItsWord
  BY DEF PInv, PhaseInv, KeepsItsWord
<1> QED BY <1>1, <1>2 DEF PInv

LEMMA QuietServeInv ==
  ASSUME PInv, NEW r \in Requests,
         \/ Refuses(r) \/ Probes(r) \/ ReadsBody(r) \/ SetsLevel(r) \/ Stalls(r) \/ HangsUp(r)
         \/ ResetsLevel(r) \/ Reports(r)
  PROVE  PInv' /\ KeepsItsWord
<1> USE DEF PInv, Refuses, Probes, ReadsBody, SetsLevel, Stalls, HangsUp, ResetsLevel, Reports, Changes, Arrives,
            Serves, api, tools
<1>1. request' \in [Requests -> {"new", "working", "over"}]
      /\ \A q \in Requests : q # r => request'[q] = request[q]
  BY DEF PTypeOK
<1>2. told' \in [Requests -> {"ready", "not_ready", None}]
      /\ \A q \in Requests : q # r => told'[q] = told[q]
  BY DEF PTypeOK
<1>3. request'[r] = "over" \/ (request'[r] = "working" /\ request[r] # "over" /\ told' = told)
  BY DEF PTypeOK
<1>4. told' = told \/ (told'[r] = "ready" => ready)
  BY DEF PTypeOK
<1>5. ASSUME request'[r] # "over" PROVE Asked[r] \notin {"heapdump", "cpu-profile"}
  BY <1>5, <1>3 DEF PTypeOK
<1>6. UNCHANGED <<capturing, profiling>> /\ level' \in {"base", "debug"} /\ timer' \in BOOLEAN
  BY DEF PTypeOK
<1>7. UNCHANGED <<setup, config, life, code, inFlight, stuck, ready, flushed, crashing>> /\ stalled' \subseteq Requests
  BY DEF PTypeOK
<1>8. \A q \in Requests : request'[q] # "over" => told'[q] = None
  BY <1>1, <1>2, <1>3 DEF PhaseInv
<1>9. \A q \in Requests :
        request[q] = "working" /\ request'[q] = "over" /\ ~ready => told'[q] # "ready"
  BY <1>1, <1>4, ProcessAssumption DEF PhaseInv
<1>10. OneToolAtATime'
  BY <1>1, <1>5, <1>6 DEF OneToolAtATime
<1>11. capturing \in Requests \union {"signal", None} /\ profiling \in Requests \union {None}
  BY DEF PTypeOK
<1> QED BY <1>1, <1>2, <1>6, <1>7, <1>8, <1>9, <1>10, <1>11, AdminStep

\* Heap snapshot and CPU profile are at work for the one they were given to.
LEMMA ToolInv ==
  ASSUME PInv, NEW r \in Requests, Dumps(r) \/ Profiles(r) \/ ProfileEnds(r)
  PROVE  PInv' /\ KeepsItsWord
<1> USE DEF PInv, Dumps, Profiles, ProfileEnds, Arrives, Serves, api, tools
<1>1. request' \in [Requests -> {"new", "working", "over"}]
      /\ \A q \in Requests : q # r => request'[q] = request[q]
  BY DEF PTypeOK
<1>2. request[r] # "over" /\ request'[r] \in {"working", "over"}
  BY DEF PTypeOK
<1>3. UNCHANGED <<told, level, timer>>
  OBVIOUS
<1>4. UNCHANGED <<setup, config, life, code, inFlight, stuck, ready, flushed, crashing>> /\ stalled' \subseteq Requests
  BY DEF PTypeOK
<1>5. /\ told' \in [Requests -> {"ready", "not_ready", None}] /\ level' \in {"base", "debug"}
      /\ timer' \in BOOLEAN
  BY <1>3 DEF PTypeOK
<1>6. capturing' \in Requests \union {"signal", None} /\ profiling' \in Requests \union {None}
  BY DEF PTypeOK
<1>7. \A q \in Requests : request'[q] # "over" => told'[q] = None
  BY <1>1, <1>2, <1>3 DEF PhaseInv
<1>8. \A q \in Requests :
        request[q] = "working" /\ request'[q] = "over" /\ ~ready => told'[q] # "ready"
  BY <1>3, ProcessAssumption DEF PhaseInv
<1>9. OneToolAtATime'
  <2> SUFFICES ASSUME NEW q \in Requests, request'[q] = "working"
               PROVE  /\ Asked[q] = "heapdump" => capturing' = q
                      /\ Asked[q] = "cpu-profile" => profiling' = q
    BY DEF OneToolAtATime
  <2>1. CASE q = r
    BY <2>1 DEF PTypeOK
  <2>2. CASE q # r
    <3>1. request[q] = "working"
      BY <1>1, <2>2
    <3> QED BY <3>1, <2>2, ProcessAssumption DEF OneToolAtATime
  <2> QED BY <2>1, <2>2
<1> QED BY <1>1, <1>4, <1>5, <1>6, <1>7, <1>8, <1>9, AdminStep

\* What happens without a request: a timer, a signal, the end of a snapshot.
LEMMA UnaskedInv ==
  ASSUME PInv, LevelExpires \/ SignalDumps \/ DumpEnds
  PROVE  PInv' /\ KeepsItsWord
<1> USE DEF PInv, LevelExpires, SignalDumps, DumpEnds, api
<1>1. request' \in [Requests -> {"new", "working", "over"}]
      /\ \A q \in Requests : request'[q] = request[q] \/ (capturing = q /\ request'[q] = "over")
  BY DEF PTypeOK
<1>2. UNCHANGED <<told, profiling>>
  OBVIOUS
<1>3. UNCHANGED <<setup, config, life, code, inFlight, stuck, ready, flushed, crashing>> /\ stalled' \subseteq Requests
  BY DEF PTypeOK
<1>4. /\ told' \in [Requests -> {"ready", "not_ready", None}] /\ level' \in {"base", "debug"}
      /\ profiling' \in Requests \union {None}
  BY DEF PTypeOK
<1>5. timer' \in BOOLEAN
  BY Zenon DEF PTypeOK
<1>6. capturing' \in Requests \union {"signal", None}
  BY DEF PTypeOK
<1>7. capturing' = capturing \/ \A q \in Requests : request'[q] = "working" => capturing # q
  BY ProcessAssumption DEF PTypeOK
<1>8. OneToolAtATime'
  BY <1>1, <1>2, <1>7 DEF OneToolAtATime
<1>9. \A q \in Requests : request'[q] # "over" => told'[q] = None
  BY <1>1, <1>2 DEF PhaseInv
<1>10. \A q \in Requests :
         request[q] = "working" /\ request'[q] = "over" /\ ~ready => told'[q] # "ready"
  BY <1>2, ProcessAssumption DEF PhaseInv
<1> QED BY <1>1, <1>3, <1>4, <1>5, <1>6, <1>8, <1>9, <1>10, AdminStep

LEMMA PStutterInv ==
  ASSUME PInv, UNCHANGED pvars PROVE PInv'
<1> USE DEF pvars, api, admin, tools
<1>1. PTypeOK'
  BY DEF PInv, PTypeOK
<1>2. OneToolAtATime' /\ PhaseInv'
  BY DEF PInv, OneToolAtATime, PhaseInv
<1> QED BY <1>1, <1>2 DEF PInv

LEMMA PStepInv ==
  ASSUME PInv, PStep PROVE PInv' /\ KeepsItsWord
<1>1. CASE PNext
  <2>1. ASSUME NEW r \in Requests, Serve(r) PROVE PInv' /\ KeepsItsWord
    BY <2>1, QuietServeInv, ToolInv DEF Serve
  <2> QED BY <1>1, <2>1, LoadsInv, PhasesInv, ApiInv, UnaskedInv DEF PNext, Closes
<1>2. CASE ~PNext
  BY <1>2, PhasesInv DEF PStep
<1> QED BY <1>1, <1>2

\* Every step of a deployment is one of the process or leaves it alone.
LEMMA StepsOrStutters == [Next]_vars => PStep \/ UNCHANGED pvars
BY DEF Next, Starts, PStep, vars, pvars

\* ProcessIsSound of ServiceProcess: whatever its environment and its file say, a process
\* that passes the loader has a sound configuration (config.loader.ts and the builders),
\* and one that opens its listeners uses the secret it was told to read; it takes one
\* heap snapshot and one CPU profile at a time, never tells a probe that it is ready
\* behind the closed gate, and runs its last hooks after the API's drain
\* (readiness.service.ts, admin-server.service.ts).
THEOREM ProcessStaysSound == Spec => ProcessIsSound
<1>1. Init => PInv
  BY PInitInv DEF Init
<1>2. PInv /\ [Next]_vars => PInv'
  BY StepsOrStutters, PStepInv, PStutterInv
<1>3. PInv /\ [Next]_vars => [KeepsItsWord]_pvars
  BY StepsOrStutters, PStepInv
<1>4. PInv => OneToolAtATime
  BY DEF PInv
<1> QED BY <1>1, <1>2, <1>3, <1>4, PTL DEF Spec, ProcessIsSound, KeepsItsWord
=============================================================================
