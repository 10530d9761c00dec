---------------------------- MODULE MCDeployment ----------------------------
EXTENDS Deployment, TLC
CONSTANTS old, new, probe, put, delete, dump, profile, profile2

\* An image that is left behind, and one with a file more and another changed.
SmallShips == (old :> {1, 2}) @@ (new :> {1, 2, 3})
SmallEdits == (old :> {}) @@ (new :> {2})

SmallAsked ==
    (probe :> "readyz") @@ (put :> "put-level") @@ (delete :> "delete-level") @@
    (dump :> "heapdump") @@ (profile :> "cpu-profile") @@ (profile2 :> "cpu-profile")

Common == [NoSetup EXCEPT !.env = "ADMIN_TOKEN" :> Word("token"), !.asks = {probe, put, delete}]
Checked(app, env) == [Common EXCEPT !.app = app, !.env = @ @@ env, !.flag = "check", !.asks = {}]
Started(env)      == [Common EXCEPT !.env = @ @@ env, !.asks = {}]

Padded(w)  == <<"word", w, "padded">>
Recase(w) == <<"word", w, "recased">>
Url(secure, password) == <<"url", [secure |-> secure, user |-> Unset, password |-> password, db |-> Num(0)], "plain">>
DbUrl      == <<"url", [query |-> "password" :> Word("in the url")], "plain">>
Kafka      == "KAFKA_BROKERS" :> Word("b1")
Valkey     == "VALKEY_URL" :> Url(FALSE, Word("in the url"))
SmallFiles == {"secret"}

\* Sizes and hatches of the Kafka clients.
KafkaSetups ==
    {Checked("worker", Kafka @@ "KAFKA_MESSAGE_MAX_BYTES" :> m @@ "KAFKA_CONSUMER_FETCH_MAX_BYTES" :> f
                @@ "KAFKA_CONSUMER_PARTITION_FETCH_MAX_BYTES" :> p
                @@ "KAFKA_EXTRA_PROPERTIES" :> h @@ "KAFKA_CONSUMER_EXTRA_PROPERTIES" :> g) :
        m \in {Unset, Num(2000000)}, f \in {Unset, Num(500000), Num(2000000)},
        p \in {Unset, Num(500000), Num(999)},
        h \in {Unset, Object("fetch_max_bytes" :> Num(1)), Object("session_timeout_ms" :> Num(600000))},
        g \in {Unset, Empty, Object("receive_message_max_bytes" :> Num(1)), Word("[]")}}
    \union
    {Checked("worker", Kafka @@ "KAFKA_CONSUMER_SESSION_TIMEOUT_MS" :> s
                @@ "KAFKA_CONSUMER_MAX_POLL_INTERVAL_MS" :> q @@ "KAFKA_SECURITY_PROTOCOL" :> w) :
        s \in {Unset, Num(10000), Num(400000)}, q \in {Unset, Num(20000)},
        w \in {Unset, Recase("ssl"), Word("tls")}}

\* Valkey's retries, hatch and password; settings without their integration.
ValkeySetups ==
    {Checked(a, u @@ "VALKEY_MAX_RETRIES_PER_REQUEST" :> r @@ "VALKEY_EXTRA_PROPERTIES" :> h
                @@ "VALKEY_PASSWORD" :> w) :
        a \in {"api", "worker"}, u \in {Kafka, Valkey, Kafka @@ Valkey},
        r \in {Unset, Num(0), Word("null"), Padded("null")},
        h \in {Unset, Object("maxRetriesPerRequest" :> Num(2))}, w \in {Unset, Empty, Word("secret")}}

\* Booleans, an enum, the admin listener's rules; and every source against every other.
OtherSetups ==
    {[Checked("api", "ADMIN_TOKEN" :> t @@ "ADMIN_HOST" :> h @@ "ADMIN_INSECURE" :> i)
        EXCEPT !.env = "ADMIN_TOKEN" :> t @@ "ADMIN_HOST" :> h @@ "ADMIN_INSECURE" :> i] :
        t \in {Empty, Word("token")}, h \in {Unset, Word("127.0.0.1")},
        i \in {Unset, Recase("true"), Padded("true"), Word("yes")}}
    \union
    {Checked("api", "DATABASE_CB_ENABLED" :> b @@ "LOG_LEVEL" :> l) :
        b \in {Empty, Word("false"), Recase("true"), Padded("true"), Num(1), Num(0), Num(2)},
        l \in {Unset, Recase("debug"), Word("loud")}}
    \union
    {Checked("api", "DATABASE_CB_ERROR_THRESHOLD_PCT" :> e) : e \in {PerMille(50500), Num(101)}}
    \union
    {[Checked("api", "PORT" :> e) EXCEPT !.yaml = "PORT" :> y, !.flat = "PORT" :> f, !.typo = t] :
        e \in {Empty, Num(0)}, y \in {Unset, Num(65536), Num(1)}, f \in {Unset, Word("http"), Num(2)},
        t \in BOOLEAN}

\* What a part finds when it is made.
PartSetups ==
    {Started(k @@ "DATABASE_PASSWORD_FILE" :> f @@ "DATABASE_URL" :> u @@ "DATABASE_READONLY_URL" :> r) :
        k \in {"VALKEY_URL" :> Word("junk"), Kafka}, f \in {Unset, Word("secret"), Word("missing")},
        u \in {Unset, DbUrl, Word("host=db")}, r \in {Unset, DbUrl}}
    \union
    {Started(v @@ "VALKEY_CA_LOCATION" :> f @@ "DATABASE_SSL_CA_LOCATION" :> g) :
        v \in {Valkey, "VALKEY_URL" :> Url(TRUE, Unset)},
        f \in {Unset, Word("secret"), Word("missing")}, g \in {Unset, Word("missing")}}

SmallSetups ==
    KafkaSetups \union ValkeySetups \union OtherSetups \union PartSetups \union
    {Common, [Common EXCEPT !.asks = {probe, dump, profile, profile2}],
     [Common EXCEPT !.flag = "help"], [Common EXCEPT !.flag = "wrong"]}
=============================================================================
