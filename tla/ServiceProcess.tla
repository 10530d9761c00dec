--------------------------- MODULE ServiceProcess ---------------------------
(***************************************************************************)
(* The life of one app process: bootConfig and the configuration loader,   *)
(* Nest's bootstrap, the admin listener with its readiness probe, runtime  *)
(* log level, heap snapshots and CPU profiles, the crash report, and the   *)
(* shutdown hooks in the order in which Nest calls them.                   *)
(***************************************************************************)
EXTENDS Configuration, FiniteSets

CONSTANTS
    Setups,     \* what a process may be given, and the requests to its admin listener
    Requests,   \* to the admin listener
    Asked,      \* what each asks for
    MaxInFlight, \* bound: requests the API works on at once
    None

Apps   == {"api", "worker"}
Routes == {"readyz", "put-level", "delete-level", "heapdump", "cpu-profile"}

\* Before it starts.
NoSetup == [app |-> "api", env |-> NoOptions, yaml |-> NoOptions, flat |-> NoOptions, typo |-> FALSE,
            flag |-> "none", asks |-> {}]

ASSUME ProcessAssumption ==
    /\ \A s \in Setups :
          /\ s.app \in Apps /\ s.flag \in {"none", "help", "check", "wrong"} /\ s.asks \subseteq Requests
          /\ DOMAIN s.env \union DOMAIN s.yaml \union DOMAIN s.flat \subseteq Keys
    /\ Asked \in [Requests -> Routes] /\ MaxInFlight \in Nat
    /\ None \notin Requests \union {"signal", "ready", "not_ready"}

VARIABLES
    setup, config,  \* what the process was given; process.env after the loader
    life, code,     \* phase and exit code
    inFlight,       \* requests the API is working on
    stuck,          \* those of them whose client has stopped sending its body
    ready,          \* ReadinessService.ready
    request,        \* where each request to the admin listener is
    stalled,        \* those of them whose client has stopped sending its body
    told,           \* what a probe was told
    level, timer,   \* LogLevel: current, and whether a TTL runs
    capturing,      \* HeapSnapshotService.capturing, and by whom
    profiling,      \* running of cpu-profile.ts
    flushed,        \* OtelShutdownService is through
    crashing        \* CrashReportService.handlingCrash

tools == <<level, timer, capturing, profiling>>
admin == <<request, stalled, told, tools>>
api   == <<inFlight, stuck>>
pvars == <<setup, config, life, code, api, ready, admin, flushed, crashing>>

Lives == {"waiting", "loading", "bootstrap", "admin", "serving", "gate", "draining", "hooks", "exited"}

PTypeOK ==
    /\ setup \in Setups \union {NoSetup} /\ config = [k \in Keys |-> config[k]]
    /\ life \in Lives /\ code \in {0, 1, 64, 78} \union {None}
    /\ inFlight \in 0 .. MaxInFlight /\ stuck \in 0 .. inFlight /\ ready \in BOOLEAN
    /\ stalled \subseteq Requests
    /\ request \in [Requests -> {"new", "working", "over"}]
    /\ told \in [Requests -> {"ready", "not_ready", None}]
    /\ level \in {"base", "debug"} /\ timer \in BOOLEAN
    /\ capturing \in Requests \union {"signal", None} /\ profiling \in Requests \union {None}
    /\ flushed \in BOOLEAN /\ crashing \in BOOLEAN

PInit ==
    /\ setup = NoSetup /\ config = [k \in Keys |-> Unset]
    /\ life = "waiting" /\ code = None /\ inFlight = 0 /\ stuck = 0 /\ ready = TRUE
    /\ request = [r \in Requests |-> "new"] /\ stalled = {} /\ told = [r \in Requests |-> None]
    /\ level = "base" /\ timer = FALSE /\ capturing = None /\ profiling = None
    /\ flushed = FALSE /\ crashing = FALSE

Exits(n)   == life' = "exited" /\ code' = n
Becomes(l) == life' = l /\ UNCHANGED code

------------------------------------------------------------------------------
(* config.boot.ts.                                                         *)

PStarts ==
    /\ life = "waiting" /\ Becomes("loading")
    /\ setup' \in Setups
    /\ UNCHANGED <<config, api, ready, admin, flushed, crashing>>

Loads ==
    /\ life = "loading"
    /\ IF setup.flag = "wrong" THEN Exits(64) /\ UNCHANGED config
       ELSE IF setup.flag = "help" THEN Exits(0) /\ UNCHANGED config
       ELSE IF Problem(setup) THEN Exits(78) /\ UNCHANGED config
       ELSE /\ config' = Merged(setup)
            /\ IF setup.flag = "check" THEN Exits(0) ELSE Becomes("bootstrap")
    /\ UNCHANGED <<setup, api, ready, admin, flushed, crashing>>

------------------------------------------------------------------------------
(* Bootstrap: the parts, the hooks with the admin listener, then the       *)
(* API's; a part that throws or a port that is taken ends it.              *)

Listens ==
    /\ \/ life = "bootstrap" /\ ~Throws(setup.app, config) /\ Becomes("admin")
       \/ life = "admin" /\ Becomes("serving")
       \/ life \in {"bootstrap", "admin"} /\ Exits(1)
    /\ UNCHANGED <<setup, config, api, ready, admin, flushed, crashing>>

ApiRequest ==
    /\ life \in {"serving", "gate"} /\ inFlight < MaxInFlight
    /\ inFlight' = inFlight + 1
    /\ UNCHANGED <<setup, config, life, code, stuck, ready, admin, flushed, crashing>>
ApiAnswers ==
    /\ life # "exited" /\ stuck < inFlight /\ inFlight' = inFlight - 1
    /\ UNCHANGED <<setup, config, life, code, stuck, ready, admin, flushed, crashing>>

\* A body stops half way; the client hangs up, or, as long as the server listens, its
\* requestTimeout cuts it off.
ApiStalls ==
    /\ life # "exited" /\ stuck < inFlight /\ stuck' = stuck + 1
    /\ UNCHANGED <<setup, config, life, code, inFlight, ready, admin, flushed, crashing>>
ApiHangsUp ==
    /\ life # "exited" /\ stuck > 0 /\ stuck' = stuck - 1 /\ inFlight' = inFlight - 1
    /\ UNCHANGED <<setup, config, life, code, ready, admin, flushed, crashing>>

------------------------------------------------------------------------------
(* The admin listener.                                                     *)

AdminIsUp == life \in {"admin", "serving", "gate", "draining"}
Serves(r, route, from, to) ==
    /\ Asked[r] = route /\ request[r] = from /\ life # "exited"
    /\ request' = [request EXCEPT ![r] = to]
    /\ UNCHANGED <<setup, config, life, code, api, ready, stalled, flushed, crashing>>
Arrives(r, route, to) == r \in setup.asks /\ AdminIsUp /\ Serves(r, route, "new", to)

\* No token, no route, a bad parameter: 401, 404, 405, 400.
Refuses(r) == Arrives(r, Asked[r], "over") /\ UNCHANGED <<told, tools>>

\* ReadinessService.check: the checks are awaited, each at most its timeout; then the
\* gate is looked at.
Probes(r) == Arrives(r, "readyz", "working") /\ UNCHANGED <<told, tools>>
Reports(r) ==
    /\ Serves(r, "readyz", "working", "over")
    /\ \E criticalFailing \in BOOLEAN : told' = [told EXCEPT ![r] =
           IF ready /\ ~criticalFailing THEN "ready" ELSE "not_ready"]
    /\ UNCHANGED tools

\* Mutant: a change without a TTL.
LastsForEver == level' = "debug" /\ timer' = FALSE

\* LogLevel.change: a timer of its own, the one before is cleared.
Changes == level' = "debug" /\ timer' = TRUE

ReadsBody(r) == Arrives(r, "put-level", "working") /\ UNCHANGED <<told, tools>>
SetsLevel(r) ==
    /\ r \notin stalled /\ Serves(r, "put-level", "working", "over")
    /\ Changes /\ UNCHANGED <<told, capturing, profiling>>
\* readBody() waits, with no timeout of its own.
Stalls(r) ==
    /\ Asked[r] = "put-level" /\ request[r] = "working" /\ life # "exited"
    /\ stalled' = stalled \union {r}
    /\ UNCHANGED <<setup, config, life, code, api, ready, request, told, tools, flushed, crashing>>
HangsUp(r) ==
    /\ r \in stalled /\ Serves(r, "put-level", "working", "over")
    /\ UNCHANGED <<told, tools>>
ResetsLevel(r) ==
    /\ Arrives(r, "delete-level", "over")
    /\ level' = "base" /\ timer' = FALSE /\ UNCHANGED <<told, capturing, profiling>>
LevelExpires ==
    /\ timer /\ life # "exited"
    /\ level' = "base" /\ timer' = FALSE
    /\ UNCHANGED <<setup, config, life, code, api, ready, request, stalled, told, capturing, profiling,
                   flushed, crashing>>

\* capture(): one at a time, whoever asks; the others get 409 or nothing.
Dumps(r) ==
    /\ Arrives(r, "heapdump", IF capturing = None THEN "working" ELSE "over")
    /\ capturing' = IF capturing = None THEN r ELSE capturing
    /\ UNCHANGED <<told, level, timer, profiling>>
SignalDumps ==  \* SIGUSR2, or the poll near OOM
    /\ AdminIsUp /\ capturing = None
    /\ capturing' = "signal"
    /\ UNCHANGED <<setup, config, life, code, api, ready, request, stalled, told, level, timer, profiling,
                   flushed, crashing>>
DumpEnds ==
    /\ capturing # None /\ life # "exited"
    /\ capturing' = None
    /\ request' = [r \in Requests |-> IF r = capturing THEN "over" ELSE request[r]]
    /\ UNCHANGED <<setup, config, life, code, api, ready, stalled, told, level, timer, profiling,
                   flushed, crashing>>

\* captureCpuProfile: `running` is given back whichever way it ends, early when the
\* listener closes.
Profiles(r) ==
    /\ Arrives(r, "cpu-profile", IF profiling = None THEN "working" ELSE "over")
    /\ profiling' = IF profiling = None THEN r ELSE profiling
    /\ UNCHANGED <<told, level, timer, capturing>>
ProfileEnds(r) ==
    /\ Serves(r, "cpu-profile", "working", "over")
    /\ profiling' = None
    /\ UNCHANGED <<told, level, timer, capturing>>

Serve(r) ==
    \/ Refuses(r) \/ Probes(r) \/ Reports(r) \/ ReadsBody(r) \/ SetsLevel(r) \/ Stalls(r) \/ HangsUp(r)
    \/ ResetsLevel(r) \/ Dumps(r) \/ Profiles(r) \/ ProfileEnds(r)

------------------------------------------------------------------------------
(* SIGTERM, and a crash.                                                   *)

Sigterm ==
    /\ life = "serving"
    /\ ready' = FALSE /\ Becomes("gate")
    /\ UNCHANGED <<setup, config, api, admin, flushed, crashing>>

\* HTTP_SHUTDOWN_DELAY_MS; then the API listener closes, and drains.
DelayOver ==
    /\ life = "gate" /\ Becomes("draining")
    /\ UNCHANGED <<setup, config, api, ready, admin, flushed, crashing>>

\* Mutant: the hooks run beside the API's drain.
NoMatter == TRUE

Drained == inFlight = 0

HooksBegin ==
    /\ life = "draining" /\ Drained /\ Becomes("hooks")
    /\ UNCHANGED <<setup, config, api, ready, admin, flushed, crashing>>

\* Flushed, failed or timed out.
Flushes ==
    /\ life = "hooks" /\ ~flushed /\ flushed' = TRUE
    /\ UNCHANGED <<setup, config, life, code, api, ready, admin, crashing>>

\* server.close() has its last connection.
Ends ==
    /\ life = "hooks" /\ flushed /\ \A r \in Requests : request[r] # "working"
    /\ Exits(0)
    /\ UNCHANGED <<setup, config, api, ready, admin, flushed, crashing>>

\* An uncaught error: with the handlers in place a report is written first, once.
Crashes ==
    /\ life \notin {"waiting", "loading", "exited"} /\ ~crashing
    /\ IF AdminIsUp THEN crashing' = TRUE /\ UNCHANGED <<life, code>>
                    ELSE Exits(1) /\ UNCHANGED crashing
    /\ UNCHANGED <<setup, config, api, ready, admin, flushed>>
CrashEnds ==
    /\ crashing /\ life # "exited" /\ Exits(1)
    /\ UNCHANGED <<setup, config, api, ready, admin, flushed, crashing>>

------------------------------------------------------------------------------
Closes == DelayOver \/ HooksBegin \/ Flushes \/ Ends \/ CrashEnds
PNext ==
    \/ Loads \/ Listens \/ Closes \/ Sigterm \/ Crashes \/ ApiRequest \/ ApiAnswers
    \/ ApiStalls \/ ApiHangsUp \/ LevelExpires \/ SignalDumps \/ DumpEnds \/ \E r \in Requests : Serve(r)

------------------------------------------------------------------------------
\* The flags of heap snapshot and CPU profile stand for the one that is at work.
OneToolAtATime ==
    \A r \in Requests : request[r] = "working" =>
        /\ Asked[r] = "heapdump" => capturing = r
        /\ Asked[r] = "cpu-profile" => profiling = r

\* What the loader lets pass is sound, also for --check-config, and a process opens its
\* listeners with the secrets it was told to read; it takes one profile at a time; once
\* the gate is closed no probe is told otherwise, also not one that came in before; and
\* the hooks of the last phase, the admin listener's with them, wait for the API's drain.
ProcessIsSound ==
    /\ []OneToolAtATime
    /\ [][/\ config' # config => ConfigIsSound(setup.app, config')
          /\ life' = "admin" => SecretIsUsed(setup.app, config)
          /\ \A r \in Requests : request[r] = "working" /\ request'[r] = "over" /\ ~ready =>
                 told'[r] # "ready"
          /\ life' = "hooks" => inFlight = 0 /\ ~ready]_pvars
=============================================================================
