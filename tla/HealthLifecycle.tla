---------------------------- MODULE HealthLifecycle ----------------------------
(***************************************************************************)
(* lakehouse.__main__.serve, lakehouse.config and lakehouse.health: the    *)
(* main thread that reads the configuration and brings the server up and   *)
(* down, and the poller thread that probes DuckDB and sets the two         *)
(* statuses the health port answers with.                                  *)
(*                                                                         *)
(* On SIGINT or SIGTERM Arrow's serve() first stops the Flight port and    *)
(* waits for the calls in flight, then lets Python's handler run on the    *)
(* main thread.  Outside serve() the handler runs at once, between two     *)
(* steps of what the main thread is doing: before serve(), or inside a     *)
(* handler that is still running.  Until the handlers are installed a      *)
(* signal, or a failing startup step, ends the process.                    *)
(*                                                                         *)
(* The Flight port accepts calls, on threads of its own, from the first    *)
(* line of the server's constructor on: before the database is connected   *)
(* and before there is a session manager.                                  *)
(***************************************************************************)
EXTENDS Naturals, Sequences

CONSTANTS
    MaxCalls,   \* bound: Flight RPCs in flight
    MaxSignals  \* bound: runs of the signal handler

ASSUME BoundsAssumption == MaxCalls \in Nat /\ MaxSignals \in Nat

(* The overall status and that of lakehouse.FlightSql. *)
Names == {"", "lakehouse.FlightSql"}

(* The settings that belong to DuckLake. *)
LakeFields == {"azure_storage_account", "ducklake_data_path", "pg_host", "pg_database", "pg_user"}

VARIABLES
    config,     \* ServerConfig: the lake fields given, whether there is an alias,
                \* whether each field passes its own validator, health_check_enabled
    main,       \* where the main thread is
    frames,     \* where it was when a handler interrupted it, innermost last
    signals,    \* handler runs so far
    flight,     \* the Flight SQL port: "off" | "accepting" | "stopped"
    calls,      \* Flight RPCs in flight
    attached,   \* DuckLake is attached to the database
    dbOpen,     \* server._db exists and is open
    sessions,   \* the default databases of the sessions stored so far
    reachable,  \* environment: SELECT 1 would succeed
    hung,       \* environment: SELECT 1 would not return
    listening,  \* the health port answers
    status,     \* the health servicer's statuses
    graceful,   \* enter_graceful_shutdown was called
    stopEvent,  \* BackgroundHealthPoller._stop_event
    poller,     \* where the poller thread is
    probe       \* its local: what the latest probe found

mainVars   == <<config, main, frames, signals>>
serverVars == <<flight, attached, dbOpen>>
healthVars == <<listening, graceful, stopEvent, status>>
envVars    == <<reachable, hung, calls, sessions>>
pollerVars == <<poller, probe>>
vars == <<mainVars, serverVars, healthVars, envVars, pollerVars>>

Init ==
    /\ config \in [given : SUBSET LakeFields, alias : BOOLEAN, valid : BOOLEAN, health : BOOLEAN]
    /\ main = "configure"
    /\ frames = <<>>
    /\ signals = 0
    /\ flight = "off"
    /\ calls = 0
    /\ attached = FALSE
    /\ dbOpen = FALSE
    /\ sessions = {}
    /\ reachable \in BOOLEAN
    /\ hung = FALSE
    /\ listening = FALSE
    /\ status = [n \in Names |-> IF n = "" THEN "SERVING" ELSE "UNKNOWN"]
    /\ graceful = FALSE
    /\ stopEvent = FALSE
    /\ poller = "off"
    /\ probe = "SERVING"

-----------------------------------------------------------------------------
(* Faulty variant: the fields are not checked against each other.          *)
FieldsUnchecked == TRUE

(* _validate_ducklake_fields: all of them, or none. *)
FieldsComplete == config.given \in {{}, LakeFields}

(* ServerConfig.ducklake_enabled *)
LakeEnabled == {"pg_host", "pg_database", "pg_user"} \subseteq config.given

AfterLake == IF config.health THEN "start_health" ELSE "installed"

Advance(from, to) ==
    /\ main = from
    /\ main' = to
    /\ UNCHANGED <<config, frames, signals>>

(* Faulty variant: a status the health protocol does not have.             *)
SetHealthy(n, s) ==
    status' = IF graceful THEN status
              ELSE [status EXCEPT ![n] = IF s = "SERVING" THEN "HEALTHY" ELSE s]

(* Faulty variant: the servicer takes any status at any time.              *)
SetAlways(n, s) == status' = [status EXCEPT ![n] = s]

(* HealthServicer.set: ignored once a graceful shutdown has begun. *)
SetStatus(n, s) == status' = IF graceful THEN status ELSE [status EXCEPT ![n] = s]

(* ServerConfig(...) raises, or all its validators pass. *)
Configure ==
    /\ Advance("configure", IF config.valid /\ FieldsComplete THEN "build" ELSE "dead")
    /\ UNCHANGED <<serverVars, healthVars, envVars, pollerVars>>

(* A startup step that leaves no trace in the model but that it was taken. *)
Prepare(from, to) ==
    /\ Advance(from, to)
    /\ UNCHANGED <<serverVars, healthVars, envVars, pollerVars>>

(* build_server, and DuckDBFlightSqlServer.__init__ a line at a time:      *)
(* super().__init__ binds the port and accepts calls...                    *)
BuildServer ==
    /\ Advance("build", "connect")
    /\ flight' = "accepting"
    /\ UNCHANGED <<attached, dbOpen, healthVars, envVars, pollerVars>>

(* ...self._db = duckdb.connect(...) *)
ConnectDatabase ==
    /\ Advance("connect", "make_sessions")
    /\ dbOpen' = TRUE
    /\ UNCHANGED <<flight, attached, healthVars, envVars, pollerVars>>

(* ...self._sessions = SessionManager(...) *)
MakeSessions == Prepare("make_sessions", "make_meta")

(* ...self._prepared_meta = {}. *)
MakeMeta == Prepare("make_meta", IF LakeEnabled THEN "install" ELSE AfterLake)

(* The initial tokens, then initialize_ducklake, a step that may raise at  *)
(* a time: extensions, the two secrets, ATTACH with its secret.            *)
InstallExtensions == Prepare("install", "secrets")

CreateSecrets == Prepare("secrets", "attach")

(* The validator lets an empty alias pass, ATTACH ... AS does not. *)
AttachDuckLake ==
    /\ config.alias
    /\ Advance("attach", AfterLake)
    /\ attached' = TRUE
    /\ UNCHANGED <<flight, dbOpen, healthVars, envVars, pollerVars>>

(* HealthServer.start: open the port, then set_serving, one name at a time. *)
StartHealth ==
    /\ Advance("start_health", "set_overall")
    /\ listening' = TRUE
    /\ UNCHANGED <<serverVars, graceful, stopEvent, status, envVars, pollerVars>>

SetOverall ==
    /\ Advance("set_overall", "set_service")
    /\ SetStatus("", "SERVING")
    /\ UNCHANGED <<serverVars, listening, graceful, stopEvent, envVars, pollerVars>>

SetService ==
    /\ Advance("set_service", "start_poller")
    /\ SetStatus("lakehouse.FlightSql", "SERVING")
    /\ UNCHANGED <<serverVars, listening, graceful, stopEvent, envVars, pollerVars>>

(* poller.start(), then the signal handlers. *)
StartPoller ==
    /\ Advance("start_poller", "installed")
    /\ stopEvent' = FALSE
    /\ poller' = "check"
    /\ UNCHANGED <<serverVars, listening, graceful, status, envVars, probe>>

(* serve() of a server that a handler has already stopped returns. *)
Serve ==
    /\ Advance("installed", IF flight = "accepting" THEN "serving" ELSE "exited")
    /\ UNCHANGED <<serverVars, healthVars, envVars, pollerVars>>

(* A startup step raises, or a signal meets the default handler. *)
StartupEnds ==
    /\ \E l \in {"build", "connect", "make_sessions", "make_meta", "install", "secrets", "attach",
                  "start_health", "set_overall", "set_service", "start_poller"} : Advance(l, "dead")
    /\ flight' = "stopped"
    /\ calls' = 0
    /\ dbOpen' = FALSE
    /\ listening' = FALSE
    /\ UNCHANGED <<attached, graceful, stopEvent, status, sessions, reachable, hung, pollerVars>>

-----------------------------------------------------------------------------
(* _shutdown stops what there is, in this order. *)
AfterTokens == IF config.health THEN "stop_poller" ELSE "shutdown"

FirstStop == IF LakeEnabled THEN "stop_tokens" ELSE AfterTokens

HandlerSteps == {"stop_tokens", "token_set", "join_tokens", "stop_poller", "poller_set",
                 "join_poller", "stop_health", "stop_listening", "shutdown", "close_all",
                 "close_db", "stop_flight"}

(* The steps that wait for a lock a handler may hold, and the step inside  *)
(* it: Event.set of the two stop events, and the session manager's lock.   *)
(* None of the three locks is reentrant.                                   *)
Inside == [stop_tokens |-> "token_set", stop_poller |-> "poller_set", shutdown |-> "close_all"]

Interrupted(l) == \E k \in 1..Len(frames) : frames[k] = l

SelfLocked == main \in DOMAIN Inside /\ Interrupted(Inside[main])

Acquire(from) ==
    /\ ~SelfLocked
    /\ Advance(from, Inside[from])

(* A signal in serve() stops the Flight port and waits for its calls...    *)
Signal ==
    /\ signals < MaxSignals
    /\ main = "serving"
    /\ main' = "draining"
    /\ signals' = signals + 1
    /\ flight' = "stopped"
    /\ UNCHANGED <<config, frames, attached, dbOpen, healthVars, envVars, pollerVars>>

(* Faulty variant: the handler runs while calls are in flight.             *)
HandleUndrained ==
    /\ Advance("draining", FirstStop)
    /\ UNCHANGED <<serverVars, healthVars, envVars, pollerVars>>

(* ...then _shutdown runs. *)
Handle ==
    /\ calls = 0
    /\ Advance("draining", FirstStop)
    /\ UNCHANGED <<serverVars, healthVars, envVars, pollerVars>>

(* A signal outside serve(): _shutdown runs inside whatever runs now. *)
Interrupt ==
    /\ signals < MaxSignals
    /\ main \in HandlerSteps \cup {"installed"}
    /\ main' = FirstStop
    /\ frames' = Append(frames, main)
    /\ signals' = signals + 1
    /\ UNCHANGED <<config, serverVars, healthVars, envVars, pollerVars>>

(* token_manager.stop(): set the event, join for 10 s at most. *)
StopTokens ==
    /\ \/ Acquire("stop_tokens")
       \/ Advance("token_set", "join_tokens")
       \/ Advance("join_tokens", AfterTokens)
    /\ UNCHANGED <<serverVars, healthVars, envVars, pollerVars>>

(* poller.stop(): set the event... *)
StopPoller ==
    /\ Acquire("stop_poller")
    /\ stopEvent' = TRUE
    /\ UNCHANGED <<serverVars, listening, graceful, status, envVars, pollerVars>>

PollerEventSet ==
    /\ Advance("poller_set", "join_poller")
    /\ UNCHANGED <<serverVars, healthVars, envVars, pollerVars>>

(* ...and join. *)
JoinPoller ==
    /\ poller = "ended"
    /\ Advance("join_poller", "stop_health")
    /\ UNCHANGED <<serverVars, healthVars, envVars, pollerVars>>

(* Faulty variant: join() without a timeout.                               *)
JoinForever == FALSE /\ UNCHANGED vars

(* join(timeout=interval * 2) returns although the thread still runs. *)
JoinTimesOut ==
    /\ poller # "ended"
    /\ Advance("join_poller", "stop_health")
    /\ UNCHANGED <<serverVars, healthVars, envVars, pollerVars>>

(* HealthServer.stop: every status to NOT_SERVING for good, the port last. *)
EnterGraceful ==
    /\ Advance("stop_health", "stop_listening")
    /\ graceful' = TRUE
    /\ status' = [n \in Names |-> "NOT_SERVING"]
    /\ UNCHANGED <<serverVars, listening, stopEvent, envVars, pollerVars>>

StopListening ==
    /\ Advance("stop_listening", "shutdown")
    /\ listening' = FALSE
    /\ UNCHANGED <<serverVars, graceful, stopEvent, status, envVars, pollerVars>>

(* server.shutdown: close_all empties the map under its lock... *)
CloseAll ==
    /\ \/ Acquire("shutdown")
       \/ Advance("close_all", "close_db")
    /\ UNCHANGED <<serverVars, healthVars, envVars, pollerVars>>

CloseDatabase ==
    /\ Advance("close_db", "stop_flight")
    /\ dbOpen' = FALSE
    /\ UNCHANGED <<flight, attached, healthVars, envVars, pollerVars>>

(* ...and the Flight server is stopped, and waits for its calls, last;     *)
(* then the handler returns.                                               *)
StopFlight ==
    /\ main = "stop_flight"
    /\ flight' = "stopped"
    /\ UNCHANGED <<mainVars, attached, dbOpen, healthVars, envVars, pollerVars>>

Return ==
    /\ main = "stop_flight" /\ flight = "stopped" /\ calls = 0
    /\ IF frames = <<>>
       THEN main' = "exited" /\ UNCHANGED frames
       ELSE main' = frames[Len(frames)] /\ frames' = SubSeq(frames, 1, Len(frames) - 1)
    /\ UNCHANGED <<config, signals, serverVars, healthVars, envVars, pollerVars>>

Main ==
    \/ Configure
    \/ BuildServer
    \/ ConnectDatabase
    \/ MakeSessions
    \/ MakeMeta
    \/ InstallExtensions
    \/ CreateSecrets
    \/ AttachDuckLake
    \/ StartHealth
    \/ SetOverall
    \/ SetService
    \/ StartPoller
    \/ Serve
    \/ Handle
    \/ StopTokens
    \/ StopPoller
    \/ PollerEventSet
    \/ JoinPoller
    \/ JoinTimesOut
    \/ EnterGraceful
    \/ StopListening
    \/ CloseAll
    \/ CloseDatabase
    \/ StopFlight
    \/ Return

-----------------------------------------------------------------------------
(* _poll_loop *)
AfterCheck == IF stopEvent THEN "ended" ELSE "probe"

CheckStop ==
    /\ poller = "check"
    /\ poller' = AfterCheck
    /\ UNCHANGED <<mainVars, serverVars, healthVars, envVars, probe>>

(* Faulty variant: a failing probe is only logged.                         *)
ProbeLogsOnly ==
    /\ poller = "probe"
    /\ ~hung
    /\ probe' = IF dbOpen /\ reachable THEN "SERVING" ELSE probe
    /\ poller' = "report_overall"
    /\ UNCHANGED <<mainVars, serverVars, healthVars, envVars>>

Probe ==
    /\ poller = "probe"
    /\ ~hung
    /\ probe' = IF dbOpen /\ reachable THEN "SERVING" ELSE "NOT_SERVING"
    /\ poller' = "report_overall"
    /\ UNCHANGED <<mainVars, serverVars, healthVars, envVars>>

ReportOverall ==
    /\ poller = "report_overall"
    /\ SetStatus("", probe)
    /\ poller' = "report_service"
    /\ UNCHANGED <<mainVars, serverVars, listening, graceful, stopEvent, envVars, probe>>

(* Faulty variant: the loop ends with the first failing probe.             *)
ReportServiceOnce ==
    /\ poller = "report_service"
    /\ SetStatus("lakehouse.FlightSql", probe)
    /\ poller' = IF probe = "SERVING" THEN "wait" ELSE "ended"
    /\ UNCHANGED <<mainVars, serverVars, listening, graceful, stopEvent, envVars, probe>>

ReportService ==
    /\ poller = "report_service"
    /\ SetStatus("lakehouse.FlightSql", probe)
    /\ poller' = "wait"
    /\ UNCHANGED <<mainVars, serverVars, listening, graceful, stopEvent, envVars, probe>>

(* Event.wait(interval) ends with the interval or with the event. *)
WaitEnds ==
    /\ poller = "wait"
    /\ poller' = "check"
    /\ UNCHANGED <<mainVars, serverVars, healthVars, envVars, probe>>

Poller == CheckStop \/ Probe \/ ReportOverall \/ ReportService \/ WaitEnds

-----------------------------------------------------------------------------
(* Until the constructor has got that far there is no _sessions attribute. *)
NoSessionsYet == main \in {"connect", "make_sessions"}

(* Faulty variant: a failing USE is suppressed, as the SET after it is.    *)
DefaultSuppressed ==
    IF ~dbOpen \/ NoSessionsYet THEN {} ELSE IF attached THEN {"lake"} ELSE {"memory"}

(* The default database of a session that get_or_create makes now: with a  *)
(* lake it runs USE <alias> on the new connection, which raises, with      *)
(* nothing stored, before ATTACH; a closed database has no new connection, *)
(* and a call before _sessions exists ends with an AttributeError.         *)
NewDefault ==
    IF ~dbOpen \/ NoSessionsYet THEN {}
    ELSE IF ~(LakeEnabled /\ config.alias) THEN {"memory"}
    ELSE IF attached THEN {"lake"} ELSE {}

(* A Flight call, perhaps the first of a peer. *)
Call ==
    /\ flight = "accepting"
    /\ calls < MaxCalls
    /\ calls' = calls + 1
    /\ sessions' = sessions \cup NewDefault
    /\ UNCHANGED <<mainVars, serverVars, healthVars, reachable, hung, pollerVars>>

CallEnds ==
    /\ calls > 0
    /\ calls' = calls - 1
    /\ UNCHANGED <<mainVars, serverVars, healthVars, sessions, reachable, hung, pollerVars>>

Environment ==
    /\ reachable' \in BOOLEAN
    /\ hung' \in BOOLEAN
    /\ <<reachable, hung>>' # <<reachable, hung>>
    /\ UNCHANGED <<mainVars, serverVars, healthVars, calls, sessions, pollerVars>>

Next == Main \/ StartupEnds \/ Signal \/ Interrupt \/ Poller \/ Call \/ CallEnds \/ Environment

Spec == Init /\ [][Next]_vars

(* The threads are scheduled, and every call ends; nothing makes a signal  *)
(* come or a hung probe return.                                            *)
FairSpec == Spec /\ WF_vars(Main) /\ WF_vars(Poller) /\ WF_vars(CallEnds)

=============================================================================
