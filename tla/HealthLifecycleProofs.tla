------------------------- MODULE HealthLifecycleProofs -------------------------
(***************************************************************************)
(* What a health probe may conclude, which database sessions and calls     *)
(* have, and that shutdown is reported for good: for any configuration and *)
(* any number of calls and of nested signals.                              *)
(***************************************************************************)
EXTENDS HealthLifecycleProps, SequenceTheorems, TLAPS

(* A handler step returns to where it was called from. *)
LEMMA FramesPopped ==
  ASSUME NEW S, NEW f \in Seq(S), f # <<>>
  PROVE  /\ f[Len(f)] \in S
         /\ SubSeq(f, 1, Len(f) - 1) \in Seq(S)
         /\ Len(SubSeq(f, 1, Len(f) - 1)) = Len(f) - 1
         /\ \A k \in 1..Len(f) - 1 : SubSeq(f, 1, Len(f) - 1)[k] = f[k]
         /\ Len(f) \in Nat \ {0}
  OBVIOUS

(* A signal's handler comes to lie on top of what it interrupts. *)
LEMMA FramesPushed ==
  ASSUME NEW S, NEW f \in Seq(S), NEW l \in S
  PROVE  /\ Append(f, l) \in Seq(S)
         /\ Len(Append(f, l)) = Len(f) + 1
         /\ Append(f, l)[Len(f) + 1] = l
         /\ \A k \in 1..Len(f) : Append(f, l)[k] = f[k]
         /\ Len(f) \in Nat
  OBVIOUS

(* The steps by what they do to the stack of interrupted handlers. *)
LEMMA FrameSteps ==
  ASSUME [Next]_vars
  PROVE  Signal \/ Interrupt \/ Return \/ UNCHANGED <<frames, signals>>
<1> USE DEF mainVars, serverVars, healthVars, envVars, pollerVars, Advance, Prepare, Acquire
<1>1. CASE Main
  BY <1>1 DEF Main, Configure, BuildServer, ConnectDatabase, MakeSessions, MakeMeta, InstallExtensions, CreateSecrets, AttachDuckLake,
              StartHealth, SetOverall, SetService, StartPoller, Serve, Handle, StopTokens,
              StopPoller, PollerEventSet, JoinPoller, JoinTimesOut, EnterGraceful,
              StopListening, CloseAll, CloseDatabase, StopFlight
<1>2. CASE Poller
  BY <1>2 DEF Poller, CheckStop, Probe, ReportOverall, ReportService, WaitEnds
<1>3. CASE StartupEnds \/ Call \/ CallEnds \/ Environment
  BY <1>3 DEF StartupEnds, Call, CallEnds, Environment
<1>4. CASE UNCHANGED vars
  BY <1>4 DEF vars
<1>. QED
  BY <1>1, <1>2, <1>3, <1>4 DEF Next

(* Where the main thread may be. *)
Places == HandlerSteps \cup
    {"configure", "build", "connect", "make_sessions", "make_meta", "install", "secrets",
     "attach", "start_health", "set_overall", "set_service", "start_poller", "installed",
     "serving", "draining", "exited", "dead"}

(* TypeOK, apart from the stack of interrupted handlers. *)
Scalars ==
    /\ config \in [given : SUBSET LakeFields, alias : BOOLEAN, valid : BOOLEAN, health : BOOLEAN]
    /\ main \in Places
    /\ signals \in 0..MaxSignals
    /\ flight \in {"off", "accepting", "stopped"}
    /\ calls \in 0..MaxCalls
    /\ attached \in BOOLEAN /\ dbOpen \in BOOLEAN /\ listening \in BOOLEAN
    /\ reachable \in BOOLEAN /\ hung \in BOOLEAN
    /\ graceful \in BOOLEAN /\ stopEvent \in BOOLEAN
    /\ sessions \subseteq {"lake", "memory"}
    /\ status \in [Names -> {"SERVING", "NOT_SERVING", "UNKNOWN"}]
    /\ poller \in {"off", "check", "probe", "report_overall", "report_service", "wait", "ended"}
    /\ probe \in {"SERVING", "NOT_SERVING"}

Stack == frames \in Seq(HandlerSteps \cup {"installed"}) /\ Len(frames) <= signals

(* The stack holds steps of handlers, no more than signals came. *)
LEMMA StackStep ==
  ASSUME Scalars, Stack, [Next]_vars
  PROVE  Stack' /\ (frames # <<>> => frames[Len(frames)] \in HandlerSteps \cup {"installed"})
<1>1. CASE UNCHANGED <<frames, signals>>
  BY <1>1, FramesPopped DEF Stack
<1>2. signals \in Nat /\ Len(frames) \in Nat
  BY BoundsAssumption DEF Scalars, Stack
<1>3. CASE Signal
  BY <1>2, <1>3, FramesPopped DEF Signal, Stack
<1>4. CASE Interrupt
  <2>1. main \in HandlerSteps \cup {"installed"} /\ frames' = Append(frames, main)
        /\ signals' = signals + 1
    BY <1>4 DEF Interrupt
  <2>. QED
    BY <1>2, <2>1, FramesPushed, FramesPopped DEF Stack
<1>5. CASE Return
  <2>1. UNCHANGED signals
    BY <1>5 DEF Return
  <2>. QED
    BY <1>1, <1>2, <1>5, <2>1, FramesPopped DEF Return, Stack
<1>. QED
  BY <1>1, <1>3, <1>4, <1>5, FrameSteps

(* Every variable of the lifecycle keeps its type. *)
THEOREM TypeCorrect == Spec => []TypeOK
<1>1. Init => Scalars /\ Stack
  <2> SUFFICES ASSUME Init PROVE Scalars /\ Stack
    OBVIOUS
  <2>1. frames = <<>> /\ signals = 0 /\ calls = 0
    BY DEF Init
  <2>2. Stack /\ signals \in 0..MaxSignals /\ calls \in 0..MaxCalls
    BY <2>1, BoundsAssumption DEF Stack
  <2>. QED
    BY <2>2 DEF Init, Scalars, Names, Places
<1>2. Scalars /\ Stack /\ [Next]_vars => (Scalars /\ Stack)'
  <2> SUFFICES ASSUME Scalars, Stack, [Next]_vars PROVE Scalars'
    BY StackStep
  <2> USE BoundsAssumption
      DEF mainVars, serverVars, healthVars, envVars, pollerVars, Advance, Prepare
  <2>1. AfterLake \in Places /\ FirstStop \in Places /\ AfterTokens \in Places
    BY DEF AfterLake, FirstStop, AfterTokens, HandlerSteps, Places
  <2>2. ASSUME NEW n \in Names, NEW s \in {"SERVING", "NOT_SERVING"}, SetStatus(n, s)
        PROVE  status' \in [Names -> {"SERVING", "NOT_SERVING", "UNKNOWN"}]
    BY <2>2 DEF SetStatus, Scalars
  <2>3. "" \in Names /\ "lakehouse.FlightSql" \in Names /\ probe \in {"SERVING", "NOT_SERVING"}
    BY DEF Names, Scalars
  <2>4. CASE Configure
    <3>1. main' \in Places
      BY <2>4 DEF Configure, Places
    <3>. QED
      BY <2>4, <3>1 DEF Configure, Scalars
  <2>5. CASE BuildServer
    <3>1. main' \in Places
      BY <2>5 DEF BuildServer, Places
    <3>. QED
      BY <2>5, <3>1 DEF BuildServer, Scalars
  <2>6. CASE InstallExtensions
    <3>1. main' \in Places
      BY <2>6 DEF InstallExtensions, Places
    <3>. QED
      BY <2>6, <3>1 DEF InstallExtensions, Scalars
  <2>7. CASE CreateSecrets
    <3>1. main' \in Places
      BY <2>7 DEF CreateSecrets, Places
    <3>. QED
      BY <2>7, <3>1 DEF CreateSecrets, Scalars
  <2>8. CASE AttachDuckLake
    <3>1. main' \in Places
      BY <2>1, <2>8 DEF AttachDuckLake, Places
    <3>. QED
      BY <2>8, <3>1 DEF AttachDuckLake, Scalars
  <2>9. CASE StartHealth
    <3>1. main' \in Places
      BY <2>9 DEF StartHealth, Places
    <3>. QED
      BY <2>9, <3>1 DEF StartHealth, Scalars
  <2>10. CASE StartPoller
    <3>1. main' \in Places
      BY <2>10 DEF StartPoller, Places
    <3>. QED
      BY <2>10, <3>1, ZenonT(30) DEF StartPoller, Scalars
  <2>11. CASE Serve
    <3>1. main' \in Places
      BY <2>11 DEF Serve, Places
    <3>. QED
      BY <2>11, <3>1 DEF Serve, Scalars
  <2>12. CASE Handle
    <3>1. main' \in Places
      BY <2>1, <2>12 DEF Handle, Places
    <3>. QED
      BY <2>12, <3>1 DEF Handle, Scalars
  <2>13. CASE PollerEventSet
    <3>1. main' \in Places
      BY <2>13 DEF PollerEventSet, HandlerSteps, Places
    <3>. QED
      BY <2>13, <3>1 DEF PollerEventSet, Scalars
  <2>14. CASE JoinPoller
    <3>1. main' \in Places
      BY <2>14 DEF JoinPoller, HandlerSteps, Places
    <3>. QED
      BY <2>14, <3>1 DEF JoinPoller, Scalars
  <2>15. CASE JoinTimesOut
    <3>1. main' \in Places
      BY <2>15 DEF JoinTimesOut, HandlerSteps, Places
    <3>. QED
      BY <2>15, <3>1 DEF JoinTimesOut, Scalars
  <2>16. CASE EnterGraceful
    <3>1. main' \in Places
      BY <2>16 DEF EnterGraceful, HandlerSteps, Places
    <3>. QED
      BY <2>16, <3>1 DEF EnterGraceful, Scalars
  <2>17. CASE StopListening
    <3>1. main' \in Places
      BY <2>17 DEF StopListening, HandlerSteps, Places
    <3>2. /\ UNCHANGED <<config, signals, flight, attached, dbOpen, graceful, stopEvent,
                      status, reachable, hung, calls, sessions,
                      poller, probe>>
          /\ listening' \in BOOLEAN
      BY <2>17 DEF StopListening
    <3>. QED
      BY <3>1, <3>2 DEF Scalars
  <2>18. CASE CloseDatabase
    <3>1. main' \in Places
      BY <2>18 DEF CloseDatabase, HandlerSteps, Places
    <3>2. /\ UNCHANGED <<config, signals, flight, attached, listening, graceful, stopEvent,
                      status, reachable, hung, calls, sessions,
                      poller, probe>>
          /\ dbOpen' \in BOOLEAN
      BY <2>18 DEF CloseDatabase
    <3>. QED
      BY <3>1, <3>2 DEF Scalars
  <2>19. CASE StopFlight
    <3>1. main' \in Places
      BY <2>19 DEF StopFlight, HandlerSteps, Places
    <3>. QED
      BY <2>19, <3>1 DEF StopFlight, Scalars
  <2>20. CASE SetOverall
    <3>1. status' \in [Names -> {"SERVING", "NOT_SERVING", "UNKNOWN"}]
      BY <2>2, <2>3, <2>20 DEF SetOverall
    <3>2. main' \in Places
      BY <2>20 DEF SetOverall, Places
    <3>3. /\ UNCHANGED <<config, signals, flight, attached, dbOpen, listening, graceful,
                      stopEvent, reachable, hung, calls, sessions,
                      poller, probe>>
      BY <2>20 DEF SetOverall
    <3>. QED
      BY <3>1, <3>2, <3>3 DEF Scalars
  <2>21. CASE SetService
    <3>1. status' \in [Names -> {"SERVING", "NOT_SERVING", "UNKNOWN"}]
      BY <2>2, <2>3, <2>21 DEF SetService
    <3>2. main' \in Places
      BY <2>21 DEF SetService, Places
    <3>. QED
      BY <2>21, <3>1, <3>2 DEF SetService, Scalars
  <2>22. CASE ReportOverall
    <3>1. status' \in [Names -> {"SERVING", "NOT_SERVING", "UNKNOWN"}]
      BY <2>2, <2>3, <2>22 DEF ReportOverall
    <3>2. /\ UNCHANGED <<config, signals, flight, attached, dbOpen, listening, graceful,
                      stopEvent, reachable, hung, calls, sessions,
                      probe>>
          /\ poller' = "report_service" /\ UNCHANGED main
      BY <2>22 DEF ReportOverall
    <3>. QED
      BY <3>1, <3>2 DEF Scalars
  <2>23. CASE ReportService
    <3>1. status' \in [Names -> {"SERVING", "NOT_SERVING", "UNKNOWN"}]
      BY <2>2, <2>3, <2>23 DEF ReportService
    <3>. QED
      BY <2>23, <3>1 DEF ReportService, Scalars
  <2>24. CASE StopTokens
    <3>1. main' \in Places
      BY <2>1, <2>24 DEF StopTokens, Acquire, Inside, HandlerSteps, Places
    <3>. QED
      BY <2>24, <3>1 DEF StopTokens, Acquire, Scalars
  <2>25. CASE StopPoller
    <3>1. main' \in Places
      BY <2>1, <2>25 DEF StopPoller, Acquire, Inside, HandlerSteps, Places
    <3>. QED
      BY <2>25, <3>1 DEF StopPoller, Acquire, Scalars
  <2>26. CASE CloseAll
    <3>1. main' \in Places
      BY <2>1, <2>26 DEF CloseAll, Acquire, Inside, HandlerSteps, Places
    <3>. QED
      BY <2>26, <3>1 DEF CloseAll, Acquire, Scalars
  <2>27. CASE Return
    <3>1. main' \in Places
      BY <2>27, StackStep DEF Return, Places
    <3>. QED
      BY <2>27, <3>1 DEF Return, Scalars
  <2>28. CASE StartupEnds
    <3>1. main' \in Places /\ UNCHANGED <<config, signals>>
      BY <2>28 DEF StartupEnds, Places
    <3>2. calls' \in 0..MaxCalls
      BY <2>28 DEF StartupEnds
    <3>3. /\ UNCHANGED <<config, signals, attached, graceful, stopEvent, status, reachable,
                      hung, sessions, poller, probe>>
          /\ flight' = "stopped" /\ dbOpen' = FALSE /\ listening' = FALSE
      BY <2>28 DEF StartupEnds
    <3>. QED
      BY <3>1, <3>2, <3>3 DEF Scalars
  <2>29. CASE Signal
    <3>1. main' \in Places
      BY <2>29 DEF Signal, Places
    <3>. QED
      BY <2>29, <3>1 DEF Signal, Scalars
  <2>30. CASE Interrupt
    <3>1. main' \in Places
      BY <2>1, <2>30 DEF Interrupt, Places
    <3>. QED
      BY <2>30, <3>1 DEF Interrupt, Scalars
  <2>31. CASE CheckStop
    BY <2>31 DEF CheckStop, Scalars, AfterCheck
  <2>32. CASE Probe
    BY <2>32 DEF Probe, Scalars
  <2>33. CASE WaitEnds
    BY <2>33 DEF WaitEnds, Scalars
  <2>34. CASE CallEnds
    BY <2>34 DEF CallEnds, Scalars
  <2>35. CASE Environment
    BY <2>35 DEF Environment, Scalars
  <2>36. CASE Call
    <3>1. calls' \in 0..MaxCalls /\ sessions' \subseteq {"lake", "memory"}
      BY <2>36 DEF Call, NewDefault, Scalars
    <3>. QED
      BY <2>36, <3>1 DEF Call, Scalars
  <2>37. CASE UNCHANGED vars
    BY <2>37 DEF vars, Scalars
  <2>38. CASE ConnectDatabase
    <3>1. main' \in Places
      BY <2>38 DEF ConnectDatabase, Places
    <3>2. /\ UNCHANGED <<config, signals, flight, attached, listening, graceful, stopEvent,
                      status, reachable, hung, calls, sessions,
                      poller, probe>>
          /\ dbOpen' \in BOOLEAN
      BY <2>38 DEF ConnectDatabase
    <3>. QED
      BY <3>1, <3>2 DEF Scalars
  <2>39. CASE MakeSessions
    <3>1. main' \in Places
      BY <2>39 DEF MakeSessions, Places
    <3>. QED
      BY <2>39, <3>1 DEF MakeSessions, Scalars
  <2>40. CASE MakeMeta
    <3>1. main' \in Places
      BY <2>1, <2>40 DEF MakeMeta, Places
    <3>. QED
      BY <2>40, <3>1 DEF MakeMeta, Scalars
  <2>. QED
    BY <2>38, <2>39, <2>40, <2>4, <2>5, <2>6, <2>7, <2>8, <2>9, <2>10, <2>11, <2>12, <2>13, <2>14, <2>15,
       <2>16, <2>17, <2>18, <2>19, <2>20, <2>21, <2>22, <2>23, <2>24, <2>25,
       <2>26, <2>27, <2>28, <2>29, <2>30, <2>31, <2>32, <2>33, <2>34, <2>35,
       <2>36, <2>37
       DEF Next, Main, Poller
<1>3. Scalars /\ Stack => TypeOK
  BY DEF Scalars, Stack, TypeOK, Places
<1>. QED
  BY <1>1, <1>2, <1>3, PTL DEF Spec

-----------------------------------------------------------------------------
(* The steps that only move the main thread, or report a status. *)
Leg ==
    \/ main' = main
    \/ main = "configure" /\ main' \in {"build", "dead"}
       /\ (main' = "build" => FieldsComplete)
    \/ main = "make_sessions" /\ main' = "make_meta"
    \/ main = "install" /\ main' = "secrets"
    \/ main = "secrets" /\ main' = "attach"
    \/ main = "set_overall" /\ main' = "set_service"
    \/ main = "set_service" /\ main' = "start_poller"
    \/ main = "start_poller" /\ main' = "installed"
    \/ main = "installed" /\ main' = IF flight = "accepting" THEN "serving" ELSE "exited"
    \/ main = "draining" /\ calls = 0 /\ main' = FirstStop
    \/ main \in {"stop_tokens", "token_set", "join_tokens"}
       /\ main' \in {"token_set", "join_tokens", AfterTokens}
    \/ main \in {"stop_poller", "poller_set", "join_poller"}
       /\ main' \in {"poller_set", "join_poller", "stop_health"}
    \/ main \in {"shutdown", "close_all"} /\ main' \in {"close_all", "close_db"}

Walk ==
    /\ Leg
    /\ UNCHANGED <<config, frames, signals, flight, calls, dbOpen, attached, sessions, listening, graceful>>
    /\ status' = status \/ ~graceful

(* What a step can do to the ports, the database and the statuses. *)
LEMMA StepKinds ==
  ASSUME [Next]_vars
  PROVE  \/ Walk \/ BuildServer \/ ConnectDatabase \/ MakeMeta
         \/ AttachDuckLake \/ StartHealth \/ EnterGraceful \/ StopListening
         \/ CloseDatabase \/ StopFlight \/ Return \/ StartupEnds
         \/ Signal \/ Interrupt \/ Call \/ CallEnds
<1> USE DEF mainVars, serverVars, healthVars, envVars, pollerVars, Advance, Prepare, Acquire,
            Walk, Leg
<1>1. CASE Configure \/ MakeSessions \/ InstallExtensions \/ CreateSecrets
  BY <1>1 DEF Configure, MakeSessions, InstallExtensions, CreateSecrets
<1>2. CASE SetOverall \/ SetService
  BY <1>2 DEF SetOverall, SetService, SetStatus
<1>3. CASE StartPoller \/ Serve \/ Handle
  BY <1>3 DEF StartPoller, Serve, Handle
<1>4. CASE StopTokens \/ CloseAll
  BY <1>4 DEF StopTokens, CloseAll, Inside
<1>5. CASE StopPoller \/ PollerEventSet \/ JoinPoller \/ JoinTimesOut
  BY <1>5 DEF StopPoller, PollerEventSet, JoinPoller, JoinTimesOut, Inside
<1>6. CASE ReportOverall \/ ReportService
  BY <1>6 DEF ReportOverall, ReportService, SetStatus
<1>7. CASE CheckStop \/ Probe \/ WaitEnds \/ Environment
  BY <1>7 DEF CheckStop, Probe, WaitEnds, Environment
<1>8. CASE UNCHANGED vars
  BY <1>8 DEF vars
<1> HIDE DEF Walk
<1>. QED
  BY <1>1, <1>2, <1>3, <1>4, <1>5, <1>6, <1>7, <1>8 DEF Next, Main, Poller

(* Nothing interrupts the main thread before the handlers are installed,   *)
(* in serve() or after the end, and "installed" lies below every handler.  *)
Nesting ==
    /\ main \notin HandlerSteps => frames = <<>>
    /\ \A k \in 1..Len(frames) : frames[k] = "installed" => k = 1

FromInstalled == frames # <<>> /\ frames[1] = "installed"

(* Before DuckLake is attached, or after a start that failed. *)
Early == {"configure", "build", "connect", "make_sessions", "make_meta", "install", "secrets",
          "attach", "dead"}

(* Which settings the process has got this far with. *)
Configured ==
    /\ main \notin {"configure", "dead"} => FieldsComplete
    /\ main \in {"install", "secrets", "attach"} => LakeEnabled
    /\ main \in {"start_health", "set_overall", "set_service", "start_poller"} => config.health
    /\ attached => LakeEnabled /\ config.alias
    /\ "memory" \in sessions => ~(LakeEnabled /\ config.alias)
    /\ main \notin Early => (config.given # {} => attached)

(* Where the ports are up, and where calls may be without a database.      *)
Ports ==
    /\ main \in {"configure", "build"} => flight = "off" /\ calls = 0
    /\ main = "connect" => flight = "accepting"
    /\ main \in {"make_sessions", "make_meta", "install", "secrets", "attach", "start_health",
                 "set_overall", "set_service", "start_poller"} => dbOpen /\ flight = "accepting"
    /\ main = "draining" => flight = "stopped"
    /\ main \in HandlerSteps \cup {"draining"} => signals > 0
    /\ flight = "stopped" => signals > 0 \/ main = "dead"
    /\ listening => config.health /\ flight # "off" /\ main \notin Early
    /\ main \in HandlerSteps => FromInstalled \/ (calls = 0 /\ flight = "stopped")
    /\ ~dbOpen => \/ FromInstalled
                  \/ main = "connect"
                  \/ calls = 0 /\ flight # "accepting"

(* Where the health servicer has been told of the shutdown. *)
Late == {"stop_listening", "shutdown", "close_all", "close_db", "stop_flight"}

Told ==
    /\ graceful => \A n \in Names : status[n] = "NOT_SERVING"
    /\ config.health /\ main \in Late \cup {"exited"} => graceful
    /\ config.health => \A k \in 1..Len(frames) : frames[k] \in Late => graceful
    /\ config.health /\ ~dbOpen /\ main \notin {"configure", "build", "connect", "dead"} => graceful
    /\ config.health /\ flight # "accepting" /\ (main = "installed" \/ FromInstalled) => graceful

(* What the stack is after a handler has been entered or left. *)
LEMMA Nested ==
  ASSUME TypeOK
  PROVE  /\ Len(frames) \in Nat /\ (frames # <<>> => Len(frames) > 0)
         /\ Interrupt => /\ frames' # <<>> /\ Len(frames') = Len(frames) + 1
                         /\ frames'[Len(frames) + 1] = main
                         /\ \A k \in 1..Len(frames) : frames'[k] = frames[k]
         /\ Return /\ frames # <<>> =>
               /\ Len(frames') = Len(frames) - 1 /\ main' = frames[Len(frames)]
               /\ main' \in HandlerSteps \cup {"installed"}
               /\ \A k \in 1..Len(frames) - 1 : frames'[k] = frames[k]
               /\ Len(frames) = 1 => frames' = <<>>
<1>1. frames \in Seq(HandlerSteps \cup {"installed"})
  BY DEF TypeOK
<1>2. ASSUME Interrupt
      PROVE  /\ frames' # <<>> /\ Len(frames') = Len(frames) + 1
             /\ frames'[Len(frames) + 1] = main
             /\ \A k \in 1..Len(frames) : frames'[k] = frames[k]
  <2>1. frames' = Append(frames, main) /\ main \in HandlerSteps \cup {"installed"}
    BY <1>2 DEF Interrupt
  <2>. QED
    BY <1>1, <2>1, FramesPushed
<1>3. ASSUME Return, frames # <<>>
      PROVE  /\ Len(frames') = Len(frames) - 1 /\ main' = frames[Len(frames)]
             /\ main' \in HandlerSteps \cup {"installed"}
             /\ \A k \in 1..Len(frames) - 1 : frames'[k] = frames[k]
             /\ Len(frames) = 1 => frames' = <<>>
  <2>1. main' = frames[Len(frames)] /\ frames' = SubSeq(frames, 1, Len(frames) - 1)
    BY <1>3 DEF Return
  <2>. QED
    BY <1>1, <1>3, <2>1, FramesPopped
<1>. QED
  BY <1>1, <1>2, <1>3

(* Handlers nest only in handlers, or in the moment before serve(). *)
LEMMA NestingStep ==
  ASSUME TypeOK, Nesting, [Next]_vars
  PROVE  Nesting'
<1> USE DEF mainVars, serverVars, healthVars, envVars, pollerVars, Advance, HandlerSteps, Nesting
<1>1. CASE Walk
  BY <1>1 DEF Walk, Leg, AfterTokens, FirstStop
<1>2. CASE BuildServer
  BY <1>2 DEF BuildServer
<1>3. CASE AttachDuckLake
  BY <1>3 DEF AttachDuckLake, AfterLake, LakeEnabled
<1>4. CASE StartHealth
  BY <1>4 DEF StartHealth
<1>5. CASE EnterGraceful
  BY <1>5 DEF EnterGraceful
<1>6. CASE StopListening
  BY <1>6 DEF StopListening
<1>7. CASE CloseDatabase
  BY <1>7 DEF CloseDatabase
<1>8. CASE StopFlight
  BY <1>8 DEF StopFlight
<1>9. CASE StartupEnds
  BY <1>9 DEF StartupEnds
<1>10. CASE Signal
  BY <1>10 DEF Signal
<1>11. CASE Call
  BY <1>11 DEF Call
<1>12. CASE CallEnds
  BY <1>12 DEF CallEnds
<1>13. CASE Interrupt
  BY <1>13, Nested DEF Interrupt, FirstStop, AfterTokens
<1>14. CASE Return
  <2>1. CASE frames = <<>>
    BY <1>14, <2>1, Nested DEF Return
  <2>2. CASE frames # <<>>
    BY <1>14, <2>2, Nested DEF Return
  <2>. QED
    BY <2>1, <2>2
<1>15. CASE ConnectDatabase
  BY <1>15 DEF ConnectDatabase
<1>16. CASE MakeMeta
  BY <1>16 DEF MakeMeta, Prepare, AfterLake, LakeEnabled
<1>. QED
  BY <1>1, <1>2, <1>3, <1>4, <1>5, <1>6, <1>7, <1>8, <1>9, <1>10, <1>11, <1>12, <1>13, <1>14,
     <1>15, <1>16, StepKinds

(* The lake's settings are used as they were checked. *)
LEMMA ConfiguredStep ==
  ASSUME TypeOK, Nesting, Configured, [Next]_vars
  PROVE  Configured'
<1> USE DEF mainVars, serverVars, healthVars, envVars, pollerVars, Advance, HandlerSteps, Nesting, Early, Configured, LakeEnabled, FieldsComplete
<1>1. CASE Walk
  BY <1>1 DEF Walk, Leg, AfterTokens, FirstStop
<1>2. CASE BuildServer
  BY <1>2 DEF BuildServer
<1>3. CASE AttachDuckLake
  BY <1>3 DEF AttachDuckLake, AfterLake, LakeEnabled
<1>4. CASE StartHealth
  BY <1>4 DEF StartHealth
<1>5. CASE EnterGraceful
  BY <1>5 DEF EnterGraceful
<1>6. CASE StopListening
  BY <1>6 DEF StopListening
<1>7. CASE CloseDatabase
  BY <1>7 DEF CloseDatabase
<1>8. CASE StopFlight
  BY <1>8 DEF StopFlight
<1>9. CASE StartupEnds
  BY <1>9 DEF StartupEnds
<1>10. CASE Signal
  BY <1>10 DEF Signal
<1>11. CASE Call
  BY <1>11 DEF Call, NewDefault
<1>12. CASE CallEnds
  BY <1>12 DEF CallEnds
<1>13. CASE Interrupt
  BY <1>13, Nested DEF Interrupt, FirstStop, AfterTokens
<1>14. CASE Return
  <2>1. CASE frames = <<>>
    BY <1>14, <2>1, Nested DEF Return
  <2>2. CASE frames # <<>>
    BY <1>14, <2>2, Nested DEF Return
  <2>. QED
    BY <2>1, <2>2
<1>15. CASE ConnectDatabase
  BY <1>15 DEF ConnectDatabase
<1>16. CASE MakeMeta
  BY <1>16 DEF MakeMeta, Prepare, AfterLake, LakeEnabled, LakeFields
<1>. QED
  BY <1>1, <1>2, <1>3, <1>4, <1>5, <1>6, <1>7, <1>8, <1>9, <1>10, <1>11, <1>12, <1>13, <1>14,
     <1>15, <1>16, StepKinds

(* The ports open and close around the database as Ports says. *)
LEMMA PortsStep ==
  ASSUME TypeOK, Nesting, Configured, Ports, [Next]_vars
  PROVE  Ports'
<1> USE DEF mainVars, serverVars, healthVars, envVars, pollerVars, Advance, HandlerSteps, Nesting, Early, Ports, FromInstalled
<1>0. signals \in Nat
  BY BoundsAssumption DEF TypeOK
<1>1. CASE Walk
  BY <1>1 DEF Walk, Leg, AfterTokens, FirstStop, Configured
<1>2. CASE BuildServer
  BY <1>2 DEF BuildServer, Configured
<1>3. CASE AttachDuckLake
  BY <1>3 DEF AttachDuckLake, AfterLake, LakeEnabled, Configured
<1>4. CASE StartHealth
  BY <1>4 DEF StartHealth, Configured
<1>5. CASE EnterGraceful
  BY <1>5 DEF EnterGraceful
<1>6. CASE StopListening
  BY <1>6 DEF StopListening
<1>7. CASE CloseDatabase
  BY <1>7 DEF CloseDatabase
<1>8. CASE StopFlight
  BY <1>8 DEF StopFlight
<1>9. CASE StartupEnds
  BY <1>9 DEF StartupEnds
<1>10. CASE Signal
  BY <1>0, <1>10 DEF Signal
<1>11. CASE Call
  BY <1>11 DEF Call
<1>12. CASE CallEnds
  BY <1>12 DEF CallEnds
<1>13. CASE Interrupt
  BY <1>0, <1>13, Nested DEF Interrupt, FirstStop, AfterTokens
<1>14. CASE Return
  <2>1. CASE frames = <<>>
    BY <1>14, <2>1, Nested DEF Return
  <2>2. CASE frames # <<>>
    BY <1>14, <2>2, Nested DEF Return
  <2>. QED
    BY <2>1, <2>2
<1>15. CASE ConnectDatabase
  BY <1>15 DEF ConnectDatabase
<1>16. CASE MakeMeta
  BY <1>16 DEF MakeMeta, Prepare, AfterLake, LakeEnabled, Configured
<1>. QED
  BY <1>1, <1>2, <1>3, <1>4, <1>5, <1>6, <1>7, <1>8, <1>9, <1>10, <1>11, <1>12, <1>13, <1>14,
     <1>15, <1>16, StepKinds

(* The health servicer is told before the database closes, for good. *)
LEMMA ToldStep ==
  ASSUME TypeOK, Nesting, Configured, Ports, Told, [Next]_vars
  PROVE  Told'
<1> USE DEF mainVars, serverVars, healthVars, envVars, pollerVars, Advance, HandlerSteps, Nesting, Early, Ports, Told, Late, FromInstalled
<1>1. CASE Walk
  BY <1>1 DEF Walk, Leg, AfterTokens, FirstStop, Configured
<1>2. CASE BuildServer
  BY <1>2 DEF BuildServer, Configured
<1>3. CASE AttachDuckLake
  BY <1>3 DEF AttachDuckLake, AfterLake, LakeEnabled, Configured
<1>4. CASE StartHealth
  BY <1>4 DEF StartHealth, Configured
<1>5. CASE EnterGraceful
  BY <1>5 DEF EnterGraceful
<1>6. CASE StopListening
  BY <1>6 DEF StopListening
<1>7. CASE CloseDatabase
  BY <1>7 DEF CloseDatabase
<1>8. CASE StopFlight
  BY <1>8 DEF StopFlight
<1>9. CASE StartupEnds
  BY <1>9 DEF StartupEnds
<1>10. CASE Signal
  BY <1>10 DEF Signal
<1>11. CASE Call
  BY <1>11 DEF Call
<1>12. CASE CallEnds
  BY <1>12 DEF CallEnds
<1>13. CASE Interrupt
  BY <1>13, Nested DEF Interrupt, FirstStop, AfterTokens
<1>14. CASE Return
  <2>1. CASE frames = <<>>
    BY <1>14, <2>1, Nested DEF Return
  <2>2. CASE frames # <<>>
    BY <1>14, <2>2, Nested DEF Return
  <2>. QED
    BY <2>1, <2>2
<1>15. CASE ConnectDatabase
  BY <1>15 DEF ConnectDatabase
<1>16. CASE MakeMeta
  BY <1>16 DEF MakeMeta, Prepare, AfterLake, LakeEnabled, Configured
<1>. QED
  BY <1>1, <1>2, <1>3, <1>4, <1>5, <1>6, <1>7, <1>8, <1>9, <1>10, <1>11, <1>12, <1>13, <1>14,
     <1>15, <1>16, StepKinds

(* The four together, from the start. *)
LEMMA LifecycleKept == Spec => [](TypeOK /\ Nesting /\ Configured /\ Ports /\ Told)
<1>1. Init => Nesting /\ Configured /\ Ports /\ Told
  <2> SUFFICES ASSUME Init PROVE Nesting /\ Configured /\ Ports /\ Told
    OBVIOUS
  <2>1. /\ main = "configure" /\ frames = <<>> /\ flight = "off" /\ calls = 0 /\ sessions = {}
        /\ ~attached /\ ~dbOpen /\ ~listening /\ ~graceful
    BY DEF Init
  <2>2. Len(frames) = 0 /\ main \notin HandlerSteps
    BY <2>1 DEF HandlerSteps
  <2>3. Nesting /\ Configured
    BY <2>1, <2>2 DEF Nesting, Early, Configured
  <2>4. Ports /\ Told
    BY <2>1, <2>2 DEF Early, Ports, Told, FromInstalled, Late
  <2>. QED
    BY <2>3, <2>4
<1>2. TypeOK /\ Nesting /\ Configured /\ Ports /\ Told /\ [Next]_vars
      => (Nesting /\ Configured /\ Ports /\ Told)'
  BY NestingStep, ConfiguredStep, PortsStep, ToldStep
<1>. QED
  BY <1>1, <1>2, TypeCorrect, PTL DEF Spec

(* A probe that is answered SERVING comes from a process with a database, *)
(* with the lake if any of its settings exist, and with a Flight port that *)
(* accepts calls unless a signal has come; how much later the answer       *)
(* changes is not bounded (the drain comes first).                         *)
THEOREM ServingIsReady == Spec => []ServingMeansReady
<1>1. TypeOK /\ Configured /\ Ports /\ Told => ServingMeansReady
  <2> SUFFICES ASSUME TypeOK, Configured, Ports, Told, listening,
                      \E n \in Names : status[n] = "SERVING"
               PROVE  dbOpen /\ (flight = "accepting" \/ signals > 0)
                      /\ (config.given # {} => attached)
    BY DEF ServingMeansReady
  <2>1. config.health /\ flight # "off" /\ main \notin Early
    BY DEF Ports
  <2>2. ~graceful
    BY DEF Told
  <2>3. dbOpen /\ (config.given # {} => attached)
    BY <2>1, <2>2 DEF Told, Configured, Early
  <2>4. flight = "accepting" \/ signals > 0
    BY <2>1 DEF TypeOK, Ports, Early
  <2>. QED
    BY <2>3, <2>4
<1>. QED
  BY <1>1, LifecycleKept, PTL

(* No session that outlives ATTACH works on the in-memory database. *)
THEOREM SessionsAreOfTheLake == Spec => []SessionsUseLake
<1>1. Configured => SessionsUseLake
  BY DEF Configured, SessionsUseLake
<1>. QED
  BY <1>1, LifecycleKept, PTL

(* No shutdown ends without having told the health servicer, and nothing   *)
(* that is still running takes it back.                                    *)
THEOREM ShutdownReported == Spec => []ShutdownStaysReported
<1>1. Told => ShutdownStaysReported
  BY DEF Told, ShutdownStaysReported
<1>. QED
  BY <1>1, LifecycleKept, PTL

(* Calls are without a database only in the constructor, between opening  *)
(* the port and connecting, and in a shutdown whose signal came between    *)
(* signal.signal and serve(); however many signals come and wherever they  *)
(* interrupt, a server that has been serving closes its database with no   *)
(* call in flight and none to come.                                        *)
THEOREM CallsKeepDatabase == Spec => []CallsHaveDatabase
<1>1. TypeOK /\ Ports => CallsHaveDatabase
  <2> SUFFICES ASSUME TypeOK, Ports, calls > 0 \/ flight = "accepting", ~dbOpen
               PROVE  main = "connect" \/ FromInstalled
    BY DEF CallsHaveDatabase, FromInstalled
  <2>. QED
    BY DEF Ports, TypeOK
<1>. QED
  BY <1>1, LifecycleKept, PTL

=============================================================================
