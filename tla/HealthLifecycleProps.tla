------------------------- MODULE HealthLifecycleProps -------------------------
(***************************************************************************)
(* What a health probe may conclude, and that shutdown ends.               *)
(***************************************************************************)
EXTENDS HealthLifecycle

(* Every variable holds a value of the right shape. *)
TypeOK ==
    /\ config \in [given : SUBSET LakeFields, alias : BOOLEAN, valid : BOOLEAN, health : BOOLEAN]
    /\ main \in HandlerSteps \cup
                {"configure", "build", "connect", "make_sessions", "make_meta", "install", "secrets",
                 "attach", "start_health", "set_overall", "set_service", "start_poller", "installed",
                 "serving", "draining", "exited", "dead"}
    /\ frames \in Seq(HandlerSteps \cup {"installed"})
    /\ Len(frames) <= signals
    /\ signals \in 0..MaxSignals
    /\ flight \in {"off", "accepting", "stopped"}
    /\ calls \in 0..MaxCalls
    /\ attached \in BOOLEAN /\ dbOpen \in BOOLEAN /\ listening \in BOOLEAN
    /\ reachable \in BOOLEAN /\ hung \in BOOLEAN
    /\ graceful \in BOOLEAN /\ stopEvent \in BOOLEAN
    /\ sessions \subseteq {"lake", "memory"}
    /\ status \in [Names -> {"SERVING", "NOT_SERVING", "UNKNOWN"}]
    /\ poller \in {"off", "check", "probe", "report_overall", "report_service", "wait", "ended"}
    /\ probe \in {"SERVING", "NOT_SERVING"}

(* A probe that is answered SERVING is answered by a process with an open  *)
(* database, whose lake is attached if any setting of a lake was given (a  *)
(* configuration that names only part of a lake must not be taken for one  *)
(* without), and whose Flight port accepts calls until a first signal has  *)
(* come.  From then until the handler reaches HealthServer.stop, the whole *)
(* drain included, SERVING is answered although the port is closed.        *)
ServingMeansReady ==
    (listening /\ \E n \in Names : status[n] = "SERVING")
    => /\ dbOpen
       /\ flight = "accepting" \/ signals > 0
       /\ config.given # {} => attached

(* Although calls are accepted while the lake is not attached yet, no      *)
(* session that outlives ATTACH is one whose statements would go to the    *)
(* in-memory default database instead (get_or_create).                     *)
SessionsUseLake == attached => "memory" \notin sessions

(* Once shutdown has told the health servicer, no late report of a poller  *)
(* that outlived its join turns a status back, and no shutdown ends        *)
(* without having told it.                                                 *)
ShutdownStaysReported ==
    graceful \/ (main = "exited" /\ config.health) =>
        \A n \in Names : status[n] = "NOT_SERVING"

(* Calls run, or can begin, without a database in two windows only: in the *)
(* constructor, between the line that opens the port and the next one      *)
(* (such a call fails: there is no session manager yet either); and in a   *)
(* shutdown whose signal came between signal.signal and serve(), which     *)
(* nothing drains.  Every shutdown out of serve() closes the database with *)
(* no call in flight and none to come, however many signals interrupt it:  *)
(* a session made after close_all would stay open.                         *)
CallsHaveDatabase ==
    (calls > 0 \/ flight = "accepting") /\ ~dbOpen
    => main = "connect" \/ (frames # <<>> /\ frames[1] = "installed")

(* While the server runs and probes return, both statuses settle on what   *)
(* the probes find, in an outage and after one.                            *)
OutageReported ==
    <>[](main = "serving" /\ config.health /\ ~hung /\ ~reachable)
    => <>[](\A n \in Names : status[n] = "NOT_SERVING")

RecoveryReported ==
    <>[](main = "serving" /\ config.health /\ ~hung /\ reachable)
    => <>[](\A n \in Names : status[n] = "SERVING")

(* A signal, in serve() or in the moment before it, leads to the end of    *)
(* the process, even with a probe that hangs and when another signal       *)
(* starts the handler a second time inside the first.  The only way it     *)
(* does not is that the second needs a lock the interrupted first one      *)
(* holds.                                                                  *)
ShutdownCompletes == signals > 0 ~> (main = "exited" \/ SelfLocked)

=============================================================================
