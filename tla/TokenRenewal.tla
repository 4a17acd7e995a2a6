----------------------------- MODULE TokenRenewal -----------------------------
(***************************************************************************)
(* lakehouse.azure_token: the thread that renews the Entra tokens held in  *)
(* DuckDB's secrets, for PostgreSQL and, when Azure storage is configured, *)
(* for the storage account.                                                *)
(*                                                                         *)
(* Unix times are held relative to now: an expiry is the number of ticks   *)
(* it is still away (0 once it has passed), and Tick brings all of them    *)
(* nearer.  The thread's own steps take no time; only its two waits do,    *)
(* Event.wait and the identity service's get_token, which answers or       *)
(* raises within CallTime ticks.                                           *)
(***************************************************************************)
EXTENDS Integers, FiniteSets

CONSTANTS
    ManageStorage,  \* is get_initial_storage_token called at startup?
    Margin,         \* pg_token_refresh_minutes, in ticks
    Lifetimes,      \* what get_token's expires_on may be, relative to now
    Startup,        \* bound: ticks from the initial tokens to start()
    CallTime,       \* bound: ticks a get_token call takes
    MaxFailures,    \* bound: consecutive cycles with a failed refresh
    RetryDelay      \* the "30 s" of the log messages, in ticks

ASSUME TimesAssumption ==
    /\ ManageStorage \in BOOLEAN
    /\ {Margin, Startup, CallTime, MaxFailures, RetryDelay} \subseteq Nat
    /\ Lifetimes \subseteq Nat
    /\ Lifetimes # {}

Services == {"pg", "storage"}
Managed == IF ManageStorage THEN Services ELSE {"pg"}

VARIABLES
    secret,    \* service -> ticks the token in DuckDB's secret is still valid
    expires,   \* service -> _pg_expires_on, _storage_expires_on
    stop,      \* _stop_event
    pc,        \* where _renewal_loop is
    timer,     \* ticks left of the wait the thread is in
    svc,       \* the service being refreshed
    token,     \* expires_on of the token just fetched
    failed,    \* did a refresh of this cycle fail?
    failures,  \* cycles in a row that had a failure
    pause      \* history: ticks left until RetryDelay after the last failure

times == <<secret, expires, token>>
cycle == <<failed, failures, pause>>
vars == <<times, cycle, stop, pc, timer, svc>>

(* create_pg_secret and create_azure_secret, with the initial tokens.       *)
InitialSecrets == secret = expires

Init ==
    /\ \E life \in [Services -> Lifetimes], late \in 0..Startup :
          expires = [s \in Services |-> IF life[s] > late THEN life[s] - late ELSE 0]
    /\ InitialSecrets
    /\ token = 0
    /\ failed = FALSE
    /\ failures = 0
    /\ pause = 0
    /\ stop = FALSE
    /\ pc = "check"
    /\ timer = 0
    /\ svc = "pg"

-----------------------------------------------------------------------------
Less(n) == IF n > 0 THEN n - 1 ELSE 0

Waiting == pc \in {"sleep", "get_token"} /\ timer > 0

(* Time passes only while the thread waits. *)
Tick ==
    /\ Waiting
    /\ ~(pc = "sleep" /\ stop)
    /\ timer' = timer - 1
    /\ secret' = [s \in Services |-> Less(secret[s])]
    /\ expires' = [s \in Services |-> Less(expires[s])]
    /\ token' = Less(token)
    /\ pause' = Less(pause)
    /\ UNCHANGED <<failed, failures, stop, pc, svc>>

Stop ==
    /\ ~stop
    /\ stop' = TRUE
    /\ UNCHANGED <<times, cycle, pc, timer, svc>>

-----------------------------------------------------------------------------
(* Faulty variant: stop() does not reach the loop.                         *)
StoppedUnheard == FALSE

Stopped == stop

(* Faulty variant: the loop sleeps by the PostgreSQL token alone.          *)
NextExpiryOfPg == expires["pg"]

NextExpiry ==
    CHOOSE e \in {expires[s] : s \in Managed} : \A s \in Managed : e <= expires[s]

(* Faulty variant: an overdue refresh gives a negative timeout.            *)
SleepSecondsUnclamped == NextExpiry - Margin

SleepSeconds == IF NextExpiry > Margin THEN NextExpiry - Margin ELSE 0

(* while not self._stop_event.is_set(): compute the sleep *)
ComputeSleep ==
    /\ pc = "check"
    /\ IF Stopped
       THEN pc' = "done" /\ UNCHANGED timer
       ELSE pc' = "sleep" /\ timer' = SleepSeconds
    /\ UNCHANGED <<times, cycle, stop, svc>>

CallService(s) ==
    /\ pc' = "get_token"
    /\ svc' = s
    /\ timer' = CallTime

Wake ==
    /\ pc = "sleep"
    /\ timer = 0
    /\ ~Stopped
    /\ failed' = FALSE
    /\ CallService("pg")
    /\ UNCHANGED <<times, failures, pause, stop>>

WakeStopped ==
    /\ pc = "sleep"
    /\ Stopped
    /\ pc' = "done"
    /\ UNCHANGED <<times, cycle, stop, timer, svc>>

(* The PostgreSQL refresh is followed by the storage refresh, if managed,  *)
(* whether or not it succeeded.                                            *)
AfterRefresh ==
    IF svc = "pg" /\ "storage" \in Managed
    THEN CallService("storage")
    ELSE pc' = "recheck" /\ UNCHANGED <<svc, timer>>

TokenReturned ==
    /\ pc = "get_token"
    /\ \E life \in Lifetimes : token' = life
    /\ pc' = "install"
    /\ UNCHANGED <<secret, expires, cycle, stop, timer, svc>>

(* Faulty variant: the new expiry is not recorded.                         *)
InstallForgetsExpiry ==
    /\ pc = "install"
    /\ secret' = [secret EXCEPT ![svc] = token]
    /\ AfterRefresh
    /\ UNCHANGED <<expires, token, cycle, stop>>

(* CREATE OR REPLACE SECRET, then the new expiry. *)
InstallSecret ==
    /\ pc = "install"
    /\ secret' = [secret EXCEPT ![svc] = token]
    /\ expires' = [expires EXCEPT ![svc] = token]
    /\ AfterRefresh
    /\ UNCHANGED <<token, cycle, stop>>

(* Faulty variant: an exception ends the thread.                           *)
RefreshFailureKills ==
    /\ pc \in {"get_token", "install"}
    /\ failures < MaxFailures
    /\ pc' = "done"
    /\ UNCHANGED <<times, cycle, stop, timer, svc>>

(* get_token or CREATE SECRET raises: logged, nothing has changed. *)
RefreshFails ==
    /\ pc \in {"get_token", "install"}
    /\ failed \/ failures < MaxFailures
    /\ failed' = TRUE
    /\ pause' = RetryDelay
    /\ AfterRefresh
    /\ UNCHANGED <<times, failures, stop>>

(* if self._stop_event.wait(timeout=0): break *)
Recheck ==
    /\ pc = "recheck"
    /\ pc' = IF Stopped THEN "done" ELSE "check"
    /\ failures' = IF failed THEN failures + 1 ELSE 0
    /\ UNCHANGED <<times, failed, pause, stop, timer, svc>>

Thread ==
    \/ ComputeSleep
    \/ Wake
    \/ WakeStopped
    \/ TokenReturned
    \/ InstallSecret
    \/ RefreshFails
    \/ Recheck

Next == Thread \/ Tick \/ Stop

Spec == Init /\ [][Next]_vars

(* The daemon thread is scheduled, and time passes while it waits. *)
FairSpec == Spec /\ WF_vars(Thread) /\ WF_vars(Tick)

=============================================================================
