-------------------------- MODULE TokenRenewalProofs --------------------------
(***************************************************************************)
(* No token lapses while the renewal thread runs, and the loop sleeps      *)
(* between cycles that succeed: for any margin, lifetimes, length of the   *)
(* calls and number of failing cycles that satisfy DeploymentAssumption.   *)
(***************************************************************************)
EXTENDS TokenRenewalProps, FiniteSetTheorems, TLAPS

-----------------------------------------------------------------------------
(* Constants and operators. *)

(* The calls of one cycle take as long as one call of each service. *)
LEMMA CycleLength ==
  /\ Cycle \in Nat
  /\ Cycle = IF ManageStorage THEN CallTime + CallTime ELSE CallTime
<1>1. CallTime \in Nat /\ ManageStorage \in BOOLEAN
  BY TimesAssumption
<1>2. Cardinality({"pg"}) = 1
  BY FS_Singleton
<1>3. Cardinality(Services) = 2
  <2>1. IsFiniteSet({"pg"}) /\ "storage" \notin {"pg"}
    BY FS_Singleton
  <2>2. Cardinality({"pg"} \cup {"storage"}) = 2
    BY <1>2, <2>1, FS_AddElement
  <2>3. Services = {"pg"} \cup {"storage"}
    BY DEF Services
  <2>. QED
    BY <2>2, <2>3
<1>4. CASE ManageStorage
  BY <1>1, <1>3, <1>4 DEF Cycle, Managed
<1>5. CASE ~ManageStorage
  BY <1>1, <1>2, <1>5 DEF Cycle, Managed
<1>. QED
  BY <1>1, <1>4, <1>5

(* The ticks that the cycles which may still fail take, after f failures. *)
Need(f) == (MaxFailures - f) * Cycle

(* Need falls by a cycle with each failure and never exceeds the margin. *)
LEMMA NeedFalls ==
  ASSUME NEW f \in Nat, f <= MaxFailures
  PROVE  /\ Need(f) \in Nat
         /\ f < MaxFailures => Need(f) = Need(f + 1) + Cycle
         /\ Need(f) + Cycle < Margin
<1>1. MaxFailures \in Nat /\ Margin \in Nat /\ Cycle \in Nat
  BY TimesAssumption, CycleLength
<1>2. Margin > (MaxFailures + 1) * Cycle
  BY DeploymentAssumption
<1>3. PICK g \in Nat : g = MaxFailures - f
  BY <1>1
<1>4. g * Cycle \in Nat /\ f * Cycle \in Nat
  BY <1>1, <1>3
<1>5. Need(f) \in Nat
  BY <1>3, <1>4 DEF Need
<1>6. Need(f) = Need(f + 1) + Cycle
  BY <1>1, <1>3 DEF Need
<1>7. (MaxFailures + 1) * Cycle = Need(f) + f * Cycle + Cycle
  BY <1>1 DEF Need
<1>. QED
  BY <1>1, <1>2, <1>4, <1>5, <1>6, <1>7

(* NextExpiry is the earliest expiry of a managed token. *)
LEMMA NextExpiryIsLeast ==
  ASSUME expires \in [Services -> Nat]
  PROVE  /\ NextExpiry \in Nat
         /\ \E s \in Managed : NextExpiry = expires[s]
         /\ \A s \in Managed : NextExpiry <= expires[s]
<1>1. Managed \subseteq Services /\ "pg" \in Managed
  BY DEF Managed, Services
<1>2. \E e \in {expires[s] : s \in Managed} : \A s \in Managed : e <= expires[s]
  <2>1. CASE "storage" \in Managed /\ expires["storage"] < expires["pg"]
    BY <1>1, <2>1 DEF Services
  <2>2. CASE ~("storage" \in Managed /\ expires["storage"] < expires["pg"])
    BY <1>1, <2>2 DEF Services
  <2>. QED
    BY <2>1, <2>2
<1>3. /\ NextExpiry \in {expires[s] : s \in Managed}
      /\ \A s \in Managed : NextExpiry <= expires[s]
  BY <1>2 DEF NextExpiry
<1>. QED
  BY <1>1, <1>3

-----------------------------------------------------------------------------
(* Every variable of the renewal thread keeps its type. *)
THEOREM TypeCorrect == Spec => []TypeOK
<1> USE TimesAssumption DEF TypeOK
<1>1. Init => TypeOK
  <2> SUFFICES ASSUME Init PROVE TypeOK
    OBVIOUS
  <2>1. PICK life \in [Services -> Lifetimes], late \in 0..Startup :
          expires = [s \in Services |-> IF life[s] > late THEN life[s] - late ELSE 0]
    BY DEF Init
  <2>2. \A s \in Services : life[s] \in Nat
    OBVIOUS
  <2>3. expires \in [Services -> Nat]
    BY <2>1, <2>2
  <2>. QED
    BY <2>3 DEF Init, InitialSecrets, Services
<1>2. TypeOK /\ [Next]_vars => TypeOK'
  <2> SUFFICES ASSUME TypeOK, [Next]_vars PROVE TypeOK'
    OBVIOUS
  <2> USE DEF times, cycle
  <2>1. CASE Tick
    BY <2>1 DEF Tick, Waiting, Less
  <2>2. CASE Stop
    BY <2>2 DEF Stop
  <2>3. CASE ComputeSleep
    <3>1. SleepSeconds \in Nat
      BY NextExpiryIsLeast DEF SleepSeconds
    <3>. QED
      BY <2>3, <3>1 DEF ComputeSleep
  <2>4. CASE Wake
    BY <2>4 DEF Wake, CallService, Services
  <2>5. CASE WakeStopped
    BY <2>5 DEF WakeStopped
  <2>6. CASE TokenReturned
    BY <2>6 DEF TokenReturned
  <2>7. ASSUME AfterRefresh
        PROVE  /\ pc' \in {"get_token", "recheck"}
               /\ svc' \in Services /\ timer' \in Nat
    BY <2>7 DEF AfterRefresh, CallService, Services
  <2>8. CASE InstallSecret
    BY <2>7, <2>8 DEF InstallSecret
  <2>9. CASE RefreshFails
    BY <2>7, <2>9 DEF RefreshFails
  <2>10. CASE Recheck
    BY <2>10 DEF Recheck
  <2>11. CASE UNCHANGED vars
    BY <2>11 DEF vars
  <2>. QED
    BY <2>1, <2>2, <2>3, <2>4, <2>5, <2>6, <2>8, <2>9, <2>10, <2>11 DEF Next, Thread
<1>. QED
  BY <1>1, <1>2, PTL DEF Spec

-----------------------------------------------------------------------------
(* The calls of this cycle that follow the one under way. *)
Left == IF svc = "pg" /\ "storage" \in Managed THEN CallTime ELSE 0

(* How long the secrets are good for, at each place of the loop: for the   *)
(* rest of this cycle and for every cycle that may still fail.             *)
Ages ==
    /\ secret = expires
    /\ pc = "done" => stop
    /\ svc \in Managed
    /\ failures <= MaxFailures
    /\ pc \in {"get_token", "install", "recheck"} /\ failed => failures < MaxFailures
    /\ pc = "check" => \A s \in Managed : secret[s] > Need(failures) + Cycle
    /\ pc = "check" /\ failures = 0 => \A s \in Managed : secret[s] > Margin
    /\ pc = "sleep" => \A s \in Managed : secret[s] > Need(failures) + Cycle + timer
    /\ pc = "get_token" => \A s \in Managed : secret[s] > Need(failures) + Left + timer
    /\ pc = "install" => /\ token > Margin + Cycle
                         /\ \A s \in Managed : secret[s] > Need(failures) + Left
    /\ pc = "recheck" => \A s \in Managed : secret[s] > Need(failures)
    /\ pc = "get_token" /\ svc = "storage" /\ ~failed => secret["pg"] > Margin + timer
    /\ pc = "install" /\ svc = "storage" /\ ~failed => secret["pg"] > Margin
    /\ pc = "recheck" /\ ~failed => \A s \in Managed : secret[s] > Margin

(* Ages is inductive given the types. *)
LEMMA AgesStep ==
  ASSUME TypeOK, TypeOK', Ages, [Next]_vars
  PROVE  Ages'
<1>1. /\ Margin \in Nat /\ CallTime \in Nat /\ MaxFailures \in Nat /\ Cycle \in Nat
      /\ Managed \subseteq Services /\ "pg" \in Managed
      /\ "storage" \in Managed => Cycle = CallTime + CallTime
      /\ "storage" \notin Managed => Cycle = CallTime /\ Managed = {"pg"}
  BY TimesAssumption, CycleLength DEF Managed, Services
<1>2. /\ Need(failures) \in Nat /\ Need(failures) + Cycle < Margin
      /\ failures < MaxFailures => Need(failures) = Need(failures + 1) + Cycle
      /\ Need(0) \in Nat /\ Need(0) + Cycle < Margin
  BY <1>1, NeedFalls DEF TypeOK, Ages
<1>3. failures < MaxFailures => Need(failures + 1) \in Nat
  BY <1>1, NeedFalls DEF TypeOK
<1> USE DEF Ages, times, cycle
<1>4. CASE Tick
  <2>1. /\ timer \in Nat /\ timer > 0 /\ timer' = timer - 1 /\ pc \in {"sleep", "get_token"}
        /\ secret' = expires'
        /\ \A s \in Managed : secret[s] \in Nat /\ secret'[s] = IF secret[s] > 0 THEN secret[s] - 1 ELSE 0
        /\ UNCHANGED <<failed, failures, stop, pc, svc>>
    BY <1>1, <1>4 DEF Tick, Waiting, Less, TypeOK
  <2>. QED
    BY <1>1, <1>2, <2>1 DEF Left
<1>5. CASE Stop
  BY <1>5 DEF Stop, Left
<1>6. CASE ComputeSleep
  <2>1. CASE Stopped
    BY <1>6, <2>1 DEF ComputeSleep, Stopped
  <2>2. CASE ~Stopped
    <3>1. \A s \in Managed : secret[s] > Need(failures) + Cycle + SleepSeconds
      <4>1. /\ NextExpiry \in Nat
            /\ \A s \in Managed : NextExpiry <= secret[s] /\ secret[s] \in Nat
        BY <1>1, NextExpiryIsLeast DEF TypeOK
      <4>. QED
        BY <1>1, <1>2, <1>6, <4>1 DEF SleepSeconds, ComputeSleep
    <3>. QED
      BY <1>6, <2>2, <3>1 DEF ComputeSleep, Left
  <2>. QED
    BY <2>1, <2>2
<1>7. CASE Wake
  <2>1. /\ pc = "sleep" /\ timer = 0 /\ failed' = FALSE
        /\ pc' = "get_token" /\ svc' = "pg" /\ timer' = CallTime
        /\ UNCHANGED <<secret, expires, failures, stop>>
    BY <1>7 DEF Wake, CallService
  <2>2. \A s \in Managed : secret[s] > Need(failures) + Left' + CallTime
    BY <1>1, <1>2, <2>1 DEF Left, TypeOK
  <2>. QED
    BY <1>1, <2>1, <2>2
<1>8. CASE WakeStopped
  BY <1>8 DEF WakeStopped, Stopped
<1>9. CASE TokenReturned
  <2>1. PICK life \in Lifetimes : token' = life
    BY <1>9 DEF TokenReturned
  <2>2. token' > Margin + Cycle
    BY <2>1, DeploymentAssumption
  <2>3. \A s \in Managed : secret[s] \in Nat /\ timer \in Nat
    BY <1>1 DEF TypeOK
  <2>. QED
    BY <1>1, <1>2, <1>9, <2>2, <2>3 DEF TokenReturned, Left
<1>10. ASSUME pc \in {"get_token", "install"}, AfterRefresh,
              secret' = expires', UNCHANGED <<failures, stop>>,
              failed' => failures < MaxFailures,
              \A s \in Managed : secret'[s] > Need(failures) + Left,
              ~failed' => secret'[svc] > Margin + Cycle,
              ~failed' => \A s \in Managed : svc = "storage" => secret'[s] > Margin
       PROVE  Ages'
  <2>0. \A s \in Managed : secret'[s] \in Nat
    BY <1>1 DEF TypeOK
  <2>1. CASE svc = "pg" /\ "storage" \in Managed
    <3>1. /\ pc' = "get_token" /\ svc' = "storage" /\ timer' = CallTime
          /\ Left = CallTime /\ Left' = 0
      BY <1>10, <2>1 DEF AfterRefresh, CallService, Left
    <3>2. ~failed' => secret'["pg"] > Margin + CallTime
      BY <1>1, <1>10, <2>0, <2>1
    <3>. QED
      BY <1>1, <1>2, <1>10, <2>0, <2>1, <3>1, <3>2
  <2>2. CASE ~(svc = "pg" /\ "storage" \in Managed)
    <3>1. pc' = "recheck" /\ svc' = svc /\ Left = 0
      BY <1>10, <2>2 DEF AfterRefresh, Left
    <3>2. ~failed' => \A s \in Managed : secret'[s] > Margin
      BY <1>1, <1>10, <2>0, <2>2 DEF Services
    <3>. QED
      BY <1>1, <1>2, <1>10, <2>0, <3>1, <3>2
  <2>. QED
    BY <2>1, <2>2
<1>11. CASE InstallSecret
  <2>1. /\ pc = "install" /\ AfterRefresh /\ secret' = expires' /\ UNCHANGED <<failed, failures, stop>>
        /\ secret'[svc] = token /\ \A s \in Managed : s # svc => secret'[s] = secret[s]
    BY <1>1, <1>11 DEF InstallSecret, TypeOK
  <2>2. token \in Nat /\ token > Need(failures) + Left /\ token > Margin
    BY <1>1, <1>2, <2>1 DEF Left, TypeOK
  <2>3. \A s \in Managed : svc = "storage" /\ ~failed => secret'[s] > Margin
    BY <1>1, <2>1, <2>2 DEF Services
  <2>. QED
    BY <1>10, <2>1, <2>2, <2>3
<1>12. CASE RefreshFails
  <2>1. /\ pc \in {"get_token", "install"} /\ AfterRefresh /\ secret' = expires'
        /\ failed' /\ failures < MaxFailures /\ UNCHANGED <<secret, failures, stop>>
    BY <1>12 DEF RefreshFails
  <2>2. \A s \in Managed : secret[s] > Need(failures) + Left
    <3>1. timer \in Nat /\ Left \in Nat /\ \A s \in Managed : secret[s] \in Nat
      BY <1>1 DEF TypeOK, Left
    <3>. QED
      BY <1>2, <2>1, <3>1
  <2>. QED
    BY <1>10, <2>1, <2>2
<1>13. CASE Recheck
  <2>1. /\ pc = "recheck" /\ pc' \in {"check", "done"} /\ (pc' = "done" => stop)
        /\ failures' = IF failed THEN failures + 1 ELSE 0
        /\ UNCHANGED <<secret, expires, failed, stop, timer, svc>>
    BY <1>13 DEF Recheck, Stopped
  <2>2. \A s \in Managed : secret[s] \in Nat
    BY <1>1 DEF TypeOK
  <2>3. failures \in Nat
    BY DEF TypeOK
  <2>4. CASE failed
    BY <1>1, <1>2, <1>3, <2>1, <2>2, <2>3, <2>4
  <2>5. CASE ~failed
    BY <1>1, <1>2, <2>1, <2>2, <2>5
  <2>. QED
    BY <2>4, <2>5 DEF TypeOK
<1>14. CASE UNCHANGED vars
  BY <1>14 DEF vars, Left
<1>. QED
  BY <1>4, <1>5, <1>6, <1>7, <1>8, <1>9, <1>11, <1>12, <1>13, <1>14 DEF Next, Thread

(* The initial tokens are fresh enough. *)
LEMMA AgesInit == Init => Ages
<1> SUFFICES ASSUME Init PROVE Ages
  OBVIOUS
<1>1. /\ Margin \in Nat /\ MaxFailures \in Nat /\ Startup \in Nat /\ Lifetimes \subseteq Nat
      /\ Managed \subseteq Services /\ "pg" \in Managed
  BY TimesAssumption DEF Managed, Services
<1>2. Need(0) \in Nat /\ Need(0) + Cycle < Margin /\ Cycle \in Nat
  BY <1>1, NeedFalls, CycleLength
<1>3. PICK life \in [Services -> Lifetimes], late \in 0..Startup :
        expires = [s \in Services |-> IF life[s] > late THEN life[s] - late ELSE 0]
  BY DEF Init
<1>4. ASSUME NEW s \in Services
      PROVE  expires[s] > Margin /\ expires[s] \in Nat
  <2>1. life[s] \in Nat /\ life[s] > Margin + Startup /\ late \in Nat /\ late <= Startup
    <3>1. PICK l \in Lifetimes : l = life[s]
      OBVIOUS
    <3>. QED
      BY <1>1, <3>1, DeploymentAssumption
  <2>. QED
    BY <1>1, <1>3, <2>1
<1>5. \A s \in Managed : expires[s] > Need(0) + Cycle
  BY <1>1, <1>2, <1>4
<1>. QED
  BY <1>1, <1>4, <1>5 DEF Init, InitialSecrets, Ages

(* Ages at every moment. *)
LEMMA AgesKept == Spec => [](TypeOK /\ Ages)
<1>1. TypeOK /\ TypeOK' /\ Ages /\ [Next]_vars => Ages'
  BY AgesStep
<1>. QED
  BY <1>1, AgesInit, TypeCorrect, PTL DEF Spec

(* No token in a DuckDB secret expires before the thread is stopped,       *)
(* however slow the calls and whichever MaxFailures cycles in a row fail.  *)
THEOREM NothingLapses == Spec => []NoLapse
<1>1. TypeOK /\ Ages => NoLapse
  <2> SUFFICES ASSUME TypeOK, Ages, ~stop, NEW s \in Managed PROVE secret[s] > 0
    BY DEF NoLapse
  <2>1. Need(failures) \in Nat /\ Cycle \in Nat /\ Left \in Nat /\ timer \in Nat
    BY NeedFalls, CycleLength, TimesAssumption DEF TypeOK, Ages, Left
  <2>2. secret[s] \in Nat
    BY DEF TypeOK, Managed, Services
  <2>. QED
    BY <2>1, <2>2 DEF TypeOK, Ages
<1>. QED
  BY <1>1, AgesKept, PTL

(* After a cycle without a failure the loop sleeps: no token that was just *)
(* renewed is due at once.                                                 *)
THEOREM LoopSleeps == Spec => NoHotLoop
<1>1. TypeOK /\ Ages /\ [Next]_vars
      => [pc = "check" /\ pc' = "sleep" /\ failures = 0 => timer' > 0]_vars
  <2> SUFFICES ASSUME TypeOK, Ages, [Next]_vars,
                      pc = "check", pc' = "sleep", failures = 0
               PROVE  timer' > 0
    OBVIOUS
  <2>1. ComputeSleep /\ ~Stopped
    BY DEF Next, Thread, ComputeSleep, Tick, Waiting, Stop, Wake, WakeStopped, TokenReturned,
           InstallSecret, RefreshFails, Recheck, vars
  <2>2. PICK s \in Managed : NextExpiry = secret[s] /\ NextExpiry \in Nat
    BY NextExpiryIsLeast DEF TypeOK, Ages
  <2>3. NextExpiry > Margin /\ Margin \in Nat
    BY <2>2, TimesAssumption DEF Ages
  <2>. QED
    BY <2>1, <2>2, <2>3 DEF ComputeSleep, SleepSeconds
<1>. QED
  BY <1>1, AgesKept, PTL DEF Spec, NoHotLoop

=============================================================================
