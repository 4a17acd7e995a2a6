--------------------------- MODULE TokenRenewalProps ---------------------------
(***************************************************************************)
(* What the renewal thread promises, and one promise its log messages make *)
(* that the code does not keep.                                            *)
(***************************************************************************)
EXTENDS TokenRenewal

(* What the deployment provides: tokens live longer than the margin, with  *)
(* a cycle to spare, and the margin covers MaxFailures failed cycles and a *)
(* last one, of two calls each.                                            *)
Cycle == CallTime * Cardinality(Managed)

ASSUME DeploymentAssumption ==
    /\ \A life \in Lifetimes : life > Margin + Cycle /\ life > Margin + Startup
    /\ Margin > (MaxFailures + 1) * Cycle

(* Every variable holds a value of the right shape. *)
TypeOK ==
    /\ secret \in [Services -> Nat]
    /\ expires \in [Services -> Nat]
    /\ token \in Nat
    /\ stop \in BOOLEAN
    /\ pc \in {"check", "sleep", "get_token", "install", "recheck", "done"}
    /\ timer \in Nat
    /\ svc \in Services
    /\ failed \in BOOLEAN
    /\ failures \in Nat
    /\ pause \in Nat

(* Until it is stopped, the thread never lets a token in a DuckDB secret   *)
(* expire, although one thread refreshes two tokens in turn, a slow or     *)
(* failing call delays the other, and any MaxFailures cycles in a row may  *)
(* fail.                                                                   *)
NoLapse == ~stop => \A s \in Managed : secret[s] > 0

(* The loop sleeps between two cycles unless the first one had a failure:  *)
(* it does not keep the identity service and DuckDB busy.                  *)
NoHotLoop == [][pc = "check" /\ pc' = "sleep" /\ failures = 0 => timer' > 0]_vars

(* Every managed token is renewed again and again while the thread runs.   *)
AlwaysRenewed == \A s \in Managed : []<>(stop \/ secret[s] > Margin)

(* stop() is heard from wherever the loop is.                              *)
StopEnds == stop ~> pc = "done"

(* The log messages and the comment: "If either refresh failed, retry in   *)
(* 30 s."                                                                  *)
RetryWaits == [][Wake => pause = 0]_vars

=============================================================================
