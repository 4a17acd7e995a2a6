-------------------------- MODULE MCHealthLifecycle --------------------------
(***************************************************************************)
(* TLC instance of startup, health polling and shutdown.                   *)
(***************************************************************************)
EXTENDS HealthLifecycleProps

=============================================================================
