----------------------------- MODULE MCFlightCalls -----------------------------
(***************************************************************************)
(* A TLC instance of whole Flight calls.                                   *)
(***************************************************************************)
EXTENDS FlightCallsProps

=============================================================================
