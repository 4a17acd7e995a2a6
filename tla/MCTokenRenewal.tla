---------------------------- MODULE MCTokenRenewal ----------------------------
(***************************************************************************)
(* TLC instances of the token renewal thread.                              *)
(***************************************************************************)
EXTENDS TokenRenewalProps

=============================================================================
