------------------------------- MODULE MCIngest -------------------------------
(***************************************************************************)
(* TLC instance of concurrent ingests.                                     *)
(***************************************************************************)
EXTENDS IngestProps, TLC

Symmetry == Permutations(Clients) \cup Permutations(Threads)

=============================================================================
