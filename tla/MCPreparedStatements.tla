------------------------- MODULE MCPreparedStatements -------------------------
(***************************************************************************)
(* TLC instances of the prepared-statement handlers.                       *)
(***************************************************************************)
EXTENDS PreparedStatementsProps, TLC

Symmetry == Permutations(Threads) \cup Permutations(Clients) \cup Permutations(Handles)

=============================================================================
