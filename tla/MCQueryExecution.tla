--------------------------- MODULE MCQueryExecution ---------------------------
(***************************************************************************)
(* TLC instances of the query handlers.                                    *)
(***************************************************************************)
EXTENDS QueryExecutionProps, TLC

Symmetry == Permutations(Threads)

=============================================================================
