--------------------------- MODULE MCSessionManager ---------------------------
(***************************************************************************)
(* TLC instances of the session layer.                                     *)
(***************************************************************************)
EXTENDS SessionManagerProps, TLC

(* Threads, sessions and handles are interchangeable; ids are kept apart   *)
(* from them.  Used by safety runs only.                                   *)
Symmetry == Permutations(Threads) \cup Permutations(Sessions)
            \cup Permutations(Handles) \cup Permutations(SessionIds)

=============================================================================
