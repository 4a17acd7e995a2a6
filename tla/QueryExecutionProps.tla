-------------------------- MODULE QueryExecutionProps --------------------------
(***************************************************************************)
(* Whose results an answer is made of.                                     *)
(***************************************************************************)
EXTENDS QueryExecution

(* Every variable holds a value of the right shape. *)
TypeOK ==
    /\ result \in [Clients -> Results \cup {None}]
    /\ sender \in [Ids -> Clients \cup {None}]
    /\ pc \in [Threads -> {"idle", "execute", "fetch"}]
    /\ rpc \in [Threads -> Locals \cup {None}]
    /\ \A t \in Threads : rpc[t] = None <=> pc[t] = "idle"
    /\ answers \subseteq Answers

(* Nothing of another client's data is in an answer: however the calls of  *)
(* the clients interleave, results do not cross sessions.                  *)
SessionIsolation ==
    \A a \in answers : \A n \in a.from : sender[n] = a.client

(* A client that sends one call at a time is answered from its own         *)
(* statements only, and never with the row count of nothing.               *)
SerialOwnAnswer ==
    \A a \in answers : a.client \in SerialClients => a.from = {a.id}

(* _execute_query returns "the query result": of every caller's own query, *)
(* its concurrent calls included.                                          *)
OwnAnswer == \A a \in answers : a.from = {a.id}

=============================================================================
