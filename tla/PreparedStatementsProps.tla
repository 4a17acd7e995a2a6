----------------------- MODULE PreparedStatementsProps -----------------------
(***************************************************************************)
(* What the prepared-statement and transaction handlers promise, and two   *)
(* promises of their comments that the code does not keep.                 *)
(***************************************************************************)
EXTENDS PreparedStatements

(* Every variable holds a value of the right shape. *)
TypeOK ==
    /\ table \in [Clients -> SUBSET Handles]
    /\ meta \in [Clients \X Handles -> Kinds \cup {None}]
    /\ creator \in [Handles -> Clients \cup {None}]
    /\ slot \in [Handles -> {"none", "rows"}]
    /\ txn \in [Clients -> {"none", "active", "aborted"}]
    /\ serial \in Nat
    /\ txnId \in [Clients -> Nat]
    /\ log \in Seq(Execution)
    /\ skipped \subseteq [client : Clients, handle : Handles, live : BOOLEAN]
    /\ pc \in [Threads -> {"idle", "store_meta", "pop_meta", "eager", "get", "bind", "update"}]
    /\ rpc \in [Threads -> Locals \cup {None}]
    /\ \A t \in Threads : pc[t] # "idle" => rpc[t] \in Locals

(* _prepared_meta, written under no lock after the session's table,        *)
(* never outlives it: a stored SQL text belongs to an open statement.      *)
MetaFollowsTable ==
    \A c \in Clients, h \in Handles : meta[<<c, h>>] # None => Open(c, h)

(* No SQL runs for a request that arrived after the statement's close was  *)
(* answered, whichever of the four paths the request takes.                *)
ClosedNeverRuns == \A n \in DOMAIN log : log[n].live

(* A session only ever runs statements it created itself, although handles *)
(* are presented by the client.                                            *)
StatementsStayInSession ==
    \A n \in DOMAIN log : log[n].handle # None => creator[log[n].handle] = log[n].client

(* The executions of one transaction, over the given paths, share one      *)
(* fate, undecided exactly while the transaction is open.                  *)
Atomically(vias) ==
    \A n \in DOMAIN log :
        (log[n].via \in vias /\ log[n].txn # 0) =>
            /\ log[n].state = "pending" <=> txnId[log[n].client] = log[n].txn
            /\ \A m \in DOMAIN log :
                  (log[m].via \in vias /\ log[m].txn = log[n].txn)
                  => log[m].state = log[n].state

(* Statements, and prepared DDL/DML executed by GetFlightInfo, are atomic  *)
(* with the transaction the session has open ("so that transaction state   *)
(* and table mutations share the same cursor context").                    *)
TxnAtomic == Atomically({"statement", "info"})

(* A statement that is in its session's table and takes no parameters is   *)
(* never answered by GetFlightInfo with an empty schema, after which no    *)
(* DoGet will follow, if it is a query, or if it writes and has not run.   *)
AcknowledgedRuns == \A s \in skipped : ~s.live

(* Transactions are listed as covered, and so are prepared updates: what   *)
(* DoPut(CommandPreparedStatementUpdate) runs shares the fate of the rest  *)
(* of the session's transaction.                                           *)
TxnCoversPrepared == Atomically({"statement", "info", "update"})

=============================================================================
