-------------------------- MODULE PreparedStatements --------------------------
(***************************************************************************)
(* lakehouse.server: prepared statements and transactions of the Flight    *)
(* SQL handlers.                                                           *)
(*                                                                         *)
(* A statement lives in two tables: the session's cursors, kept under the  *)
(* session's lock (SessionStore), and DuckDBFlightSqlServer._prepared_meta,*)
(* keyed by (session, handle) and under no lock.  Its SQL may run in four  *)
(* places: eagerly in GetFlightInfo, in DoPut with or without parameters,  *)
(* and in DoGet.  Only the first runs on the session's connection; the     *)
(* others run on the statement's child cursor, a connection of its own     *)
(* that commits by itself.                                                 *)
(*                                                                         *)
(* The calls of SessionManager are single steps here: SessionManager       *)
(* implements SessionStore, whose operations are atomic.                   *)
(***************************************************************************)
EXTENDS Naturals, Sequences, FiniteSets

CONSTANTS
    Clients,      \* sessions: one per gRPC peer, never closed while serving
    Threads,      \* RPCs in flight
    Handles,      \* uuid4 handles
    Kinds,        \* what the prepared SQL may be, a subset of AllKinds
    None,
    MaxRuns       \* bound: executions of writing SQL in one behaviour

(* select       a query without placeholders: the LIMIT 0 probe succeeds   *)
(* select_new   a query without placeholders over a table that the child   *)
(*              cursor does not see when it is probed: its own transaction *)
(*              made the table, or another client soon will                *)
(* select_param a query with ? placeholders: the probe fails               *)
(* dml          DDL/DML without a question mark                            *)
(* dml_param    DML with ? placeholders                                    *)
(* dml_text     DDL/DML whose only question mark is inside a literal       *)
AllKinds == {"select", "select_new", "select_param", "dml", "dml_param", "dml_text"}

ASSUME KindsAssumption == Kinds \subseteq AllKinds
ASSUME MaxRunsAssumption == MaxRuns \in Nat
ASSUME NoneAssumption == None \notin Clients \cup Handles \cup AllKinds

HasSchema(k)   == k = "select"
HasMark(k)     == k \in {"select_param", "dml_param", "dml_text"}
TakesParams(k) == k \in {"select_param", "dml_param"}
Writes(k)      == k \in {"dml", "dml_param", "dml_text"}

VARIABLES
    table,    \* client -> handles in its session's prepared_statements
    meta,     \* <<client, handle>> -> kind held in _prepared_meta, or None
    creator,  \* handle -> client it was created for, or None
    slot,     \* handle -> result waiting on the child cursor
    txn,      \* client -> "none" | "active" | "aborted" (session connection)
    serial,   \* transactions begun so far
    txnId,    \* client -> serial of its open transaction, 0 if none
    log,      \* executions of writing SQL, oldest first
    skipped,  \* GetFlightInfo answers with an empty schema that ran nothing,
              \* or ran a query
    pc,       \* thread -> where its handler is
    rpc       \* thread -> its local variables

tables   == <<table, meta, creator>>
txnVars  == <<txn, serial, txnId>>
handlers == <<pc, rpc>>
vars == <<tables, slot, txnVars, log, skipped, handlers>>

(* live: was the statement open when the request arrived?                  *)
Locals == [client : Clients, handle : Handles, kind : Kinds \cup {None}, live : BOOLEAN]

Vias == {"statement", "info", "get", "bind", "update"}

Execution == [client : Clients, handle : Handles \cup {None}, via : Vias,
              live : BOOLEAN, txn : Nat, state : {"pending", "committed", "undone"}]

Init ==
    /\ table = [c \in Clients |-> {}]
    /\ meta = [ch \in Clients \X Handles |-> None]
    /\ creator = [h \in Handles |-> None]
    /\ slot = [h \in Handles |-> "none"]
    /\ txn = [c \in Clients |-> "none"]
    /\ serial = 0
    /\ txnId = [c \in Clients |-> 0]
    /\ log = <<>>
    /\ skipped = {}
    /\ pc = [t \in Threads |-> "idle"]
    /\ rpc = [t \in Threads |-> None]

-----------------------------------------------------------------------------
(* Open until the request that closes it has been answered. *)
Closing(c, h) == \E t \in Threads :
    pc[t] = "pop_meta" /\ rpc[t].client = c /\ rpc[t].handle = h

Open(c, h) == h \in table[c] \/ Closing(c, h)

(* Faulty variant: the metadata is keyed by the handle alone.              *)
MetaOfAnySession(c, h) == meta[<<creator[h], h>>]

(* _prepared_meta.get((session_id, handle)) *)
MetaOf(c, h) == meta[<<c, h>>]

Enter(t, label, c, h) ==
    /\ pc[t] = "idle"
    /\ pc' = [pc EXCEPT ![t] = label]
    /\ rpc' = [rpc EXCEPT ![t] = [client |-> c, handle |-> h,
                                  kind |-> MetaOf(c, h), live |-> Open(c, h)]]

Reply(t) ==
    /\ pc' = [pc EXCEPT ![t] = "idle"]
    /\ rpc' = [rpc EXCEPT ![t] = None]

(* Faulty variant: GetFlightInfo executes on the child cursor too.         *)
OnSessionStatementsOnly(via) == via = "statement"

(* Which handlers execute on session.connection; the others execute on the *)
(* statement's child cursor.                                               *)
OnSession(via) == via \in {"statement", "info"}

(* DuckDB runs the statement of r: on the session's connection it belongs  *)
(* to the open transaction, on a child cursor it commits by itself.        *)
Run(r, via) ==
    /\ Len(log) < MaxRuns
    /\ log' = Append(log,
         [client |-> r.client, handle |-> r.handle, via |-> via, live |-> r.live,
          txn |-> txnId[r.client],
          state |-> IF OnSession(via) /\ txn[r.client] # "none"
                    THEN "pending" ELSE "committed"])

(* Faulty variant: a failed statement closes the session's connection.     *)
AfterErrorClosed(c) == {"closed"}

(* The session's transaction after a statement of c failed on its          *)
(* connection: some errors make DuckDB refuse the rest of it.              *)
AfterError(c) == IF txn[c] = "active" THEN {"active", "aborted"} ELSE {txn[c]}

RunIfWrites(r, via) == IF Writes(r.kind) THEN Run(r, via) ELSE UNCHANGED log

-----------------------------------------------------------------------------
(* ActionCreatePreparedStatement *)

(* get_or_create and add_prepared_statement: the handle is in the table... *)
CreateAddCursor(t, c, h, k) ==
    /\ pc[t] = "idle"
    /\ creator[h] = None
    /\ creator' = [creator EXCEPT ![h] = c]
    /\ table' = [table EXCEPT ![c] = @ \cup {h}]
    /\ pc' = [pc EXCEPT ![t] = "store_meta"]
    /\ rpc' = [rpc EXCEPT ![t] = [client |-> c, handle |-> h, kind |-> k, live |-> TRUE]]
    /\ UNCHANGED <<meta, slot, txnVars, log, skipped>>

(* ...the probes ran on the cursor and were read to the end: store meta.   *)
CreateStoreMeta(t) ==
    /\ pc[t] = "store_meta"
    /\ meta' = [meta EXCEPT ![<<rpc[t].client, rpc[t].handle>>] = rpc[t].kind]
    /\ Reply(t)
    /\ UNCHANGED <<table, creator, slot, txnVars, log, skipped>>

(* ActionClosePreparedStatement: out of the session's table first (and,    *)
(* before the next step, the child cursor is closed), then out of meta.    *)
ClosePopCursor(t, c, h) ==
    /\ Enter(t, "pop_meta", c, h)
    /\ table' = [table EXCEPT ![c] = @ \ {h}]
    /\ slot' = [slot EXCEPT ![h] = IF h \in table[c] THEN "none" ELSE @]
    /\ UNCHANGED <<meta, creator, txnVars, log, skipped>>

(* Faulty variant: the metadata of a closed statement is kept.             *)
CloseKeepsMeta(t) ==
    /\ pc[t] = "pop_meta"
    /\ Reply(t)
    /\ UNCHANGED <<tables, slot, txnVars, log, skipped>>

ClosePopMeta(t) ==
    /\ pc[t] = "pop_meta"
    /\ meta' = [meta EXCEPT ![<<rpc[t].client, rpc[t].handle>>] = None]
    /\ Reply(t)
    /\ UNCHANGED <<table, creator, slot, txnVars, log, skipped>>

-----------------------------------------------------------------------------
(* GetFlightInfo(CommandPreparedStatementQuery) *)

(* Faulty variant: GetFlightInfo only describes.                           *)
EagerlyRunNever(k) == FALSE

EagerlyRun(k) == k # None /\ ~HasSchema(k) /\ ~HasMark(k)

GetFlightInfo(t, c, h) ==
    /\ EagerlyRun(MetaOf(c, h))
    /\ Enter(t, "eager", c, h)
    /\ UNCHANGED <<tables, slot, txnVars, log, skipped>>

(* Anything else is answered at once with the stored, or an empty, schema. *)
(* skipped records the answers with an empty schema, after which a client  *)
(* sends neither parameters nor a DoGet.                                   *)
GetFlightInfoOnly(t, c, h) ==
    /\ pc[t] = "idle"
    /\ ~EagerlyRun(MetaOf(c, h))
    /\ skipped' = IF MetaOf(c, h) = None \/ (Writes(MetaOf(c, h)) /\ ~TakesParams(MetaOf(c, h)))
                  THEN skipped \cup {[client |-> c, handle |-> h, live |-> h \in table[c]]}
                  ELSE skipped
    /\ UNCHANGED <<tables, slot, txnVars, log, handlers>>

(* What a query finds is dropped. *)
EagerExecute(t) ==
    /\ pc[t] = "eager"
    /\ txn[rpc[t].client] # "aborted"
    /\ RunIfWrites(rpc[t], "info")
    /\ skipped' = IF Writes(rpc[t].kind) THEN skipped
                  ELSE skipped \cup {[client |-> rpc[t].client, handle |-> rpc[t].handle,
                                      live |-> rpc[t].live]}
    /\ Reply(t)
    /\ UNCHANGED <<tables, slot, txnVars>>

(* The statement fails and the error goes to the client. *)
EagerRaises(t) ==
    /\ pc[t] = "eager"
    /\ \E after \in AfterError(rpc[t].client) : txn' = [txn EXCEPT ![rpc[t].client] = after]
    /\ Reply(t)
    /\ UNCHANGED <<tables, slot, serial, txnId, log, skipped>>

-----------------------------------------------------------------------------
(* The handlers below find the child cursor, KeyError (no step) when the   *)
(* handle is not in the caller's session, then the metadata.  A close may  *)
(* come in between or later: what the handler then finds is a closed       *)
(* cursor or no metadata, and nothing runs.                                *)

CursorUsable(t) == Open(rpc[t].client, rpc[t].handle)

DoGet(t, c, h) ==
    /\ h \in table[c]
    /\ Enter(t, "get", c, h)
    /\ UNCHANGED <<tables, slot, txnVars, log, skipped>>

(* A result is waiting on the cursor: send it, run nothing. *)
DoGetPending(t) ==
    /\ pc[t] = "get"
    /\ slot[rpc[t].handle] = "rows"
    /\ slot' = [slot EXCEPT ![rpc[t].handle] = "none"]
    /\ Reply(t)
    /\ UNCHANGED <<tables, txnVars, log, skipped>>

(* Nothing to fetch: run the stored SQL without parameters. *)
DoGetExecute(t) ==
    /\ pc[t] = "get"
    /\ CursorUsable(t)
    /\ slot[rpc[t].handle] = "none"
    /\ rpc[t].kind # None
    /\ ~TakesParams(rpc[t].kind)
    /\ RunIfWrites(rpc[t], "get")
    /\ Reply(t)
    /\ UNCHANGED <<tables, slot, txnVars, skipped>>

(* No metadata, an empty table is sent; or the execution raises.  Either   *)
(* way the cursor is left without a result.                                *)
DoGetNothing(t) ==
    /\ pc[t] = "get"
    /\ slot[rpc[t].handle] = "none"
    /\ Reply(t)
    /\ UNCHANGED <<tables, slot, txnVars, log, skipped>>

(* DoPut(CommandPreparedStatementQuery) binds one row by executing: the    *)
(* result waits on the cursor for a DoGet.                                 *)
DoPutQuery(t, c, h) ==
    /\ h \in table[c]
    /\ meta[<<c, h>>] # None
    /\ Enter(t, "bind", c, h)
    /\ UNCHANGED <<tables, slot, txnVars, log, skipped>>

BindExecute(t) ==
    /\ pc[t] = "bind"
    /\ CursorUsable(t)
    /\ TakesParams(rpc[t].kind)
    /\ RunIfWrites(rpc[t], "bind")
    /\ slot' = [slot EXCEPT ![rpc[t].handle] =
                   IF rpc[t].handle \in table[rpc[t].client] THEN "rows" ELSE @]
    /\ Reply(t)
    /\ UNCHANGED <<tables, txnVars, skipped>>

(* The execution raises and clears the cursor's result... *)
BindRaises(t) ==
    /\ pc[t] = "bind"
    /\ slot' = [slot EXCEPT ![rpc[t].handle] = "none"]
    /\ Reply(t)
    /\ UNCHANGED <<tables, txnVars, log, skipped>>

(* ...and an empty parameter batch leaves the cursor as it was. *)
BindEmpty(t) ==
    /\ pc[t] = "bind"
    /\ Reply(t)
    /\ UNCHANGED <<tables, slot, txnVars, log, skipped>>

(* DoPut(CommandPreparedStatementUpdate): execute on the child cursor with *)
(* the parameters sent, or without any, and answer the first value of the  *)
(* result, which fetchone may leave on the cursor.                         *)
DoPutUpdate(t, c, h) ==
    /\ h \in table[c]
    /\ Enter(t, "update", c, h)
    /\ UNCHANGED <<tables, slot, txnVars, log, skipped>>

UpdateExecute(t) ==
    /\ pc[t] = "update"
    /\ CursorUsable(t)
    /\ rpc[t].kind # None
    /\ RunIfWrites(rpc[t], "update")
    /\ \E left \in {"none", "rows"} : slot' = [slot EXCEPT ![rpc[t].handle] = left]
    /\ Reply(t)
    /\ UNCHANGED <<tables, txnVars, skipped>>

UpdateRaises(t) ==
    /\ pc[t] = "update"
    /\ slot' = [slot EXCEPT ![rpc[t].handle] = "none"]
    /\ Reply(t)
    /\ UNCHANGED <<tables, txnVars, log, skipped>>

-----------------------------------------------------------------------------
(* DoPut(CommandStatementUpdate) and DoGet(TicketStatementQuery) with SQL  *)
(* that writes: execute on the session's connection.                       *)
StatementUpdate(c) ==
    /\ txn[c] # "aborted"
    /\ Run([client |-> c, handle |-> None, live |-> TRUE], "statement")
    /\ UNCHANGED <<tables, slot, txnVars, skipped, handlers>>

StatementRaises(c) ==
    /\ \E after \in AfterError(c) : txn' = [txn EXCEPT ![c] = after]
    /\ UNCHANGED <<tables, slot, serial, txnId, log, skipped, handlers>>

(* ActionBeginTransaction and ActionEndTransaction on the session. *)

BeginTransaction(c) ==
    /\ txn[c] = "none"
    /\ serial < MaxRuns
    /\ serial' = serial + 1
    /\ txnId' = [txnId EXCEPT ![c] = serial + 1]
    /\ txn' = [txn EXCEPT ![c] = "active"]
    /\ UNCHANGED <<tables, slot, log, skipped, handlers>>

Settle(c, outcome) ==
    log' = [n \in DOMAIN log |->
              IF log[n].state = "pending" /\ log[n].client = c
              THEN [log[n] EXCEPT !.state = outcome] ELSE log[n]]

(* COMMIT of an aborted transaction fails and rolls back. *)
EndTransaction(c, commit) ==
    /\ txn[c] # "none"
    /\ Settle(c, IF commit /\ txn[c] = "active" THEN "committed" ELSE "undone")
    /\ txn' = [txn EXCEPT ![c] = "none"]
    /\ txnId' = [txnId EXCEPT ![c] = 0]
    /\ UNCHANGED <<tables, slot, serial, skipped, handlers>>

-----------------------------------------------------------------------------
(* A client names a handle that an answered creation gave to some client.  *)
Returned(h) ==
    /\ creator[h] # None
    /\ \A t \in Threads : ~(pc[t] = "store_meta" /\ rpc[t].handle = h)

Request(t) ==
    \E c \in Clients, h \in Handles :
        \/ \E k \in Kinds : CreateAddCursor(t, c, h, k)
        \/ /\ Returned(h)
           /\ \/ ClosePopCursor(t, c, h)
              \/ GetFlightInfo(t, c, h)
              \/ GetFlightInfoOnly(t, c, h)
              \/ DoGet(t, c, h)
              \/ DoPutQuery(t, c, h)
              \/ DoPutUpdate(t, c, h)

Handle(t) ==
    \/ CreateStoreMeta(t)
    \/ ClosePopMeta(t)
    \/ EagerExecute(t)
    \/ EagerRaises(t)
    \/ DoGetPending(t)
    \/ DoGetExecute(t)
    \/ DoGetNothing(t)
    \/ BindExecute(t)
    \/ BindRaises(t)
    \/ BindEmpty(t)
    \/ UpdateExecute(t)
    \/ UpdateRaises(t)

Next ==
    \/ \E c \in Clients :
          \/ BeginTransaction(c)
          \/ \E commit \in BOOLEAN : EndTransaction(c, commit)
          \/ StatementUpdate(c)
          \/ StatementRaises(c)
    \/ \E t \in Threads : Request(t) \/ Handle(t)

Spec == Init /\ [][Next]_vars

=============================================================================
