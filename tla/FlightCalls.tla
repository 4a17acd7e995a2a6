------------------------------ MODULE FlightCalls ------------------------------
(***************************************************************************)
(* One Flight RPC from end to end: the middleware of AuthTokens, then      *)
(* lakehouse.dispatch, which unpacks the command and picks a handler by    *)
(* its type, then what lakehouse.server announces, describes and sends.    *)
(*                                                                         *)
(* A client plans a query with GetFlightInfo, which answers a schema and a *)
(* ticket, and fetches it later, perhaps from elsewhere, with DoGet.       *)
(***************************************************************************)
EXTENDS AuthTokens

(* The metadata commands of the dispatch tables.  CommandGetTables counts  *)
(* twice, without and with include_schema.                                 *)
KeyCommands == {"GetImportedKeys", "GetExportedKeys", "GetCrossReference"}
Catalog == {"GetCatalogs", "GetDbSchemas", "GetTables", "GetTablesWithSchema",
            "GetTableTypes", "GetXdbcTypeInfo", "GetSqlInfo", "GetPrimaryKeys"} \cup KeyCommands

(* Bodies of a descriptor or a ticket; junk does not unpack to a message   *)
(* of FlightSql.proto.                                                     *)
Commands == Catalog \cup {"StatementQuery", "PreparedStatementQuery", "TicketStatementQuery",
                          "StatementUpdate", "PreparedStatementUpdate", "StatementIngest",
                          "StatementSubstraitPlan", "junk"}

(* The dispatch tables. *)
GetFlightInfoDispatch == Catalog \cup {"StatementQuery", "PreparedStatementQuery"}
DoGetDispatch         == Catalog \cup {"TicketStatementQuery", "PreparedStatementQuery"}
DoPutDispatch         == {"StatementUpdate", "PreparedStatementUpdate",
                          "PreparedStatementQuery", "StatementIngest"}
DoActionDispatch      == {"CreatePreparedStatement", "ClosePreparedStatement",
                          "BeginTransaction", "EndTransaction",
                          "BeginSavepoint", "EndSavepoint", "CancelQuery"}

(* Action types a client may send; the last is of a later protocol.        *)
ActionTypes == {"CreatePreparedStatement", "ClosePreparedStatement",
                "BeginTransaction", "EndTransaction",
                "BeginSavepoint", "EndSavepoint", "CancelQuery", "CancelFlightInfo"}

VARIABLES
    offer,  \* the FlightInfo last handed out, or None
    reply   \* the latest RPC and its outcome

callVars == <<vars, offer, reply>>

-----------------------------------------------------------------------------
(* What the server says of itself: list_actions...                         *)
ListedActions == {"CreatePreparedStatement", "ClosePreparedStatement",
                  "BeginTransaction", "EndTransaction",
                  "BeginSavepoint", "EndSavepoint", "CancelQuery"}

(* ...and the SqlInfo entries SQL, TRANSACTION, CANCEL, BULK_INGESTION.    *)
SqlInfo == {<<"get_flight_info", "StatementQuery">>, <<"do_put", "StatementUpdate">>,
            <<"do_action", "BeginTransaction">>, <<"do_action", "EndTransaction">>,
            <<"do_action", "CancelQuery">>, <<"do_put", "StatementIngest">>}

(* Was the client told that it may make this call?                         *)
Advertised(rpc, cmd) ==
    \/ rpc = "do_get" /\ offer # None /\ cmd = offer.ticket
    \/ rpc = "do_action" /\ cmd \in ListedActions
    \/ <<rpc, cmd>> \in SqlInfo

-----------------------------------------------------------------------------
(* The schema each get_flight_info handler announces...                    *)
Announced(cmd) ==
    CASE cmd = "GetCatalogs"         -> "catalogs"
      [] cmd = "GetDbSchemas"        -> "db_schemas"
      [] cmd = "GetTables"           -> "tables"
      [] cmd = "GetTablesWithSchema" -> "tables_with_schema"
      [] cmd = "GetTableTypes"       -> "table_types"
      [] cmd = "GetXdbcTypeInfo"     -> "xdbc_type_info"
      [] cmd = "GetSqlInfo"          -> "sql_info"
      [] cmd = "GetPrimaryKeys"      -> "primary_keys"
      [] cmd \in KeyCommands         -> "fk_keys"
      [] OTHER                       -> "query"

(* ...the one get_schema answers...                                        *)
Described(cmd) ==
    CASE cmd = "GetCatalogs"         -> "catalogs"
      [] cmd = "GetDbSchemas"        -> "db_schemas"
      [] cmd = "GetTables"           -> "tables"
      [] cmd = "GetTablesWithSchema" -> "tables_with_schema"
      [] cmd = "GetTableTypes"       -> "table_types"
      [] cmd = "GetXdbcTypeInfo"     -> "xdbc_type_info"
      [] cmd = "GetSqlInfo"          -> "sql_info"
      [] cmd = "GetPrimaryKeys"      -> "primary_keys"
      [] cmd \in KeyCommands         -> "fk_keys"
      [] OTHER                       -> "query"

(* Faulty variant: include_schema is ignored when the tables are sent.     *)
SentCatalogPlain(cmd) ==
    CASE cmd = "GetCatalogs"                           -> "catalogs"
      [] cmd = "GetDbSchemas"                          -> "db_schemas"
      [] cmd \in {"GetTables", "GetTablesWithSchema"} -> "tables"
      [] cmd = "GetTableTypes"                         -> "table_types"
      [] OTHER                                         -> "query"

(* ...and the one each do_get handler sends its rows in.  Those of the     *)
(* catalog and of the keys cast a query's result to it...                  *)
SentCatalog(cmd) ==
    CASE cmd = "GetCatalogs"         -> "catalogs"
      [] cmd = "GetDbSchemas"        -> "db_schemas"
      [] cmd = "GetTables"           -> "tables"
      [] cmd = "GetTablesWithSchema" -> "tables_with_schema"
      [] cmd = "GetTableTypes"       -> "table_types"
      [] OTHER                       -> "query"

SentKeys(cmd) == IF cmd \in KeyCommands THEN "fk_keys" ELSE "primary_keys"

(* ...and the tables of types and of SqlInfo are built in it, the latter   *)
(* column by column: uint32 and the dense union of _SQL_INFO_SCHEMA.       *)
(* "query" is whatever the result has, which may change with the data.     *)
Sent(cmd) ==
    CASE cmd \in KeyCommands \cup {"GetPrimaryKeys"} -> SentKeys(cmd)
      [] cmd = "GetXdbcTypeInfo"                     -> "xdbc_type_info"
      [] cmd = "GetSqlInfo"                          -> "sql_info"
      [] OTHER                                       -> SentCatalog(cmd)

(* Faulty variant: every ticket repeats the descriptor's command.          *)
TicketOfDescriptor(cmd) == cmd

(* The ticket repeats the command, but that of a statement names its SQL.  *)
TicketOf(cmd) == IF cmd = "StatementQuery" THEN "TicketStatementQuery" ELSE cmd

-----------------------------------------------------------------------------
(* Faulty variant: whatever arrives is handed to a handler.                *)
OutcomeUnchecked(c, h, cmd, table) ==
    IF Accepted(h, held[c]) THEN "handled" ELSE "unauthenticated"

(* The middleware, unpack_any, then the table; "handled" once the handler  *)
(* runs, whether it answers or raises.                                     *)
Outcome(c, h, cmd, table) ==
    IF ~Accepted(h, held[c]) THEN "unauthenticated"
    ELSE IF cmd = "junk" THEN "invalid"
    ELSE IF cmd \in table THEN "handled" ELSE "unimplemented"

(* A call the middleware refuses reaches no handler: whatever it asked for *)
(* is one and the same.                                                    *)
Refused == [rpc |-> None, command |-> None, outcome |-> "unauthenticated",
            advertised |-> FALSE, schema |-> None]

Answer(rpc, cmd, outcome, schema) ==
    reply' = IF outcome = "unauthenticated" THEN Refused
             ELSE [rpc |-> rpc, command |-> cmd, outcome |-> outcome,
                   advertised |-> Advertised(rpc, cmd),
                   schema |-> IF outcome = "handled" THEN schema ELSE None]

(* The handlers of statements and prepared statements may raise.           *)
GetFlightInfo(c, h, cmd) ==
    /\ Call(c, h)
    /\ LET o == Outcome(c, h, cmd, GetFlightInfoDispatch) IN
          /\ Answer("get_flight_info", cmd, o, Announced(cmd))
          /\ \/ o = "handled" /\ offer' = [command |-> cmd, ticket |-> TicketOf(cmd),
                                           schema |-> Announced(cmd)]
             \/ (o # "handled" \/ cmd \notin Catalog) /\ UNCHANGED offer

GetSchema(c, h, cmd) ==
    /\ Call(c, h)
    /\ Answer("get_schema", cmd, Outcome(c, h, cmd, GetFlightInfoDispatch), Described(cmd))
    /\ UNCHANGED offer

DoGet(c, h, cmd) ==
    /\ Call(c, h)
    /\ Answer("do_get", cmd, Outcome(c, h, cmd, DoGetDispatch), Sent(cmd))
    /\ UNCHANGED offer

DoPut(c, h, cmd) ==
    /\ Call(c, h)
    /\ Answer("do_put", cmd, Outcome(c, h, cmd, DoPutDispatch), None)
    /\ UNCHANGED offer

(* The type is looked up first; a body that does not unpack, or not to the *)
(* request of that type, comes after it.                                   *)
DoAction(c, h, type) ==
    /\ Call(c, h)
    /\ \E o \in {Outcome(c, h, type, DoActionDispatch)} :
          \/ Answer("do_action", type, o, None)
          \/ o = "handled" /\ Answer("do_action", type, "invalid", None)
    /\ UNCHANGED offer

CallsInit == Init /\ offer = None /\ reply = Refused

CallsNext ==
    \/ \E c \in Clients, h \in Headers :
          \/ \E cmd \in Commands :
                \/ GetFlightInfo(c, h, cmd)
                \/ GetSchema(c, h, cmd)
                \/ DoGet(c, h, cmd)
                \/ DoPut(c, h, cmd)
          \/ \E type \in ActionTypes : DoAction(c, h, type)
    \/ Restart /\ UNCHANGED <<offer, reply>>
    \/ Tick /\ UNCHANGED <<offer, reply>>

CallsSpec == CallsInit /\ [][CallsNext]_callVars

=============================================================================
