---------------------------- MODULE FlightCallsProps ----------------------------
(***************************************************************************)
(* What a client may rely on from one RPC to the next.                     *)
(***************************************************************************)
EXTENDS FlightCalls, AuthTokensProps

Schemas == {"catalogs", "db_schemas", "tables", "tables_with_schema", "table_types",
            "xdbc_type_info", "sql_info", "primary_keys", "fk_keys", "query"}

(* Every variable, those of the middleware included, has the right shape.  *)
CallsTypeOK ==
    /\ TypeOK
    /\ offer \in [command : GetFlightInfoDispatch, ticket : Commands, schema : Schemas]
                 \cup {None}
    /\ reply \in [rpc : {"get_flight_info", "get_schema", "do_get", "do_put", "do_action", None},
                  command : Commands \cup ActionTypes \cup {None},
                  outcome : {"unauthenticated", "invalid", "unimplemented", "handled"},
                  advertised : BOOLEAN,
                  schema : Schemas \cup {None}]

(* What the server advertises is never answered UNIMPLEMENTED: the ticket  *)
(* of a FlightInfo, whoever redeems it and after whatever restart, a       *)
(* listed action, a capability of SqlInfo.  The tickets are written by one *)
(* set of handlers and read by another table.                              *)
AdvertisedIsHandled == reply.advertised => reply.outcome # "unimplemented"

(* For every metadata command the schema announced with the ticket is the  *)
(* schema of the rows sent for it and the one get_schema describes: three  *)
(* sets of handlers name it independently.  Statements are left out: their *)
(* tables may change in between, and a prepared query that takes           *)
(* parameters announces an empty schema and sends rows.                    *)
SchemasAgree ==
    (/\ reply.outcome = "handled"
     /\ offer # None
     /\ \/ reply.rpc = "do_get" /\ reply.command = offer.ticket
        \/ reply.rpc = "get_schema" /\ reply.command = offer.command
     /\ offer.command \in Catalog)
    => reply.schema = offer.schema

=============================================================================
