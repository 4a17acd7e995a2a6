--------------------------- MODULE FlightCallsProofs ---------------------------
(***************************************************************************)
(* Which calls are let through, what becomes of an advertised one, and     *)
(* that the three schemas of a command agree: for any number of clients,   *)
(* restarts and lifetime of the tokens.                                    *)
(***************************************************************************)
EXTENDS FlightCallsProps, TLAPS

Rpcs == {"get_flight_info", "get_schema", "do_get", "do_put", "do_action"}

Outcomes == {"unauthenticated", "invalid", "unimplemented", "handled"}

Replies == [rpc : Rpcs \cup {None}, command : Commands \cup ActionTypes \cup {None},
            outcome : Outcomes, advertised : BOOLEAN, schema : Schemas \cup {None}]

(* One RPC: the middleware's call, and an answer for what the RPC's table  *)
(* makes of the command.                                                   *)
Table(rpc) ==
    CASE rpc = "get_flight_info" -> GetFlightInfoDispatch
      [] rpc = "get_schema"      -> GetFlightInfoDispatch
      [] rpc = "do_get"          -> DoGetDispatch
      [] rpc = "do_put"          -> DoPutDispatch
      [] rpc = "do_action"       -> DoActionDispatch

SchemaFor(rpc, cmd) ==
    CASE rpc = "get_flight_info" -> Announced(cmd)
      [] rpc = "get_schema"      -> Described(cmd)
      [] rpc = "do_get"          -> Sent(cmd)
      [] OTHER                   -> None

Answered(rpc, cmd, o) ==
    /\ o \in Outcomes
    /\ o = "handled" => cmd \in Table(rpc)
    /\ o = "unimplemented" => cmd \notin Table(rpc)
    /\ Answer(rpc, cmd, o, SchemaFor(rpc, cmd))

NewOffer(cmd) == [command |-> cmd, ticket |-> TicketOf(cmd), schema |-> Announced(cmd)]

(* What a step does to the reply and to the offer. *)
LEMMA CallSteps ==
  ASSUME [CallsNext]_callVars
  PROVE  \/ UNCHANGED <<offer, reply>>
         \/ \E rpc \in Rpcs, cmd \in Commands \cup ActionTypes, o \in Outcomes :
               /\ Answered(rpc, cmd, o)
               /\ \/ UNCHANGED offer
                  \/ /\ rpc = "get_flight_info" /\ cmd \in GetFlightInfoDispatch
                     /\ offer' = NewOffer(cmd)
<1>1. ASSUME NEW c, NEW h, NEW cmd, NEW table
      PROVE  /\ Outcome(c, h, cmd, table) \in Outcomes
             /\ Outcome(c, h, cmd, table) = "handled" => cmd \in table
             /\ Outcome(c, h, cmd, table) = "unimplemented" => cmd \notin table
  BY DEF Outcome, Outcomes
<1>2. ASSUME NEW c \in Clients, NEW h \in Headers, NEW cmd \in Commands, GetFlightInfo(c, h, cmd)
      PROVE  \E o \in Outcomes :
                /\ Answered("get_flight_info", cmd, o)
                /\ \/ UNCHANGED offer
                   \/ cmd \in GetFlightInfoDispatch /\ offer' = NewOffer(cmd)
  <2>1. PICK o \in Outcomes : o = Outcome(c, h, cmd, GetFlightInfoDispatch)
    BY <1>1
  <2>2. Answered("get_flight_info", cmd, o)
    BY <1>1, <1>2, <2>1 DEF GetFlightInfo, Answered, Table, SchemaFor
  <2>3. UNCHANGED offer \/ (cmd \in GetFlightInfoDispatch /\ offer' = NewOffer(cmd))
    BY <1>1, <1>2, <2>1 DEF GetFlightInfo, NewOffer
  <2>. QED
    BY <2>2, <2>3
<1>3. ASSUME NEW c \in Clients, NEW h \in Headers, NEW cmd \in Commands, GetSchema(c, h, cmd)
      PROVE  \E o \in Outcomes : Answered("get_schema", cmd, o) /\ UNCHANGED offer
  BY <1>1, <1>3 DEF GetSchema, Answered, Table, SchemaFor
<1>4. ASSUME NEW c \in Clients, NEW h \in Headers, NEW cmd \in Commands, DoGet(c, h, cmd)
      PROVE  \E o \in Outcomes : Answered("do_get", cmd, o) /\ UNCHANGED offer
  BY <1>1, <1>4 DEF DoGet, Answered, Table, SchemaFor
<1>5. ASSUME NEW c \in Clients, NEW h \in Headers, NEW cmd \in Commands, DoPut(c, h, cmd)
      PROVE  \E o \in Outcomes : Answered("do_put", cmd, o) /\ UNCHANGED offer
  BY <1>1, <1>5 DEF DoPut, Answered, Table, SchemaFor
<1>6. ASSUME NEW c \in Clients, NEW h \in Headers, NEW type \in ActionTypes, DoAction(c, h, type)
      PROVE  \E o \in Outcomes : Answered("do_action", type, o) /\ UNCHANGED offer
  <2>1. "invalid" \in Outcomes
    BY DEF Outcomes
  <2>. QED
    BY <1>1, <1>6, <2>1 DEF DoAction, Answered, Table, SchemaFor
<1>7. CASE (Restart \/ Tick) /\ UNCHANGED <<offer, reply>>
  BY <1>7
<1>8. CASE UNCHANGED callVars
  BY <1>8 DEF callVars
<1>9. "get_flight_info" \in Rpcs /\ "get_schema" \in Rpcs /\ "do_get" \in Rpcs
      /\ "do_put" \in Rpcs /\ "do_action" \in Rpcs
  BY DEF Rpcs
<1>. QED
  BY <1>2, <1>3, <1>4, <1>5, <1>6, <1>7, <1>8, <1>9 DEF CallsNext

(* Every step of the RPCs is a step of the middleware, or none of it. *)
LEMMA AuthSteps ==
  ASSUME [CallsNext]_callVars
  PROVE  [Next]_vars
<1>1. ASSUME NEW c \in Clients, NEW h \in Headers, NEW cmd,
             \/ GetFlightInfo(c, h, cmd) \/ GetSchema(c, h, cmd) \/ DoGet(c, h, cmd)
             \/ DoPut(c, h, cmd) \/ DoAction(c, h, cmd)
      PROVE  Call(c, h)
  BY <1>1 DEF GetFlightInfo, GetSchema, DoGet, DoPut, DoAction
<1>. QED
  BY <1>1 DEF CallsNext, Next, callVars

-----------------------------------------------------------------------------
(* The middleware. *)

(* A token that has aged is still a token. *)
LEMMA AgedTypes ==
  ASSUME NEW k \in Tokens, k.left # 0
  PROVE  /\ [k EXCEPT !.left = @ - 1] \in Tokens
         /\ [k EXCEPT !.left = @ - 1].iss = k.iss
  BY AuthAssumption DEF Tokens

(* The middleware's variables keep their types. *)
LEMMA AuthTypesStep ==
  ASSUME TypeOK, [Next]_vars
  PROVE  TypeOK'
<1> USE AuthAssumption DEF TypeOK
<1>1. ASSUME NEW c \in Clients, NEW h \in Headers, Call(c, h)
      PROVE  TypeOK'
  <2>1. NewToken \in Tokens
    BY DEF NewToken, Tokens
  <2>2. held' \in [Clients -> Tokens \cup {None}]
    BY <1>1, <2>1 DEF Call
  <2>3. Accepted(h, held[c]) \in BOOLEAN /\ held[c] \in Tokens \cup {None}
    BY DEF Accepted
  <2>4. last' \in [header : Headers, token : Tokens \cup {None}, key : Nat, accepted : BOOLEAN]
    BY <1>1, <2>3 DEF Call
  <2>. QED
    BY <1>1, <2>2, <2>4 DEF Call
<1>2. CASE Restart
  BY <1>2 DEF Restart
<1>3. CASE Tick
  <2>1. ASSUME NEW c \in Clients
        PROVE  (IF held[c] = None \/ held[c].left = 0 THEN held[c]
                ELSE [held[c] EXCEPT !.left = @ - 1]) \in Tokens \cup {None}
    BY AgedTypes
  <2>. QED
    BY <1>3, <2>1 DEF Tick
<1>4. CASE UNCHANGED vars
  BY <1>4 DEF vars
<1>. QED
  BY <1>1, <1>2, <1>3, <1>4 DEF Next

(* Every token in a client's hands was issued by create_jwt. *)
Issued ==
    /\ \A c \in Clients : held[c] # None => held[c].iss = DefaultIssuer
    /\ last.header = "bearer" => last.token.iss = DefaultIssuer

(* Refusals and issues keep AcceptedIsAuthentic and Issued. *)
LEMMA AuthStep ==
  ASSUME TypeOK, AcceptedIsAuthentic, Issued, [Next]_vars
  PROVE  AcceptedIsAuthentic' /\ Issued'
<1> USE DEF AcceptedIsAuthentic, Issued
<1>1. ASSUME NEW c \in Clients, NEW h \in Headers, Call(c, h)
      PROVE  AcceptedIsAuthentic' /\ Issued'
  <2>1. /\ last' = [header |-> h, token |-> IF h = "bearer" THEN held[c] ELSE None,
                    key |-> key, accepted |-> Accepted(h, held[c])]
        /\ UNCHANGED <<protected, key>>
        /\ h = "bearer" => held[c] # None
    BY <1>1 DEF Call
  <2>2. AcceptedIsAuthentic'
    BY <2>1 DEF Accepted, BasicRefuses, BearerRefuses, RequiredRefuses, Verifies, Headers
  <2>3. \A d \in Clients : held'[d] # None => held'[d].iss = DefaultIssuer
    BY <1>1 DEF Call, NewToken, TypeOK
  <2>. QED
    BY <2>1, <2>2, <2>3
<1>2. CASE Restart
  BY <1>2 DEF Restart
<1>3. CASE Tick
  <2>1. ASSUME NEW c \in Clients, held'[c] # None
        PROVE  held'[c].iss = DefaultIssuer
    BY <1>3, <2>1, AgedTypes DEF Tick, TypeOK
  <2>. QED
    BY <1>3, <2>1 DEF Tick
<1>4. CASE UNCHANGED vars
  BY <1>4 DEF vars
<1>. QED
  BY <1>1, <1>2, <1>3, <1>4 DEF Next

(* The verifier is asked for the issuer the tokens carry only if the       *)
(* deployment leaves jwt_issuer alone; then an issued token is accepted.   *)
LEMMA IssuedStep ==
  ASSUME Issuer = DefaultIssuer, TypeOK, Issued, IssuedIsAccepted, [Next]_vars
  PROVE  IssuedIsAccepted'
<1> USE DEF IssuedIsAccepted
<1>1. ASSUME NEW c \in Clients, NEW h \in Headers, Call(c, h)
      PROVE  IssuedIsAccepted'
  <2>1. /\ last' = [header |-> h, token |-> IF h = "bearer" THEN held[c] ELSE None,
                    key |-> key, accepted |-> Accepted(h, held[c])]
        /\ h = "bearer" => held[c] # None
    BY <1>1 DEF Call
  <2>2. h = "bearer" /\ held[c].key = key /\ held[c].left > 0 => Accepted(h, held[c])
    BY <2>1 DEF Accepted, BasicRefuses, BearerRefuses, RequiredRefuses, Verifies, Issued
  <2>. QED
    BY <2>1, <2>2
<1>2. CASE Restart \/ Tick \/ UNCHANGED vars
  BY <1>2 DEF Restart, Tick, vars
<1>. QED
  BY <1>1, <1>2 DEF Next

-----------------------------------------------------------------------------
(* The calls. *)

(* Announced, Described and Sent are schemas, and agree on the metadata    *)
(* commands.                                                               *)
LEMMA SchemasOfCommands ==
  ASSUME NEW cmd
  PROVE  /\ Announced(cmd) \in Schemas /\ Described(cmd) \in Schemas /\ Sent(cmd) \in Schemas
         /\ cmd \in Catalog => Sent(cmd) = Announced(cmd) /\ Described(cmd) = Announced(cmd)
<1>1. Announced(cmd) \in Schemas
  BY DEF Announced, Schemas
<1>2. Described(cmd) = Announced(cmd) /\ Sent(cmd) = Announced(cmd)
  BY DEF Described, Sent, SentKeys, SentCatalog, Announced, KeyCommands
<1>. QED
  BY <1>1, <1>2

(* Tickets are commands that DoGet has a handler for. *)
LEMMA TicketsRedeemable ==
  ASSUME NEW cmd \in GetFlightInfoDispatch
  PROVE  /\ TicketOf(cmd) \in Commands /\ TicketOf(cmd) \in DoGetDispatch
         /\ cmd \in Catalog => TicketOf(cmd) = cmd
  BY DEF TicketOf, Commands, DoGetDispatch, GetFlightInfoDispatch, Catalog, KeyCommands

(* Every variable, those of the middleware included, keeps its type. *)
THEOREM CallsTypeCorrect == CallsSpec => []CallsTypeOK
<1>1. CallsInit => CallsTypeOK
  <2> SUFFICES ASSUME CallsInit PROVE CallsTypeOK
    OBVIOUS
  <2>1. TypeOK
    BY AuthAssumption DEF CallsInit, Init, TypeOK, Headers
  <2>2. Refused \in Replies
    BY DEF Refused, Replies, Outcomes
  <2>. QED
    BY <2>1, <2>2 DEF CallsInit, CallsTypeOK, Replies, Rpcs, Outcomes
<1>2. CallsTypeOK /\ [CallsNext]_callVars => CallsTypeOK'
  <2> SUFFICES ASSUME CallsTypeOK, [CallsNext]_callVars PROVE CallsTypeOK'
    OBVIOUS
  <2> DEFINE Offers == [command : GetFlightInfoDispatch, ticket : Commands, schema : Schemas]
  <2>1. TypeOK'
    BY AuthSteps, AuthTypesStep DEF CallsTypeOK
  <2>2. ASSUME NEW cmd \in GetFlightInfoDispatch
        PROVE  NewOffer(cmd) \in Offers
    BY SchemasOfCommands, TicketsRedeemable DEF NewOffer
  <2>3. ASSUME NEW rpc \in Rpcs, NEW cmd \in Commands \cup ActionTypes, NEW o \in Outcomes,
               Answered(rpc, cmd, o)
        PROVE  reply' \in Replies
    <3>1. SchemaFor(rpc, cmd) \in Schemas \cup {None}
      BY SchemasOfCommands DEF SchemaFor
    <3>2. Advertised(rpc, cmd) \in BOOLEAN
      BY DEF Advertised
    <3>3. Refused \in Replies
      BY DEF Refused, Replies, Outcomes
    <3>. QED
      BY <2>3, <3>1, <3>2, <3>3 DEF Answered, Answer, Replies
  <2>4. offer \in Offers \cup {None} /\ reply \in Replies
    BY DEF CallsTypeOK, Replies, Rpcs, Outcomes
  <2> HIDE DEF Offers
  <2>5. offer' \in Offers \cup {None} /\ reply' \in Replies
    BY <2>2, <2>3, <2>4, CallSteps
  <2>. QED
    BY <2>1, <2>5 DEF CallsTypeOK, Replies, Rpcs, Outcomes, Offers
<1>. QED
  BY <1>1, <1>2, PTL DEF CallsSpec

(* With a password configured nothing is let through but the password and  *)
(* tokens of a server with the same key that have not expired.             *)
THEOREM AcceptedAreAuthentic == CallsSpec => []AcceptedIsAuthentic
<1>1. CallsInit => AcceptedIsAuthentic /\ Issued
  BY DEF CallsInit, Init, AcceptedIsAuthentic, Issued
<1>2. CallsTypeOK /\ AcceptedIsAuthentic /\ Issued /\ [CallsNext]_callVars
      => (AcceptedIsAuthentic /\ Issued)'
  BY AuthSteps, AuthStep DEF CallsTypeOK
<1>. QED
  BY <1>1, <1>2, CallsTypeCorrect, PTL DEF CallsSpec

(* An issued token is good until it expires or the key changes, provided   *)
(* jwt_issuer is left at the name create_jwt writes.                       *)
THEOREM IssuedAreAccepted ==
  ASSUME Issuer = DefaultIssuer
  PROVE  CallsSpec => []IssuedIsAccepted
<1>1. CallsInit => AcceptedIsAuthentic /\ Issued /\ IssuedIsAccepted
  BY DEF CallsInit, Init, AcceptedIsAuthentic, Issued, IssuedIsAccepted
<1>2. CallsTypeOK /\ AcceptedIsAuthentic /\ Issued /\ IssuedIsAccepted /\ [CallsNext]_callVars
      => (AcceptedIsAuthentic /\ Issued /\ IssuedIsAccepted)'
  BY AuthSteps, AuthStep, IssuedStep DEF CallsTypeOK
<1>. QED
  BY <1>1, <1>2, CallsTypeCorrect, PTL DEF CallsSpec

-----------------------------------------------------------------------------
(* An offer is what GetFlightInfo answered for its command, and the schema *)
(* of a reply is what the handler that answered names.                     *)
Offered ==
    offer # None => /\ offer.command \in GetFlightInfoDispatch
                    /\ offer = NewOffer(offer.command)

Named ==
    /\ reply.outcome = "handled" /\ reply.rpc = "do_get" => reply.schema = Sent(reply.command)
    /\ reply.outcome = "handled" /\ reply.rpc = "get_schema" => reply.schema = Described(reply.command)

(* What is advertised has a handler. *)
LEMMA AdvertisedInTable ==
  ASSUME Offered, NEW rpc \in Rpcs, NEW cmd \in Commands \cup ActionTypes, Advertised(rpc, cmd)
  PROVE  cmd \in Table(rpc)
<1>1. CASE rpc = "do_get" /\ offer # None /\ cmd = offer.ticket
  <2>1. PICK d \in GetFlightInfoDispatch : offer = NewOffer(d)
    BY <1>1 DEF Offered
  <2>2. cmd = TicketOf(d)
    BY <1>1, <2>1 DEF NewOffer
  <2>. QED
    BY <1>1, <2>2, TicketsRedeemable DEF Table
<1>2. CASE rpc = "do_action" /\ cmd \in ListedActions
  BY <1>2 DEF Table, ListedActions, DoActionDispatch
<1>3. CASE <<rpc, cmd>> \in SqlInfo
  BY <1>3 DEF SqlInfo, Table, GetFlightInfoDispatch, DoPutDispatch, DoActionDispatch
<1>. QED
  BY <1>1, <1>2, <1>3 DEF Advertised

(* Offered and Named are kept, and with them what is advertised. *)
LEMMA OffersStep ==
  ASSUME Offered, Named, AdvertisedIsHandled, [CallsNext]_callVars
  PROVE  Offered' /\ Named' /\ AdvertisedIsHandled'
<1>1. CASE UNCHANGED <<offer, reply>>
  BY <1>1 DEF Offered, Named, AdvertisedIsHandled
<1>2. ASSUME NEW rpc \in Rpcs, NEW cmd \in Commands \cup ActionTypes, NEW o \in Outcomes,
             Answered(rpc, cmd, o),
             \/ UNCHANGED offer
             \/ rpc = "get_flight_info" /\ cmd \in GetFlightInfoDispatch /\ offer' = NewOffer(cmd)
      PROVE  Offered' /\ Named' /\ AdvertisedIsHandled'
  <2>1. Offered'
    <3>1. CASE UNCHANGED offer
      BY <3>1 DEF Offered
    <3>2. CASE cmd \in GetFlightInfoDispatch /\ offer' = NewOffer(cmd)
      BY <3>2 DEF Offered, NewOffer
    <3>. QED
      BY <1>2, <3>1, <3>2
  <2>2. CASE o = "unauthenticated"
    <3>1. reply' = Refused
      BY <1>2, <2>2 DEF Answered, Answer
    <3>. QED
      BY <2>1, <3>1 DEF Refused, Named, AdvertisedIsHandled
  <2>3. CASE o # "unauthenticated"
    <3>1. reply' = [rpc |-> rpc, command |-> cmd, outcome |-> o,
                    advertised |-> Advertised(rpc, cmd),
                    schema |-> IF o = "handled" THEN SchemaFor(rpc, cmd) ELSE None]
      BY <1>2, <2>3 DEF Answered, Answer
    <3>2. Named'
      BY <3>1 DEF Named, SchemaFor
    <3>3. o = "unimplemented" => ~Advertised(rpc, cmd)
      BY <1>2, AdvertisedInTable DEF Answered
    <3>4. AdvertisedIsHandled'
      BY <3>1, <3>3 DEF AdvertisedIsHandled
    <3>. QED
      BY <2>1, <3>2, <3>4
  <2>. QED
    BY <2>2, <2>3
<1>. QED
  BY <1>1, <1>2, CallSteps

(* Offers and replies say what their handlers say, at every moment. *)
LEMMA OffersKept == CallsSpec => [](Offered /\ Named /\ AdvertisedIsHandled)
<1>1. CallsInit => Offered /\ Named /\ AdvertisedIsHandled
  BY DEF CallsInit, Refused, Offered, Named, AdvertisedIsHandled
<1>2. Offered /\ Named /\ AdvertisedIsHandled /\ [CallsNext]_callVars
      => (Offered /\ Named /\ AdvertisedIsHandled)'
  BY OffersStep
<1>. QED
  BY <1>1, <1>2, PTL DEF CallsSpec

(* No ticket, listed action or capability is ever answered UNIMPLEMENTED.  *)
THEOREM AdvertisedAreHandled == CallsSpec => []AdvertisedIsHandled
  BY OffersKept, PTL

(* The schema announced with the ticket of a metadata command is the       *)
(* schema of the rows that come for it and the one get_schema describes.   *)
THEOREM SchemasAlwaysAgree == CallsSpec => []SchemasAgree
<1>1. Offered /\ Named => SchemasAgree
  <2> SUFFICES ASSUME Offered, Named, reply.outcome = "handled", offer # None,
                      \/ reply.rpc = "do_get" /\ reply.command = offer.ticket
                      \/ reply.rpc = "get_schema" /\ reply.command = offer.command,
                      offer.command \in Catalog
               PROVE  reply.schema = offer.schema
    BY DEF SchemasAgree
  <2>1. PICK d \in GetFlightInfoDispatch : d = offer.command /\ offer = NewOffer(d)
    BY DEF Offered
  <2>2. offer.ticket = TicketOf(d) /\ offer.schema = Announced(d)
    BY <2>1 DEF NewOffer
  <2>3. d \in Catalog /\ TicketOf(d) = d
    BY <2>1, TicketsRedeemable
  <2>4. Sent(d) = Announced(d) /\ Described(d) = Announced(d)
    BY <2>3, SchemasOfCommands
  <2>. QED
    BY <2>1, <2>2, <2>3, <2>4 DEF Named
<1>. QED
  BY <1>1, OffersKept, PTL

=============================================================================
