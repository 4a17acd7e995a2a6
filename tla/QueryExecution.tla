---------------------------- MODULE QueryExecution ----------------------------
(***************************************************************************)
(* lakehouse.server: handlers that run SQL on the session's connection and *)
(* read the result back from it.                                           *)
(*                                                                         *)
(* A DuckDB connection holds one result, that of its latest execute; every *)
(* handler executes and then fetches, in two calls and under no lock.  All *)
(* RPCs of one gRPC peer share one session and so one connection.          *)
(***************************************************************************)
EXTENDS Naturals, FiniteSets

CONSTANTS
    Clients,       \* sessions, one per gRPC peer
    SerialClients, \* clients that wait for each answer before the next call
    Threads,       \* RPCs in flight
    None,
    MaxTables,     \* bound: tables a GetTables answer describes
    MaxRequests    \* bound: requests in one behaviour

ASSUME SerialAssumption == SerialClients \subseteq Clients
ASSUME BoundsAssumption == MaxTables \in Nat /\ MaxRequests \in Nat

(* read    statements and catalog queries: execute, fetch_arrow_table      *)
(* tables  GetTables with include_schema: a read, then one per row of it   *)
(* update  DoPut of an update: execute, fetchone                           *)
Kinds == {"read", "tables", "update"}

Ids == 1..MaxRequests

VARIABLES
    result,    \* client -> the result its connection holds
    sender,    \* the clients of the requests so far, by request number
    pc,        \* thread -> where its handler is
    rpc,       \* thread -> its local variables
    answers    \* answers sent

vars == <<result, sender, pc, rpc, answers>>

(* of: the request whose statement produced it; kind: what its rows are    *)
Results == [of : Ids, kind : Kinds \cup {"schema"}]

(* toList: GetTables has yet to read its list; left: tables to describe;   *)
(* from: the requests whose results the answer is built from               *)
Locals == [id : Ids, client : Clients, kind : Kinds, toList : BOOLEAN,
           left : 0..MaxTables, from : SUBSET Ids]

Answers == [id : Ids, client : Clients, from : SUBSET Ids]

ASSUME NoneAssumption == None \notin Clients \cup Results \cup Locals

Init ==
    /\ result = [c \in Clients |-> None]
    /\ sender = [n \in Ids |-> None]
    /\ pc = [t \in Threads |-> "idle"]
    /\ rpc = [t \in Threads |-> None]
    /\ answers = {}

-----------------------------------------------------------------------------
Busy(c) == \E t \in Threads : pc[t] # "idle" /\ rpc[t].client = c

(* Faulty variant: every session uses one connection.                      *)
ConnectionOfServer(c) == CHOOSE d \in Clients : TRUE

(* _get_session: the caller's own session and its connection. *)
Connection(c) == c

(* A call arrives; its number is the next one. *)
Arrive(t, c, k) ==
    /\ pc[t] = "idle"
    /\ c \in SerialClients => ~Busy(c)
    /\ \E n \in Ids :
          /\ \A m \in Ids : m < n <=> sender[m] # None
          /\ sender' = [sender EXCEPT ![n] = c]
          /\ rpc' = [rpc EXCEPT ![t] = [id |-> n, client |-> c, kind |-> k,
                                        toList |-> k = "tables", left |-> 0,
                                        from |-> {}]]
    /\ pc' = [pc EXCEPT ![t] = "execute"]
    /\ UNCHANGED <<result, answers>>

(* Faulty variant: the next call finds the locals of the last.             *)
FinishKeepsLocals(t) == pc' = [pc EXCEPT ![t] = "idle"] /\ UNCHANGED rpc

Finish(t) ==
    /\ pc' = [pc EXCEPT ![t] = "idle"]
    /\ rpc' = [rpc EXCEPT ![t] = None]

Send(t, from) ==
    /\ answers' = answers \cup {[id |-> rpc[t].id, client |-> rpc[t].client, from |-> from]}
    /\ Finish(t)

(* Faulty variant: a result waiting on the connection is taken for the     *)
(* statement's own, as do_get_prepared_statement does on a child cursor.   *)
ExecuteUnlessPending(t) ==
    /\ pc[t] = "execute"
    /\ LET c == Connection(rpc[t].client) IN
          result' = IF result[c] # None THEN result
                    ELSE [result EXCEPT ![c] = [of |-> rpc[t].id, kind |-> rpc[t].kind]]
    /\ pc' = [pc EXCEPT ![t] = "fetch"]
    /\ UNCHANGED <<sender, rpc, answers>>

Execute(t) ==
    /\ pc[t] = "execute"
    /\ result' = [result EXCEPT ![Connection(rpc[t].client)] =
                     [of |-> rpc[t].id,
                      kind |-> IF rpc[t].kind = "tables" /\ ~rpc[t].toList
                               THEN "schema" ELSE rpc[t].kind]]
    /\ pc' = [pc EXCEPT ![t] = "fetch"]
    /\ UNCHANGED <<sender, rpc, answers>>

(* The statement is refused; the exception becomes the call's status. *)
ExecuteRaises(t) ==
    /\ pc[t] = "execute"
    /\ result' = [result EXCEPT ![Connection(rpc[t].client)] = None]
    /\ Finish(t)
    /\ UNCHANGED <<sender, answers>>

-----------------------------------------------------------------------------
(* fetch_arrow_table takes the result off the connection. *)
Fetched(t) == result[Connection(rpc[t].client)]

TakeResult(t) ==
    /\ Fetched(t) # None
    /\ result' = [result EXCEPT ![Connection(rpc[t].client)] = None]

From(t) == rpc[t].from \cup {Fetched(t).of}

FetchRead(t) ==
    /\ pc[t] = "fetch"
    /\ rpc[t].kind = "read"
    /\ TakeResult(t)
    /\ Send(t, From(t))
    /\ UNCHANGED sender

(* The list of tables: one more query for each of its rows. *)
FetchList(t) ==
    /\ pc[t] = "fetch"
    /\ rpc[t].kind = "tables"
    /\ rpc[t].toList
    /\ TakeResult(t)
    /\ Fetched(t).kind = "tables"
    /\ \E rows \in 1..MaxTables :
          rpc' = [rpc EXCEPT ![t].toList = FALSE, ![t].left = rows, ![t].from = From(t)]
    /\ pc' = [pc EXCEPT ![t] = "execute"]
    /\ UNCHANGED <<sender, answers>>

FetchEmptyList(t) ==
    /\ pc[t] = "fetch"
    /\ rpc[t].kind = "tables"
    /\ rpc[t].toList
    /\ TakeResult(t)
    /\ Fetched(t).kind = "tables"
    /\ Send(t, From(t))
    /\ UNCHANGED sender

(* Only the schema of the fetched result is used: any result will do. *)
FetchTableSchema(t) ==
    /\ pc[t] = "fetch"
    /\ rpc[t].kind = "tables"
    /\ ~rpc[t].toList
    /\ TakeResult(t)
    /\ IF rpc[t].left > 1
       THEN /\ rpc' = [rpc EXCEPT ![t].left = @ - 1, ![t].from = From(t)]
            /\ pc' = [pc EXCEPT ![t] = "execute"]
            /\ UNCHANGED answers
       ELSE Send(t, From(t))
    /\ UNCHANGED sender

(* fetchone leaves the result on the connection. *)
FetchCount(t) ==
    /\ pc[t] = "fetch"
    /\ rpc[t].kind = "update"
    /\ Fetched(t) # None
    /\ Send(t, From(t))
    /\ UNCHANGED <<result, sender>>

(* No result to read: fetchone gives None, answered as a count of 0. *)
FetchNoCount(t) ==
    /\ pc[t] = "fetch"
    /\ rpc[t].kind = "update"
    /\ Fetched(t) = None
    /\ Send(t, {})
    /\ UNCHANGED <<result, sender>>

(* No result, or rows that are not a list of tables: the handler raises.   *)
FetchRaises(t) ==
    /\ pc[t] = "fetch"
    /\ rpc[t].kind # "update"
    /\ Fetched(t) # None => rpc[t].toList /\ Fetched(t).kind # "tables"
    /\ result' = [result EXCEPT ![Connection(rpc[t].client)] = None]
    /\ Finish(t)
    /\ UNCHANGED <<sender, answers>>

Work(t) ==
    \/ Execute(t)
    \/ ExecuteRaises(t)
    \/ FetchRead(t)
    \/ FetchList(t)
    \/ FetchEmptyList(t)
    \/ FetchTableSchema(t)
    \/ FetchCount(t)
    \/ FetchNoCount(t)
    \/ FetchRaises(t)

Next == \E t \in Threads :
    \/ \E c \in Clients, k \in Kinds : Arrive(t, c, k)
    \/ Work(t)

Spec == Init /\ [][Next]_vars

=============================================================================
