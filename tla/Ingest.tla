------------------------------- MODULE Ingest -------------------------------
(***************************************************************************)
(* do_put_statement_ingest of lakehouse.server: an existence test on the   *)
(* session's connection, the client's stream, then DROP, CREATE and INSERT *)
(* as separate statements, each committed by itself.                       *)
(*                                                                         *)
(* The calls of all clients interleave between any two of them, and calls  *)
(* of one client share its connection, whose pending result is the result  *)
(* of the latest statement.  Catalogs are left out: a command that names   *)
(* one is qualified by it in the way it is by a schema.  Clients that have *)
(* begun a transaction of their own are left out too.                      *)
(***************************************************************************)
EXTENDS Naturals

CONSTANTS
    Clients,
    Threads,    \* calls in flight
    Names,      \* table names in use
    None,
    MaxIngests  \* bound: ingest calls in all

ASSUME BoundAssumption == MaxIngests \in Nat

Ids == 1..MaxIngests

(* A command names the schema "side" or none; a name without a schema      *)
(* means the connection's own, "main".                                     *)
Schemas == {"main", "side"}
Tables == Schemas \X Names

(* Ingest's options: what to do about a table that is missing, and about   *)
(* one that is there.  Left unspecified they act as CREATE and APPEND.     *)
Commands == [schema : {"", "side"}, name : Names, cols : {"mapped", "decimal"},
             if_not_exist : {"CREATE", "FAIL"}, if_exists : {"FAIL", "APPEND", "REPLACE"}]

(* What is known of an ingest: its client, its command, and the ingests    *)
(* that were over when it began.                                           *)
Calls == [client : Clients, command : Commands, before : SUBSET (Ids \cup {0})]

ASSUME NoneAssumption ==
    /\ None \notin Calls
    /\ \A rows \in SUBSET (Ids \cup {0}) : rows # None

VARIABLES
    tables,   \* table -> the ingests whose rows it has (0: rows from before), or None
    dropped,  \* history: table -> the ingests whose rows went with a DROP
    result,   \* client -> what the next fetchone of its connection returns
    pc,       \* thread -> where the handler is
    doing,    \* thread -> the ingest it serves
    exists,   \* thread -> its local table_exists
    ingest,   \* history: ingest -> what is known of it, or None before it starts
    acked,    \* history: ingests whose client was told that its rows are stored
    over      \* history: ingests that have returned or raised

storeVars  == <<tables, dropped>>
threadVars == <<pc, doing, exists>>
histVars   == <<ingest, acked, over>>
vars == <<storeVars, result, threadVars, histVars>>

Init ==
    /\ tables \in [Tables -> {None, {0}}]
    /\ dropped = [t \in Tables |-> {}]
    /\ result = [c \in Clients |-> "empty"]
    /\ pc = [t \in Threads |-> "idle"]
    /\ doing = [t \in Threads |-> 0]
    /\ exists = [t \in Threads |-> FALSE]
    /\ ingest = [i \in Ids |-> None]
    /\ acked = {}
    /\ over = {0}

-----------------------------------------------------------------------------
Client(t)  == ingest[doing[t]].client
Command(t) == ingest[doing[t]].command

(* fq_table, as DuckDB resolves it. *)
Target(cmd) == <<IF cmd.schema = "" THEN "main" ELSE cmd.schema, cmd.name>>

(* information_schema.tables is not confined to the schema "main" when the *)
(* command names no schema.                                                *)
Found(cmd) ==
    \E s \in Schemas : (cmd.schema \in {"", s}) /\ tables[<<s, cmd.name>>] # None

(* _arrow_type_to_sql gives a DuckDB type, but for decimals. *)
Creatable(cmd) == cmd.cols # "decimal"

(* What SELECT * FROM arrow_table reads: the handler's local variable of   *)
(* that name, unless the catalog has a table of that name, which DuckDB    *)
(* looks for first.                                                        *)
Selected(i) ==
    IF "arrow_table" \in Names /\ tables[<<"main", "arrow_table">>] # None
    THEN tables[<<"main", "arrow_table">>] ELSE {i}

Advance(t, from, to) == pc[t] = from /\ pc' = [pc EXCEPT ![t] = to]

Leaves(c, r) == result' = [result EXCEPT ![c] = r]

Return(t) ==
    /\ pc' = [pc EXCEPT ![t] = "idle"]
    /\ doing' = [doing EXCEPT ![t] = 0]
    /\ exists' = [exists EXCEPT ![t] = FALSE]
    /\ over' = over \cup {doing[t]}

-----------------------------------------------------------------------------
Start(t) ==
    /\ Advance(t, "idle", "test")
    /\ \E i \in Ids :
          /\ ingest[i] = None
          /\ \A j \in Ids : j < i => ingest[j] # None
          /\ doing' = [doing EXCEPT ![t] = i]
          /\ \E c \in Clients, cmd \in Commands :
                ingest' = [ingest EXCEPT ![i] = [client |-> c, command |-> cmd, before |-> over]]
    /\ UNCHANGED <<storeVars, result, exists, acked, over>>

(* conn.execute(exists_query)... *)
TestExecute(t) ==
    /\ Advance(t, "test", "fetch")
    /\ Leaves(Client(t), IF Found(Command(t)) THEN "row" ELSE "empty")
    /\ UNCHANGED <<storeVars, doing, exists, histVars>>

(* ...and .fetchone(), of whatever the connection then holds. *)
TestFetch(t) ==
    /\ Advance(t, "fetch", "read")
    /\ exists' = [exists EXCEPT ![t] = result[Client(t)] = "row"]
    /\ Leaves(Client(t), "empty")
    /\ UNCHANGED <<storeVars, doing, histVars>>

(* The stream ends with rows... *)
ReadRows(t) ==
    /\ Advance(t, "read", "define")
    /\ UNCHANGED <<storeVars, result, doing, exists, histVars>>

(* ...or without any: the reply is 0, whatever the options ask for. *)
ReadNothing(t) ==
    /\ pc[t] = "read"
    /\ Return(t)
    /\ UNCHANGED <<storeVars, result, ingest, acked>>

Refuse(t) ==
    /\ pc[t] = "define"
    /\ (IF exists[t] THEN Command(t).if_exists ELSE Command(t).if_not_exist) = "FAIL"
    /\ Return(t)
    /\ UNCHANGED <<storeVars, result, ingest, acked>>

DropTable(t) ==
    LET target == Target(Command(t)) IN
    /\ exists[t] /\ Command(t).if_exists = "REPLACE"
    /\ Advance(t, "define", "create")
    /\ tables[target] # None
    /\ tables' = [tables EXCEPT ![target] = None]
    /\ dropped' = [dropped EXCEPT ![target] = @ \cup tables[target]]
    /\ Leaves(Client(t), "empty")
    /\ UNCHANGED <<doing, exists, histVars>>

MustCreate(t) ==
    \/ pc[t] = "create"
    \/ pc[t] = "define" /\ ~exists[t] /\ Command(t).if_not_exist = "CREATE"

(* Faulty variant: CREATE TABLE IF NOT EXISTS.                             *)
CreateIfNotExists(t) ==
    LET target == Target(Command(t)) IN
    /\ MustCreate(t)
    /\ pc' = [pc EXCEPT ![t] = "insert"]
    /\ tables' = [tables EXCEPT ![target] = IF @ = None THEN {} ELSE @]
    /\ Leaves(Client(t), "empty")
    /\ UNCHANGED <<dropped, doing, exists, histVars>>

(* A plain CREATE TABLE. *)
CreateTable(t) ==
    LET target == Target(Command(t)) IN
    /\ MustCreate(t)
    /\ Creatable(Command(t))
    /\ pc' = [pc EXCEPT ![t] = "insert"]
    /\ tables[target] = None
    /\ tables' = [tables EXCEPT ![target] = {}]
    /\ Leaves(Client(t), "empty")
    /\ UNCHANGED <<dropped, doing, exists, histVars>>

MayInsert(t) ==
    \/ pc[t] = "insert"
    \/ pc[t] = "define" /\ exists[t] /\ Command(t).if_exists = "APPEND"

(* Faulty variant: INSERT INTO the bare table name.                        *)
InsertUnqualified(t) ==
    LET target == <<"main", Command(t).name>> IN
    /\ MayInsert(t)
    /\ pc' = [pc EXCEPT ![t] = "reply"]
    /\ tables[target] # None
    /\ tables' = [tables EXCEPT ![target] = @ \cup Selected(doing[t])]
    /\ Leaves(Client(t), "row")
    /\ UNCHANGED <<dropped, doing, exists, histVars>>

(* An INSERT leaves a row on the connection: its count. *)
Insert(t) ==
    LET target == Target(Command(t)) IN
    /\ MayInsert(t)
    /\ pc' = [pc EXCEPT ![t] = "reply"]
    /\ tables[target] # None
    /\ tables' = [tables EXCEPT ![target] = @ \cup Selected(doing[t])]
    /\ Leaves(Client(t), "row")
    /\ UNCHANGED <<dropped, doing, exists, histVars>>

(* The reply gives the rows of the client's data, not those of the INSERT. *)
Reply(t) ==
    /\ pc[t] = "reply"
    /\ acked' = acked \cup {doing[t]}
    /\ Return(t)
    /\ UNCHANGED <<storeVars, result, ingest>>

(* The session, a statement, the stream or the reply fails: the handler    *)
(* raises, and what it has done so far stays done.                         *)
Raise(t) ==
    /\ pc[t] # "idle"
    /\ Return(t)
    /\ UNCHANGED <<storeVars, result, ingest, acked>>

(* Any other call of the client runs a statement on the same connection. *)
OtherStatement(c) ==
    /\ \E r \in {"row", "empty"} \ {result[c]} : Leaves(c, r)
    /\ UNCHANGED <<storeVars, threadVars, histVars>>

Next ==
    \/ \E t \in Threads :
          \/ Start(t)
          \/ TestExecute(t)
          \/ TestFetch(t)
          \/ ReadRows(t)
          \/ ReadNothing(t)
          \/ Refuse(t)
          \/ DropTable(t)
          \/ CreateTable(t)
          \/ Insert(t)
          \/ Reply(t)
          \/ Raise(t)
    \/ \E c \in Clients : OtherStatement(c)

Spec == Init /\ [][Next]_vars

=============================================================================
