----------------------------- MODULE IngestProps -----------------------------
(***************************************************************************)
(* What the client of an acknowledged ingest may rely on.                  *)
(***************************************************************************)
EXTENDS Ingest

(* Every variable holds a value of the right shape. *)
TypeOK ==
    /\ tables \in [Tables -> (SUBSET (Ids \cup {0})) \cup {None}]
    /\ dropped \in [Tables -> SUBSET (Ids \cup {0})]
    /\ result \in [Clients -> {"row", "empty"}]
    /\ pc \in [Threads -> {"idle", "test", "fetch", "read", "define", "create", "insert", "reply"}]
    /\ doing \in [Threads -> Ids \cup {0}]
    /\ exists \in [Threads -> BOOLEAN]
    /\ ingest \in [Ids -> Calls \cup {None}]
    /\ acked \subseteq Ids
    /\ over \subseteq Ids \cup {0}

(* The rows of an ingest are in the table its command names, or were when  *)
(* a REPLACE dropped that table.                                           *)
Stored(i) ==
    LET target == Target(ingest[i].command) IN
    i \in dropped[target] \/ (tables[target] # None /\ i \in tables[target])

(* "The number of records updated": the rows an ingest was acknowledged    *)
(* for are where its command says, unless a REPLACE dropped them since.    *)
CountIsStored == \A i \in acked : Stored(i)

(* An ingest that asked for a table of its own (fail or replace if it      *)
(* exists) never adds its rows to those of an ingest that was over before  *)
(* it began: however long the stream lasts after the existence test,       *)
(* whatever other ingests drop and create meanwhile, and even when the     *)
(* test was answered with the result of another call on the connection.    *)
FreshIsFresh ==
    \A table \in Tables :
        tables[table] # None =>
            \A i \in tables[table] \ {0} :
                ingest[i].command.if_exists \in {"FAIL", "REPLACE"}
                => tables[table] \cap ingest[i].before = {}

-----------------------------------------------------------------------------
(* The strengthening the proofs use.  A running ingest is one thread's, is *)
(* in the books and not over, and an ingest's "before" was over then...    *)
Books ==
    /\ \A t \in Threads : doing[t] = 0 <=> pc[t] = "idle"
    /\ \A t \in Threads : doing[t] # 0 => ingest[doing[t]] # None /\ doing[t] \notin over
    /\ \A t, u \in Threads : doing[t] = doing[u] /\ doing[t] # 0 => t = u
    /\ \A i \in Ids : ingest[i] # None => ingest[i].before \subseteq over
    /\ \A i \in over \ {0} : ingest[i] # None

(* ...rows and acknowledgements are those of ingests in the books...       *)
RowsKnown ==
    /\ \A table \in Tables : tables[table] # None =>
          \A i \in tables[table] \ {0} : ingest[i] # None
    /\ \A i \in acked : ingest[i] # None

(* ...and a thread about to insert into the table it created would not     *)
(* find older rows in it, nor has one about to reply lost its own.         *)
Pending ==
    \A t \in Threads :
        LET i == doing[t]
            target == Target(Command(t)) IN
        /\ pc[t] = "insert" /\ tables[target] # None => tables[target] \cap ingest[i].before = {}
        /\ pc[t] = "reply" => Stored(i)

=============================================================================
