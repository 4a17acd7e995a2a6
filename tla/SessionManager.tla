--------------------------- MODULE SessionManager ---------------------------
(***************************************************************************)
(* lakehouse.session: the session map shared by every gRPC worker thread.  *)
(*                                                                         *)
(* Two kinds of lock: the manager's _lock guards the id -> session map,    *)
(* each ClientSession's _lock guards its statement and transaction tables. *)
(* An operation on a session takes them one after the other, never both:   *)
(* it looks the object up under the first, releases it, and enters the     *)
(* second later.  Between the two the session may be popped and closed.    *)
(* SQL statements run on a session's connection under no lock at all.      *)
(*                                                                         *)
(* One worker action per critical section or per DuckDB call made outside  *)
(* one; close() is one action per resource it releases.                    *)
(***************************************************************************)
EXTENDS Naturals, FiniteSets

CONSTANTS
    Threads,      \* gRPC worker threads
    SessionIds,   \* values of _get_session_id(context)
    Sessions,     \* identities of ClientSession objects
    Handles,      \* identities of uuid4 handles; each is handed out once
    None          \* Python's None

ASSUME NoneAssumption == None \notin Sessions \cup Handles \cup Threads

VARIABLES
    registry,     \* SessionManager._sessions
    mlock,        \* SessionManager._lock: its owner or None
    conn,         \* session -> state of session.connection
    prepared,     \* session -> keys of session.prepared_statements
    openTxns,     \* session -> session.open_transactions
    slock,        \* session -> owner of session._lock or None
    inTxn,        \* session -> DuckDB's view: connection inside a transaction
    rawSql,       \* history: sessions sent BEGIN/COMMIT/ROLLBACK as SQL text
    cursor,       \* handle -> state of the statement's child cursor
    issued,       \* handles uuid4 has produced
    pc,           \* thread -> where it is
    op,           \* thread -> the operation it runs
    at,           \* thread -> its local `session`
    key,          \* thread -> its local `handle`
    todo          \* thread -> sessions it popped and has still to close

storeVars  == <<registry, conn, prepared, openTxns, inTxn, rawSql, cursor, issued>>
lockVars   == <<mlock, slock>>
threadVars == <<pc, op, at, key, todo>>
vars == <<storeVars, lockVars, threadVars>>

(* Operations that look the session up and then work under its lock. *)
SessionOps == {"add_prepared_statement", "get_prepared_statement",
               "close_prepared_statement", "begin_transaction",
               "end_transaction"}

Issuing == {"add_prepared_statement", "begin_transaction"}

(* The handle a client sends along: one it was given, or rubbish (None).   *)
Argument(o) == IF o \in Issuing THEN {None} ELSE issued \cup {None}

Registered == {registry[i] : i \in SessionIds} \ {None}

(* Bounds of the finite supplies: uuid4 and object identities never run    *)
(* out, so no call starts that the supply could leave stuck halfway.       *)
HandleSupply ==
    Cardinality({t \in Threads : op[t] \in Issuing}) < Cardinality(Handles \ issued)
SessionSupply == \E s \in Sessions : conn[s] = "new"

Init ==
    /\ registry = [i \in SessionIds |-> None]
    /\ mlock = None
    /\ conn = [s \in Sessions |-> "new"]
    /\ prepared = [s \in Sessions |-> {}]
    /\ openTxns = [s \in Sessions |-> {}]
    /\ slock = [s \in Sessions |-> None]
    /\ inTxn = [s \in Sessions |-> FALSE]
    /\ rawSql = {}
    /\ cursor = [h \in Handles |-> "new"]
    /\ issued = {}
    /\ pc = [t \in Threads |-> "idle"]
    /\ op = [t \in Threads |-> None]
    /\ at = [t \in Threads |-> None]
    /\ key = [t \in Threads |-> None]
    /\ todo = [t \in Threads |-> {}]

-----------------------------------------------------------------------------
(* Control flow of one thread. *)

Goto(t, label) == pc' = [pc EXCEPT ![t] = label]

Return(t) ==
    /\ Goto(t, "idle")
    /\ op' = [op EXCEPT ![t] = None]
    /\ at' = [at EXCEPT ![t] = None]
    /\ key' = [key EXCEPT ![t] = None]

AcquireSessionLock(t) ==
    /\ slock[at[t]] = None
    /\ slock' = [slock EXCEPT ![at[t]] = t]

ReleaseSessionLock(t) == slock' = [slock EXCEPT ![at[t]] = None]

(* Faulty variant: a manual release that one path forgets. *)
LeaveLocked(t) == Return(t) /\ UNCHANGED <<lockVars, todo>>

(* The `with session._lock` body of operation o ends, normally or not. *)
LeaveSession(t) == Return(t) /\ ReleaseSessionLock(t) /\ UNCHANGED <<mlock, todo>>

InSession(t, o) == pc[t] = "in_session" /\ op[t] = o

-----------------------------------------------------------------------------
(* get_or_create: the whole body runs under the manager's lock. *)

GetOrCreateFound(t, i) ==
    /\ pc[t] = "idle"
    /\ mlock = None
    /\ registry[i] # None
    /\ Goto(t, "using")
    /\ at' = [at EXCEPT ![t] = registry[i]]
    /\ UNCHANGED <<storeVars, lockVars, op, key, todo>>

(* Faulty variant: only the look-up is under the lock. *)
GetOrCreateUnlocked(t, i) ==
    /\ pc[t] = "idle"
    /\ mlock = None
    /\ registry[i] = None
    /\ SessionSupply
    /\ Goto(t, "creating")
    /\ key' = [key EXCEPT ![t] = i]
    /\ UNCHANGED <<storeVars, lockVars, op, at, todo>>

GetOrCreateMissing(t, i) ==
    /\ pc[t] = "idle"
    /\ mlock = None
    /\ registry[i] = None
    /\ SessionSupply
    /\ mlock' = t
    /\ Goto(t, "creating")
    /\ key' = [key EXCEPT ![t] = i]
    /\ UNCHANGED <<storeVars, slock, op, at, todo>>

(* db.cursor(), USE and SET ran: build the session and store it. *)
CreateSession(t, s) ==
    /\ pc[t] = "creating"
    /\ conn[s] = "new"
    /\ conn' = [conn EXCEPT ![s] = "open"]
    /\ registry' = [registry EXCEPT ![key[t]] = s]
    /\ mlock' = None
    /\ Goto(t, "using")
    /\ at' = [at EXCEPT ![t] = s]
    /\ key' = [key EXCEPT ![t] = None]
    /\ UNCHANGED <<prepared, openTxns, inTxn, rawSql, cursor, issued, slock, op, todo>>

(* db.cursor() or USE raised: no session is stored, the lock is released. *)
CreateFails(t) ==
    /\ pc[t] = "creating"
    /\ mlock' = None
    /\ Return(t)
    /\ UNCHANGED <<storeVars, slock, todo>>

(* The caller runs a statement on session.connection under no lock.  On a  *)
(* closed connection it raises; an ordinary statement leaves the           *)
(* transaction state alone; transaction statements sent as SQL change it   *)
(* behind open_transactions' back.                                         *)
UseSession(t) ==
    /\ pc[t] = "using"
    /\ Return(t)
    /\ \/ UNCHANGED <<inTxn, rawSql>>
       \/ /\ conn[at[t]] = "open"
          /\ inTxn' = [inTxn EXCEPT ![at[t]] = ~@]
          /\ rawSql' = rawSql \cup {at[t]}
    /\ UNCHANGED <<registry, conn, prepared, openTxns, cursor, issued, lockVars, todo>>

-----------------------------------------------------------------------------
(* The two critical sections of an operation on a session. *)

(* First section: find the session; KeyError (no step) if there is none. *)
LookUp(t, i, o, h) ==
    /\ pc[t] = "idle"
    /\ mlock = None
    /\ registry[i] # None
    /\ o \in Issuing => HandleSupply
    /\ Goto(t, "await_session")
    /\ op' = [op EXCEPT ![t] = o]
    /\ at' = [at EXCEPT ![t] = registry[i]]
    /\ key' = [key EXCEPT ![t] = h]
    /\ UNCHANGED <<storeVars, lockVars, todo>>

(* Faulty variant: the session is worked on without its lock. *)
EnterUnlocked(t) ==
    /\ pc[t] = "await_session"
    /\ Goto(t, "in_session")
    /\ UNCHANGED <<storeVars, lockVars, op, at, key, todo>>

EnterSession(t) ==
    /\ pc[t] = "await_session"
    /\ AcquireSessionLock(t)
    /\ Goto(t, "in_session")
    /\ UNCHANGED <<storeVars, mlock, op, at, key, todo>>

(* Faulty variant: the handle is stored before the cursor is asked for. *)
AddHandleFirst(t, h) ==
    /\ InSession(t, "add_prepared_statement")
    /\ h \notin issued
    /\ issued' = issued \cup {h}
    /\ cursor' = [cursor EXCEPT ![h] = IF conn[at[t]] = "open" THEN "open" ELSE @]
    /\ prepared' = [prepared EXCEPT ![at[t]] = @ \cup {h}]
    /\ LeaveSession(t)
    /\ UNCHANGED <<registry, conn, openTxns, inTxn, rawSql>>

(* add_prepared_statement: a closed connection refuses to give a cursor. *)
AddPreparedStatement(t, h) ==
    /\ InSession(t, "add_prepared_statement")
    /\ conn[at[t]] = "open"
    /\ h \notin issued
    /\ issued' = issued \cup {h}
    /\ cursor' = [cursor EXCEPT ![h] = "open"]
    /\ prepared' = [prepared EXCEPT ![at[t]] = @ \cup {h}]
    /\ LeaveSession(t)
    /\ UNCHANGED <<registry, conn, openTxns, inTxn, rawSql>>

(* The operations that fail, and get_prepared_statement, change nothing. *)
NoEffect(t) ==
    /\ LeaveSession(t)
    /\ UNCHANGED storeVars

AddRaises(t) ==
    /\ InSession(t, "add_prepared_statement")
    /\ conn[at[t]] # "open"
    /\ NoEffect(t)

GetPreparedStatement(t) == InSession(t, "get_prepared_statement") /\ NoEffect(t)

(* close_prepared_statement: pop under the lock, close the cursor after it. *)
PopPreparedStatement(t) ==
    /\ InSession(t, "close_prepared_statement")
    /\ key[t] \in prepared[at[t]]
    /\ prepared' = [prepared EXCEPT ![at[t]] = @ \ {key[t]}]
    /\ ReleaseSessionLock(t)
    /\ Goto(t, "close_cursor")
    /\ UNCHANGED <<registry, conn, openTxns, inTxn, rawSql, cursor, issued, mlock, op, at, key, todo>>

PopMissing(t) ==
    /\ InSession(t, "close_prepared_statement")
    /\ key[t] \notin prepared[at[t]]
    /\ NoEffect(t)

CloseCursor(t) ==
    /\ pc[t] = "close_cursor"
    /\ cursor' = [cursor EXCEPT ![key[t]] = "closed"]
    /\ Return(t)
    /\ UNCHANGED <<registry, conn, prepared, openTxns, inTxn, rawSql, issued, lockVars, todo>>

(* begin_transaction: ValueError when open_transactions is not empty... *)
BeginRefused(t) ==
    /\ InSession(t, "begin_transaction")
    /\ openTxns[at[t]] # {}
    /\ NoEffect(t)

(* ...and connection.begin() raises on a closed connection or inside a     *)
(* transaction; the handle is added only when it returned.                 *)
BeginRaises(t) ==
    /\ InSession(t, "begin_transaction")
    /\ openTxns[at[t]] = {}
    /\ conn[at[t]] # "open" \/ inTxn[at[t]]
    /\ NoEffect(t)

BeginTransaction(t, h) ==
    /\ InSession(t, "begin_transaction")
    /\ openTxns[at[t]] = {}
    /\ conn[at[t]] = "open"
    /\ ~inTxn[at[t]]
    /\ h \notin issued
    /\ issued' = issued \cup {h}
    /\ inTxn' = [inTxn EXCEPT ![at[t]] = TRUE]
    /\ openTxns' = [openTxns EXCEPT ![at[t]] = @ \cup {h}]
    /\ LeaveSession(t)
    /\ UNCHANGED <<registry, conn, prepared, rawSql, cursor>>

(* end_transaction: KeyError for an unknown handle... *)
EndUnknown(t) ==
    /\ InSession(t, "end_transaction")
    /\ key[t] \notin openTxns[at[t]]
    /\ NoEffect(t)

(* Faulty variants: no finally around the commit, so that a failing one    *)
(* leaves the handle; the handle discarded without ending the transaction. *)
EndWithoutFinally(t) ==
    /\ InSession(t, "end_transaction")
    /\ key[t] \in openTxns[at[t]]
    /\ inTxn' = [inTxn EXCEPT ![at[t]] = FALSE]
    /\ LeaveSession(t)
    /\ UNCHANGED <<registry, conn, prepared, openTxns, rawSql, cursor, issued>>

EndBookkeepingOnly(t) ==
    /\ InSession(t, "end_transaction")
    /\ key[t] \in openTxns[at[t]]
    /\ openTxns' = [openTxns EXCEPT ![at[t]] = @ \ {key[t]}]
    /\ LeaveSession(t)
    /\ UNCHANGED <<registry, conn, prepared, inTxn, rawSql, cursor, issued>>

(* ...else commit or rollback; returned or raised, DuckDB has left the     *)
(* transaction and the finally clause discards the handle.                 *)
EndTransaction(t) ==
    /\ InSession(t, "end_transaction")
    /\ key[t] \in openTxns[at[t]]
    /\ inTxn' = [inTxn EXCEPT ![at[t]] = FALSE]
    /\ openTxns' = [openTxns EXCEPT ![at[t]] = @ \ {key[t]}]
    /\ LeaveSession(t)
    /\ UNCHANGED <<registry, conn, prepared, rawSql, cursor, issued>>

-----------------------------------------------------------------------------
(* close_session and close_all: pop under the manager's lock, close after. *)

(* Faulty variant: the `if session is None` test is missing. *)
CloseSessionUnchecked(t, i) ==
    /\ pc[t] = "idle"
    /\ mlock = None
    /\ todo' = [todo EXCEPT ![t] = {registry[i]}]
    /\ registry' = [registry EXCEPT ![i] = None]
    /\ Goto(t, "closing")
    /\ UNCHANGED <<conn, prepared, openTxns, inTxn, rawSql, cursor, issued, lockVars, op, at, key>>

CloseSession(t, i) ==
    /\ pc[t] = "idle"
    /\ mlock = None
    /\ registry[i] # None
    /\ todo' = [todo EXCEPT ![t] = {registry[i]}]
    /\ registry' = [registry EXCEPT ![i] = None]
    /\ Goto(t, "closing")
    /\ UNCHANGED <<conn, prepared, openTxns, inTxn, rawSql, cursor, issued, lockVars, op, at, key>>

(* Faulty variant: the map is not cleared. *)
CloseAllKeepsMap(t) ==
    /\ pc[t] = "idle"
    /\ mlock = None
    /\ todo' = [todo EXCEPT ![t] = Registered]
    /\ Goto(t, "closing")
    /\ UNCHANGED <<storeVars, lockVars, op, at, key>>

CloseAll(t) ==
    /\ pc[t] = "idle"
    /\ mlock = None
    /\ todo' = [todo EXCEPT ![t] = Registered]
    /\ registry' = [i \in SessionIds |-> None]
    /\ Goto(t, "closing")
    /\ UNCHANGED <<conn, prepared, openTxns, inTxn, rawSql, cursor, issued, lockVars, op, at, key>>

(* ClientSession.close of the next popped session. *)
CloseEnter(t, s) ==
    /\ pc[t] = "closing"
    /\ s \in todo[t]
    /\ slock[s] = None
    /\ slock' = [slock EXCEPT ![s] = t]
    /\ at' = [at EXCEPT ![t] = s]
    /\ Goto(t, "close_stmts")
    /\ UNCHANGED <<storeVars, mlock, op, key, todo>>

(* Faulty variant: the table is cleared, the cursors are not closed. *)
ForgetStatements(t) ==
    /\ pc[t] = "close_stmts"
    /\ prepared' = [prepared EXCEPT ![at[t]] = {}]
    /\ Goto(t, "close_txns")
    /\ UNCHANGED <<registry, conn, openTxns, inTxn, rawSql, cursor, issued, lockVars, op, at, key, todo>>

CloseStatements(t) ==
    /\ pc[t] = "close_stmts"
    /\ cursor' = [h \in Handles |-> IF h \in prepared[at[t]] THEN "closed" ELSE cursor[h]]
    /\ prepared' = [prepared EXCEPT ![at[t]] = {}]
    /\ Goto(t, "close_txns")
    /\ UNCHANGED <<registry, conn, openTxns, inTxn, rawSql, issued, lockVars, op, at, key, todo>>

(* Roll back only if a handle is open; an error of the rollback is logged. *)
RollBackOpen(t) ==
    /\ pc[t] = "close_txns"
    /\ inTxn' = [inTxn EXCEPT ![at[t]] = @ /\ openTxns[at[t]] = {}]
    /\ openTxns' = [openTxns EXCEPT ![at[t]] = {}]
    /\ Goto(t, "close_conn")
    /\ UNCHANGED <<registry, conn, prepared, rawSql, cursor, issued, lockVars, op, at, key, todo>>

(* Faulty variant: close() leaves the session locked. *)
CloseLocked(t) ==
    /\ pc[t] = "close_conn"
    /\ conn' = [conn EXCEPT ![at[t]] = "closed"]
    /\ inTxn' = [inTxn EXCEPT ![at[t]] = FALSE]
    /\ todo' = [todo EXCEPT ![t] = @ \ {at[t]}]
    /\ at' = [at EXCEPT ![t] = None]
    /\ Goto(t, "closing")
    /\ UNCHANGED <<registry, prepared, openTxns, rawSql, cursor, issued, lockVars, op, key>>

(* connection.close() drops whatever transaction is left, then unlock. *)
CloseConnection(t) ==
    /\ pc[t] = "close_conn"
    /\ conn' = [conn EXCEPT ![at[t]] = "closed"]
    /\ inTxn' = [inTxn EXCEPT ![at[t]] = FALSE]
    /\ ReleaseSessionLock(t)
    /\ todo' = [todo EXCEPT ![t] = @ \ {at[t]}]
    /\ at' = [at EXCEPT ![t] = None]
    /\ Goto(t, "closing")
    /\ UNCHANGED <<registry, prepared, openTxns, rawSql, cursor, issued, mlock, op, key>>

CloseReturns(t) ==
    /\ pc[t] = "closing"
    /\ todo[t] = {}
    /\ Return(t)
    /\ UNCHANGED <<storeVars, lockVars, todo>>

-----------------------------------------------------------------------------
(* A call a thread may start when idle. *)
Call(t) ==
    \/ \E i \in SessionIds :
          \/ GetOrCreateFound(t, i)
          \/ GetOrCreateMissing(t, i)
          \/ CloseSession(t, i)
          \/ \E o \in SessionOps : \E h \in Argument(o) : LookUp(t, i, o, h)
    \/ CloseAll(t)

(* The steps that carry a started call to its end. *)
Work(t) ==
    \/ \E s \in Sessions : CreateSession(t, s)
    \/ CreateFails(t)
    \/ UseSession(t)
    \/ EnterSession(t)
    \/ \E h \in Handles : AddPreparedStatement(t, h)
    \/ AddRaises(t)
    \/ GetPreparedStatement(t)
    \/ PopPreparedStatement(t)
    \/ PopMissing(t)
    \/ CloseCursor(t)
    \/ BeginRefused(t)
    \/ BeginRaises(t)
    \/ \E h \in Handles : BeginTransaction(t, h)
    \/ EndUnknown(t)
    \/ EndTransaction(t)
    \/ \E s \in Sessions : CloseEnter(t, s)
    \/ CloseStatements(t)
    \/ RollBackOpen(t)
    \/ CloseConnection(t)
    \/ CloseReturns(t)

Next == \E t \in Threads : Call(t) \/ Work(t)

Spec == Init /\ [][Next]_vars

(* Threads are scheduled; a started call keeps running.  Nothing says that *)
(* a call is ever made, nor that a contended lock is granted fairly.       *)
FairSpec == Spec /\ \A t \in Threads : WF_vars(Work(t))

=============================================================================
