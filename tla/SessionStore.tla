---------------------------- MODULE SessionStore ----------------------------
(***************************************************************************)
(* What lakehouse.session.SessionManager promises its callers, every       *)
(* operation taken as one indivisible step and no lock in sight.           *)
(*                                                                         *)
(* A session object is registered under one session id, is detached from   *)
(* it exactly once, and is then closed; statement and transaction handles  *)
(* live inside an open session and disappear when it closes.  Operations   *)
(* are addressed to a session OBJECT, not to an id: the code looks the     *)
(* object up first and works on it afterwards, so an operation may still   *)
(* reach a session that has been detached but not yet closed.              *)
(***************************************************************************)
EXTENDS Naturals, FiniteSets

CONSTANTS
    SessionIds,   \* the ids under which sessions are registered (gRPC peers)
    Sessions,     \* identities of the ClientSession objects ever built
    Handles,      \* identities of uuid4 statement and transaction handles
    None          \* Python's None

VARIABLES
    registry,     \* session id -> session object or None
    status,       \* session object -> "new" | "open" | "closed"
    prepared,     \* session object -> its prepared-statement handles
    openTxns,     \* session object -> its transaction handles
    issued        \* every handle given out so far

vars == <<registry, status, prepared, openTxns, issued>>

Registered == {registry[i] : i \in SessionIds} \ {None}

Init ==
    /\ registry = [i \in SessionIds |-> None]
    /\ status = [s \in Sessions |-> "new"]
    /\ prepared = [s \in Sessions |-> {}]
    /\ openTxns = [s \in Sessions |-> {}]
    /\ issued = {}

Create(i, s) ==
    /\ registry[i] = None
    /\ status[s] = "new"
    /\ registry' = [registry EXCEPT ![i] = s]
    /\ status' = [status EXCEPT ![s] = "open"]
    /\ UNCHANGED <<prepared, openTxns, issued>>

(* close_session detaches one id, close_all every id at once. *)
Detach(I) ==
    /\ registry' = [i \in SessionIds |-> IF i \in I THEN None ELSE registry[i]]
    /\ UNCHANGED <<status, prepared, openTxns, issued>>

Close(s) ==
    /\ status[s] = "open"
    /\ s \notin Registered
    /\ status' = [status EXCEPT ![s] = "closed"]
    /\ prepared' = [prepared EXCEPT ![s] = {}]
    /\ openTxns' = [openTxns EXCEPT ![s] = {}]
    /\ UNCHANGED <<registry, issued>>

AddStatement(s, h) ==
    /\ status[s] = "open"
    /\ h \notin issued
    /\ prepared' = [prepared EXCEPT ![s] = @ \cup {h}]
    /\ issued' = issued \cup {h}
    /\ UNCHANGED <<registry, status, openTxns>>

RemoveStatement(s, h) ==
    /\ h \in prepared[s]
    /\ prepared' = [prepared EXCEPT ![s] = @ \ {h}]
    /\ UNCHANGED <<registry, status, openTxns, issued>>

(* One transaction per session: DuckDB has one per connection. *)
Begin(s, h) ==
    /\ status[s] = "open"
    /\ openTxns[s] = {}
    /\ h \notin issued
    /\ openTxns' = [openTxns EXCEPT ![s] = {h}]
    /\ issued' = issued \cup {h}
    /\ UNCHANGED <<registry, status, prepared>>

End(s, h) ==
    /\ h \in openTxns[s]
    /\ openTxns' = [openTxns EXCEPT ![s] = @ \ {h}]
    /\ UNCHANGED <<registry, status, prepared, issued>>

Next ==
    \/ \E i \in SessionIds, s \in Sessions : Create(i, s)
    \/ \E I \in {SessionIds} \cup {{i} : i \in SessionIds} : Detach(I)
    \/ \E s \in Sessions : Close(s)
    \/ \E s \in Sessions, h \in Handles :
          \/ AddStatement(s, h)
          \/ RemoveStatement(s, h)
          \/ Begin(s, h)
          \/ End(s, h)

Spec == Init /\ [][Next]_vars

=============================================================================
