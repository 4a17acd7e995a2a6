------------------------- MODULE SessionManagerProps -------------------------
(***************************************************************************)
(* What must hold of the session map under every interleaving.             *)
(***************************************************************************)
EXTENDS SessionManager

CloseLabels == {"close_stmts", "close_txns", "close_conn"}
Labels == {"idle", "creating", "using", "await_session", "in_session",
           "close_cursor", "closing"} \cup CloseLabels

(* Every variable of the session layer ranges over its type. *)
TypeOK ==
    /\ registry \in [SessionIds -> Sessions \cup {None}]
    /\ mlock \in Threads \cup {None}
    /\ conn \in [Sessions -> {"new", "open", "closed"}]
    /\ prepared \in [Sessions -> SUBSET Handles]
    /\ openTxns \in [Sessions -> SUBSET Handles]
    /\ slock \in [Sessions -> Threads \cup {None}]
    /\ inTxn \in [Sessions -> BOOLEAN]
    /\ rawSql \in SUBSET Sessions
    /\ cursor \in [Handles -> {"new", "open", "closed"}]
    /\ issued \in SUBSET Handles
    /\ pc \in [Threads -> Labels]
    /\ op \in [Threads -> SessionOps \cup {None}]
    /\ at \in [Threads -> Sessions \cup {None}]
    /\ key \in [Threads -> Handles \cup SessionIds \cup {None}]
    /\ todo \in [Threads -> SUBSET Sessions]
    /\ \A t \in Threads : pc[t] = "using" => at[t] \in Sessions

-----------------------------------------------------------------------------
(* A closed session holds nothing: whatever call reached it late, no       *)
(* statement, transaction handle or DuckDB transaction survives close()    *)
(* or is added to it afterwards (ClientSession.close, and the window       *)
(* between the two locks of every SessionManager operation).               *)
ClosedIsReleased ==
    \A s \in Sessions : conn[s] = "closed" =>
        prepared[s] = {} /\ openTxns[s] = {} /\ ~inTxn[s]

(* An open session is reachable through exactly one id, or else exactly    *)
(* one thread has popped it and owes it a close(): no session is orphaned  *)
(* by a race and none is closed by two threads (close_session, close_all,  *)
(* get_or_create).                                                         *)
Owed(s) == \E t \in Threads : s \in todo[t]

OneOwner ==
    /\ \A s \in Sessions :
          /\ conn[s] = "open" <=> (s \in Registered \/ Owed(s))
          /\ ~(s \in Registered /\ Owed(s))
    /\ \A i, j \in SessionIds : registry[i] = registry[j] => i = j \/ registry[i] = None
    /\ \A t, u \in Threads : todo[t] \cap todo[u] # {} => t = u

(* No child cursor leaks and no handle dangles: the open cursors are       *)
(* exactly those of the handles in the tables, plus those a thread has     *)
(* popped and is about to close (close_prepared_statement closes after     *)
(* unlocking, close() before).                                             *)
CursorAccounting ==
    \A h \in Handles : cursor[h] = "open" <=>
        \/ \E s \in Sessions : h \in prepared[s]
        \/ \E t \in Threads : pc[t] = "close_cursor" /\ key[t] = h

(* The bookkeeping agrees with DuckDB: a session never has two transaction *)
(* handles, and, unless its client sent a transaction statement as SQL     *)
(* text, it has one exactly when its connection is in a transaction.       *)
TxnBookkeeping ==
    \A s \in Sessions :
        /\ \A g, h \in openTxns[s] : g = h
        /\ s \notin rawSql => (inTxn[s] <=> openTxns[s] # {})

(* Whoever removes a transaction handle leaves the connection outside any  *)
(* transaction, even when clients mix in SQL transaction statements        *)
(* (end_transaction's finally, close()).                                   *)
EndLeavesTransaction ==
    [][\A s \in Sessions :
          openTxns[s] \ openTxns'[s] # {} => ~inTxn'[s]]_vars

(* A session popped from the map is eventually closed, however many late   *)
(* calls still queue for its lock: none can find it any more, so with only *)
(* weak fairness the closer gets its turn.                                 *)
PoppedIsClosed ==
    \A s \in Sessions :
        (\E t \in Threads : s \in todo[t]) ~> conn[s] = "closed"

(* A call that waits for the lock of a popped session returns: closing a   *)
(* session hangs nobody.                                                   *)
LateCallsReturn ==
    \A t \in Threads :
        (pc[t] = "await_session" /\ at[t] \notin Registered) ~> pc[t] = "idle"

-----------------------------------------------------------------------------
(* The strengthening under which the properties above are inductive: who   *)
(* holds which lock, what a thread at each label may rely on, and what is  *)
(* already released while close() is under way.                            *)
HoldsSession == {"in_session"} \cup CloseLabels

LockInv ==
    /\ \A t \in Threads : mlock = t <=> pc[t] = "creating"
    /\ \A t \in Threads : pc[t] = "creating" =>
          key[t] \in SessionIds /\ registry[key[t]] = None
    /\ \A t \in Threads, s \in Sessions :
          slock[s] = t <=> pc[t] \in HoldsSession /\ at[t] = s

ThreadInv ==
    \A t \in Threads :
        /\ pc[t] \in {"using", "await_session", "close_cursor"} \cup HoldsSession =>
              at[t] \in Sessions /\ conn[at[t]] # "new"
        /\ pc[t] \in CloseLabels => at[t] \in todo[t]
        /\ todo[t] # {} => pc[t] \in {"closing"} \cup CloseLabels
        /\ pc[t] \in {"close_txns", "close_conn"} => prepared[at[t]] = {}
        /\ pc[t] = "close_conn" => openTxns[at[t]] = {}

(* Only an open session holds anything.                                    *)
OnlyOpenHolds ==
    \A s \in Sessions : conn[s] # "open" =>
        prepared[s] = {} /\ openTxns[s] = {} /\ ~inTxn[s]

(* A statement handle is used once: in one table, or by one closing thread. *)
HandleInv ==
    /\ \A h \in Handles : cursor[h] # "new" => h \in issued
    /\ \A s \in Sessions : prepared[s] \subseteq issued
    /\ \A r, s \in Sessions : prepared[r] \cap prepared[s] # {} => r = s
    /\ \A t \in Threads : pc[t] = "close_cursor" =>
          key[t] \in issued /\ \A s \in Sessions : key[t] \notin prepared[s]
    /\ \A t, u \in Threads :
          pc[t] = "close_cursor" /\ pc[u] = "close_cursor" /\ key[t] = key[u] => t = u

(* The locking discipline of the layer is what close() and every late call *)
(* rely on; every session property above follows from it by induction.     *)
Discipline == LockInv /\ ThreadInv /\ OnlyOpenHolds /\ HandleInv

-----------------------------------------------------------------------------
(* Refinement: seen through the locks, the layer is the atomic store.  A   *)
(* session counts as closed from the moment close() holds its lock.        *)
ClosingNow(s) == \E t \in Threads : pc[t] \in CloseLabels /\ at[t] = s

Store == INSTANCE SessionStore WITH
    status   <- [s \in Sessions |-> IF ClosingNow(s) THEN "closed" ELSE conn[s]],
    prepared <- [s \in Sessions |-> IF ClosingNow(s) THEN {} ELSE prepared[s]],
    openTxns <- [s \in Sessions |-> IF ClosingNow(s) THEN {} ELSE openTxns[s]]

(* The locked implementation implements the atomic specification.          *)
ImplementsStore == Store!Spec

=============================================================================
