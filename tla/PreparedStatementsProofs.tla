----------------------- MODULE PreparedStatementsProofs -----------------------
(***************************************************************************)
(* Prepared statements: what runs was open when it was asked for and the   *)
(* session's own, the metadata follows the session's table, and what runs  *)
(* on the session's connection shares the fate of its transaction.  For    *)
(* any number of clients, threads, handles and executions.                 *)
(***************************************************************************)
EXTENDS PreparedStatementsProps, SequenceTheorems, TLAPS

(* A transaction's outcome is recorded in the execution's record. *)
LEMMA SettledTypes ==
  ASSUME NEW e \in Execution, NEW outcome \in {"committed", "undone"}
  PROVE  [e EXCEPT !.state = outcome] \in Execution
  BY DEF Execution

(* An execution appends a record of the right shape to the log. *)
LEMMA RunTypes ==
  ASSUME TypeOK,
         NEW r, r.client \in Clients, r.handle \in Handles \cup {None}, r.live \in BOOLEAN,
         NEW via \in Vias,
         Run(r, via)
  PROVE  log' \in Seq(Execution)
<1> DEFINE e == [client |-> r.client, handle |-> r.handle, via |-> via, live |-> r.live,
                 txn |-> txnId[r.client],
                 state |-> IF OnSession(via) /\ txn[r.client] # "none"
                           THEN "pending" ELSE "committed"]
<1>1. txnId[r.client] \in Nat
  BY DEF TypeOK
<1>2. e \in Execution
  BY <1>1 DEF Execution
<1>3. log' = Append(log, e)
  BY DEF Run
<1>4. log \in Seq(Execution)
  BY DEF TypeOK
<1> HIDE DEF e
<1>. QED
  BY <1>2, <1>3, <1>4

(* A handler executes for the statement of its own locals. *)
LEMMA RunOfThread ==
  ASSUME TypeOK, NEW t \in Threads, pc[t] # "idle",
         NEW via \in Vias,
         RunIfWrites(rpc[t], via)
  PROVE  log' \in Seq(Execution)
<1>1. CASE Writes(rpc[t].kind)
  <2>1. rpc[t].client \in Clients /\ rpc[t].handle \in Handles \cup {None}
        /\ rpc[t].live \in BOOLEAN
    BY DEF TypeOK, Locals
  <2>2. Run(rpc[t], via)
    BY <1>1 DEF RunIfWrites
  <2>. QED
    BY <2>1, <2>2, RunTypes
<1>2. CASE ~Writes(rpc[t].kind)
  BY <1>2 DEF RunIfWrites, TypeOK
<1>. QED
  BY <1>1, <1>2

(* Every variable of the prepared-statement handlers keeps its type. *)
THEOREM TypeCorrect == Spec => []TypeOK
<1>1. Init => TypeOK
  BY DEF Init, TypeOK
<1>2. TypeOK /\ [Next]_vars => TypeOK'
  <2> SUFFICES ASSUME TypeOK, [Next]_vars PROVE TypeOK'
    OBVIOUS
  <2> DEFINE HandlersOK ==
        /\ pc \in [Threads -> {"idle", "store_meta", "pop_meta", "eager", "get", "bind", "update"}]
        /\ rpc \in [Threads -> Locals \cup {None}]
        /\ \A t \in Threads : pc[t] # "idle" => rpc[t] \in Locals
  <2>1. ASSUME NEW t \in Threads, NEW c \in Clients, NEW h \in Handles,
               NEW label \in {"pop_meta", "eager", "get", "bind", "update"},
               Enter(t, label, c, h)
        PROVE  HandlersOK'
    <3> DEFINE r == [client |-> c, handle |-> h, kind |-> MetaOf(c, h), live |-> Open(c, h)]
    <3>1. MetaOf(c, h) \in Kinds \cup {None} /\ Open(c, h) \in BOOLEAN
      BY DEF TypeOK, MetaOf, Open, Closing
    <3>2. r \in Locals
      BY <3>1 DEF Locals
    <3>3. rpc' = [rpc EXCEPT ![t] = r] /\ pc' = [pc EXCEPT ![t] = label]
      BY <2>1 DEF Enter
    <3> HIDE DEF r
    <3>. QED
      BY <3>2, <3>3 DEF TypeOK
  <2>2. ASSUME NEW t \in Threads, Reply(t)
        PROVE  HandlersOK'
    BY <2>2 DEF Reply, TypeOK
  <2>3. ASSUME NEW t \in Threads, pc[t] # "idle"
        PROVE  /\ rpc[t] \in Locals
               /\ rpc[t].client \in Clients /\ rpc[t].handle \in Handles
               /\ rpc[t].kind \in Kinds \cup {None} /\ rpc[t].live \in BOOLEAN
    BY <2>3 DEF TypeOK, Locals
  <2>4. ASSUME HandlersOK', UNCHANGED <<tables, slot, txnVars, log, skipped>>
        PROVE  TypeOK'
    BY <2>4 DEF TypeOK, tables, txnVars
  <2>. HIDE DEF HandlersOK
  <2>5. ASSUME NEW t \in Threads, NEW c \in Clients, NEW h \in Handles, NEW k \in Kinds,
               CreateAddCursor(t, c, h, k)
        PROVE  TypeOK'
    <3> DEFINE r == [client |-> c, handle |-> h, kind |-> k, live |-> TRUE]
    <3>1. r \in Locals
      BY DEF Locals
    <3>2. rpc' = [rpc EXCEPT ![t] = r] /\ pc' = [pc EXCEPT ![t] = "store_meta"]
      BY <2>5 DEF CreateAddCursor
    <3> HIDE DEF r
    <3>3. HandlersOK'
      BY <3>1, <3>2 DEF TypeOK, HandlersOK
    <3>4. creator' \in [Handles -> Clients \cup {None}] /\ table' \in [Clients -> SUBSET Handles]
      BY <2>5 DEF CreateAddCursor, TypeOK
    <3>. QED
      BY <2>5, <3>3, <3>4 DEF CreateAddCursor, TypeOK, HandlersOK, txnVars
  <2>6. ASSUME NEW t \in Threads, CreateStoreMeta(t) \/ ClosePopMeta(t)
        PROVE  TypeOK'
    <3>1. pc[t] # "idle" /\ Reply(t) /\ UNCHANGED <<table, creator, slot, txnVars, log, skipped>>
      BY <2>6 DEF CreateStoreMeta, ClosePopMeta
    <3>2. meta' \in [Clients \X Handles -> Kinds \cup {None}]
      BY <2>6, <3>1, <2>3 DEF CreateStoreMeta, ClosePopMeta, TypeOK
    <3>. QED
      BY <3>1, <3>2, <2>2 DEF TypeOK, HandlersOK, txnVars
  <2>7. ASSUME NEW t \in Threads, NEW c \in Clients, NEW h \in Handles, ClosePopCursor(t, c, h)
        PROVE  TypeOK'
    <3>1. HandlersOK'
      BY <2>7, <2>1 DEF ClosePopCursor
    <3>2. table' \in [Clients -> SUBSET Handles] /\ slot' \in [Handles -> {"none", "rows"}]
      BY <2>7 DEF ClosePopCursor, TypeOK
    <3>. QED
      BY <2>7, <3>1, <3>2 DEF ClosePopCursor, TypeOK, HandlersOK, txnVars
  <2>8. ASSUME NEW t \in Threads, NEW c \in Clients, NEW h \in Handles,
               \/ GetFlightInfo(t, c, h) \/ DoGet(t, c, h)
               \/ DoPutQuery(t, c, h) \/ DoPutUpdate(t, c, h)
        PROVE  TypeOK'
    <3>1. UNCHANGED <<tables, slot, txnVars, log, skipped>>
      BY <2>8 DEF GetFlightInfo, DoGet, DoPutQuery, DoPutUpdate
    <3>2. HandlersOK'
      BY <2>8, <2>1 DEF GetFlightInfo, DoGet, DoPutQuery, DoPutUpdate
    <3>. QED
      BY <3>1, <3>2, <2>4
  <2>9. ASSUME NEW t \in Threads, NEW c \in Clients, NEW h \in Handles, GetFlightInfoOnly(t, c, h)
        PROVE  TypeOK'
    <3>1. [client |-> c, handle |-> h, live |-> h \in table[c]] \in
             [client : Clients, handle : Handles, live : BOOLEAN]
      OBVIOUS
    <3>2. skipped' \subseteq [client : Clients, handle : Handles, live : BOOLEAN]
      BY <2>9, <3>1 DEF GetFlightInfoOnly, TypeOK
    <3>. QED
      BY <2>9, <3>2 DEF GetFlightInfoOnly, TypeOK, tables, txnVars, handlers
  <2>10. ASSUME NEW t \in Threads, EagerExecute(t)
         PROVE  TypeOK'
    <3>1. [client |-> rpc[t].client, handle |-> rpc[t].handle, live |-> rpc[t].live] \in
             [client : Clients, handle : Handles, live : BOOLEAN]
      BY <2>10, <2>3 DEF EagerExecute
    <3>2. skipped' \subseteq [client : Clients, handle : Handles, live : BOOLEAN]
      BY <2>10, <3>1 DEF EagerExecute, TypeOK
    <3>3. log' \in Seq(Execution)
      BY <2>10, RunOfThread DEF EagerExecute, Vias
    <3>4. Reply(t)
      BY <2>10 DEF EagerExecute
    <3>. QED
      BY <2>10, <3>2, <3>3, <3>4, <2>2 DEF EagerExecute, TypeOK, HandlersOK, tables, txnVars
  <2>11. ASSUME NEW c \in Clients, NEW after \in AfterError(c)
         PROVE  [txn EXCEPT ![c] = after] \in [Clients -> {"none", "active", "aborted"}]
    BY <2>11 DEF AfterError, TypeOK
  <2>12. ASSUME NEW t \in Threads, EagerRaises(t)
         PROVE  TypeOK'
    <3>1. PICK c \in Clients : c = rpc[t].client
      BY <2>12, <2>3 DEF EagerRaises
    <3>2. txn' \in [Clients -> {"none", "active", "aborted"}]
      BY <2>12, <3>1, <2>11 DEF EagerRaises
    <3>3. Reply(t)
      BY <2>12 DEF EagerRaises
    <3>. QED
      BY <2>12, <3>2, <3>3, <2>2 DEF EagerRaises, TypeOK, HandlersOK, tables
  <2>13. ASSUME NEW t \in Threads,
                \/ DoGetPending(t) \/ DoGetNothing(t) \/ BindRaises(t)
                \/ BindEmpty(t) \/ UpdateRaises(t)
         PROVE  TypeOK'
    <3>1. Reply(t) /\ UNCHANGED <<tables, txnVars, log, skipped>>
      BY <2>13 DEF DoGetPending, DoGetNothing, BindRaises, BindEmpty, UpdateRaises
    <3>2. slot' \in [Handles -> {"none", "rows"}]
      BY <2>13 DEF DoGetPending, DoGetNothing, BindRaises, BindEmpty, UpdateRaises, TypeOK
    <3>. QED
      BY <3>1, <3>2, <2>2 DEF TypeOK, HandlersOK, tables, txnVars
  <2>14. ASSUME NEW t \in Threads, DoGetExecute(t) \/ BindExecute(t) \/ UpdateExecute(t)
         PROVE  TypeOK'
    <3>1. Reply(t) /\ UNCHANGED <<tables, txnVars, skipped>>
      BY <2>14 DEF DoGetExecute, BindExecute, UpdateExecute
    <3>2. slot' \in [Handles -> {"none", "rows"}]
      BY <2>14 DEF DoGetExecute, BindExecute, UpdateExecute, TypeOK
    <3>3. log' \in Seq(Execution)
      BY <2>14, RunOfThread DEF DoGetExecute, BindExecute, UpdateExecute, Vias
    <3>. QED
      BY <3>1, <3>2, <3>3, <2>2 DEF TypeOK, HandlersOK, tables, txnVars
  <2>15. ASSUME NEW c \in Clients, StatementUpdate(c)
         PROVE  TypeOK'
    <3>1. log' \in Seq(Execution)
      BY <2>15, RunTypes DEF StatementUpdate, Vias
    <3>. QED
      BY <2>15, <3>1 DEF StatementUpdate, TypeOK, tables, txnVars, handlers
  <2>16. ASSUME NEW c \in Clients, StatementRaises(c)
         PROVE  TypeOK'
    <3>1. txn' \in [Clients -> {"none", "active", "aborted"}]
      BY <2>16, <2>11 DEF StatementRaises
    <3>. QED
      BY <2>16, <3>1 DEF StatementRaises, TypeOK, tables, handlers
  <2>17. ASSUME NEW c \in Clients, BeginTransaction(c)
         PROVE  TypeOK'
    BY <2>17 DEF BeginTransaction, TypeOK, tables, handlers
  <2>18. ASSUME NEW c \in Clients, NEW commit \in BOOLEAN, EndTransaction(c, commit)
         PROVE  TypeOK'
    <3> DEFINE outcome == IF commit /\ txn[c] = "active" THEN "committed" ELSE "undone"
    <3>1. outcome \in {"committed", "undone"} /\ Settle(c, outcome)
      BY <2>18 DEF EndTransaction
    <3> HIDE DEF outcome
    <3>2. log \in Seq(Execution)
      BY DEF TypeOK
    <3>3. log' \in Seq(Execution)
      <4>1. DOMAIN log = 1..Len(log) /\ Len(log) \in Nat
        BY <3>2
      <4>2. ASSUME NEW n \in DOMAIN log
            PROVE  log[n] \in Execution
        BY <3>2
      <4>3. log' \in [1..Len(log) -> Execution]
        BY <3>1, <4>1, <4>2, SettledTypes DEF Settle
      <4>. QED
        BY <4>1, <4>3
    <3>. QED
      BY <2>18, <3>3 DEF EndTransaction, TypeOK, tables, handlers
  <2>19. CASE UNCHANGED vars
    BY <2>19 DEF vars, tables, txnVars, handlers, TypeOK
  <2>20. ASSUME NEW t \in Threads, Request(t)
         PROVE  TypeOK'
    BY <2>20, <2>5, <2>7, <2>8, <2>9 DEF Request
  <2>21. ASSUME NEW t \in Threads, Handle(t)
         PROVE  TypeOK'
    BY <2>21, <2>6, <2>10, <2>12, <2>13, <2>14 DEF Handle
  <2>. QED
    BY <2>15, <2>16, <2>17, <2>18, <2>19, <2>20, <2>21 DEF Next
<1>. QED
  BY <1>1, <1>2, PTL DEF Spec

-----------------------------------------------------------------------------
(* The handlers that may run SQL, once they have found the statement. *)
Runners == {"eager", "get", "bind", "update"}

Enters(t, c, h) ==
    /\ h \in table[c] \/ meta[<<c, h>>] # None
    /\ \E label \in Runners : Enter(t, label, c, h)
    /\ UNCHANGED tables

Leaves(t) ==
    /\ pc[t] \in Runners
    /\ Reply(t)
    /\ UNCHANGED tables

(* What a step can do to the two tables and to the handlers. *)
LEMMA HandlerSteps ==
  ASSUME TypeOK, [Next]_vars
  PROVE  \/ UNCHANGED <<tables, handlers>>
         \/ \E t \in Threads : Leaves(t) \/ CreateStoreMeta(t) \/ ClosePopMeta(t)
         \/ \E t \in Threads, c \in Clients, h \in Handles :
               \/ Enters(t, c, h)
               \/ \E k \in Kinds : CreateAddCursor(t, c, h, k)
               \/ Returned(h) /\ ClosePopCursor(t, c, h)
<1>1. ASSUME NEW t \in Threads, NEW c \in Clients, NEW h \in Handles,
             \/ GetFlightInfo(t, c, h) \/ DoGet(t, c, h)
             \/ DoPutQuery(t, c, h) \/ DoPutUpdate(t, c, h)
      PROVE  Enters(t, c, h)
  <2>1. CASE GetFlightInfo(t, c, h)
    BY <2>1 DEF GetFlightInfo, EagerlyRun, MetaOf, Enters, Runners
  <2>2. CASE DoGet(t, c, h) \/ DoPutQuery(t, c, h) \/ DoPutUpdate(t, c, h)
    BY <2>2 DEF DoGet, DoPutQuery, DoPutUpdate, Enters, Runners
  <2>. QED
    BY <1>1, <2>1, <2>2
<1>2. ASSUME NEW t \in Threads, Handle(t)
      PROVE  Leaves(t) \/ CreateStoreMeta(t) \/ ClosePopMeta(t)
  BY <1>2 DEF Handle, EagerExecute, EagerRaises, DoGetPending, DoGetExecute, DoGetNothing,
              BindExecute, BindRaises, BindEmpty, UpdateExecute, UpdateRaises, Leaves, Runners
<1>3. ASSUME NEW t \in Threads, NEW c \in Clients, NEW h \in Handles, GetFlightInfoOnly(t, c, h)
      PROVE  UNCHANGED <<tables, handlers>>
  BY <1>3 DEF GetFlightInfoOnly
<1>4. ASSUME NEW c \in Clients,
             \/ StatementUpdate(c) \/ StatementRaises(c) \/ BeginTransaction(c)
             \/ \E commit \in BOOLEAN : EndTransaction(c, commit)
      PROVE  UNCHANGED <<tables, handlers>>
  BY <1>4 DEF StatementUpdate, StatementRaises, BeginTransaction, EndTransaction
<1>5. CASE UNCHANGED vars
  BY <1>5 DEF vars
<1>6. ASSUME NEW t \in Threads, Request(t)
      PROVE  \/ UNCHANGED <<tables, handlers>>
             \/ \E c \in Clients, h \in Handles :
                   \/ Enters(t, c, h)
                   \/ \E k \in Kinds : CreateAddCursor(t, c, h, k)
                   \/ Returned(h) /\ ClosePopCursor(t, c, h)
  BY <1>6, <1>1, <1>3 DEF Request
<1>. QED
  BY <1>2, <1>4, <1>5, <1>6 DEF Next

(* Whose a statement is, and where, at every moment of its life. *)
Custody ==
    /\ \A c \in Clients, h \in Handles : h \in table[c] => creator[h] = c
    /\ \A c \in Clients, h \in Handles : meta[<<c, h>>] # None => creator[h] = c
    /\ \A t \in Threads : pc[t] = "store_meta" =>
          rpc[t].handle \in table[rpc[t].client] /\ rpc[t].kind # None
    /\ \A t \in Threads : pc[t] = "pop_meta" =>
          creator[rpc[t].handle] # None /\ rpc[t].handle \notin table[rpc[t].client]
    /\ \A t \in Threads : pc[t] \in Runners =>
          creator[rpc[t].handle] = rpc[t].client /\ rpc[t].live

(* Every statement of a session's table has its metadata, or will have it  *)
(* before its handle is known to any client.                               *)
TableHasMeta ==
    \A c \in Clients, h \in Handles : h \in table[c] =>
        \/ meta[<<c, h>>] # None
        \/ \E t \in Threads :
              pc[t] = "store_meta" /\ rpc[t].client = c /\ rpc[t].handle = h

(* Custody, and with it both directions between the table and the          *)
(* metadata, is inductive given the types.                                 *)
LEMMA CustodyStep ==
  ASSUME TypeOK, TypeOK', Custody, MetaFollowsTable, TableHasMeta, [Next]_vars
  PROVE  Custody' /\ MetaFollowsTable' /\ TableHasMeta'
<1> USE NoneAssumption, KindsAssumption DEF Custody, MetaFollowsTable, TableHasMeta
<1>0. ASSUME NEW t \in Threads, pc[t] # "idle"
      PROVE  /\ rpc[t].client \in Clients /\ rpc[t].handle \in Handles
             /\ rpc[t].kind \in Kinds \cup {None} /\ rpc[t].live \in BOOLEAN
  BY <1>0 DEF TypeOK, Locals
<1>1. CASE UNCHANGED <<tables, handlers>>
  BY <1>1 DEF tables, handlers, Open, Closing
<1>2. ASSUME NEW t \in Threads, Leaves(t)
      PROVE  Custody' /\ MetaFollowsTable' /\ TableHasMeta'
  <2>1. /\ pc[t] \notin {"store_meta", "pop_meta"} /\ pc'[t] = "idle" /\ UNCHANGED tables
        /\ \A u \in Threads : u # t => pc'[u] = pc[u] /\ rpc'[u] = rpc[u]
    BY <1>2 DEF Leaves, Reply, Runners, TypeOK
  <2>. QED
    BY <2>1 DEF tables, Open, Closing, Runners
<1>3. ASSUME NEW t \in Threads, NEW c \in Clients, NEW h \in Handles, Enters(t, c, h)
      PROVE  Custody' /\ MetaFollowsTable' /\ TableHasMeta'
  <2>1. Open(c, h) /\ creator[h] = c
    BY <1>3 DEF Enters, Open
  <2>2. /\ pc[t] = "idle" /\ pc'[t] \in Runners /\ UNCHANGED <<table, meta, creator>>
        /\ rpc'[t].client = c /\ rpc'[t].handle = h /\ rpc'[t].live
        /\ \A u \in Threads : u # t => pc'[u] = pc[u] /\ rpc'[u] = rpc[u]
    BY <1>3, <2>1 DEF Enters, Enter, TypeOK, tables
  <2>3. Custody'
    BY <2>1, <2>2 DEF Runners
  <2>4. MetaFollowsTable' /\ TableHasMeta'
    BY <2>2 DEF Open, Closing, Runners
  <2>. QED
    BY <2>3, <2>4
<1>4. ASSUME NEW t \in Threads, CreateStoreMeta(t)
      PROVE  Custody' /\ MetaFollowsTable' /\ TableHasMeta'
  <2>1. PICK c \in Clients, h \in Handles, k \in Kinds :
           c = rpc[t].client /\ h = rpc[t].handle /\ k = rpc[t].kind
    BY <1>0, <1>4 DEF CreateStoreMeta
  <2>2. /\ pc[t] = "store_meta" /\ pc'[t] = "idle" /\ UNCHANGED <<table, creator>>
        /\ meta'[<<c, h>>] = k /\ k # None
        /\ \A d \in Clients, g \in Handles : <<d, g>> # <<c, h>> => meta'[<<d, g>>] = meta[<<d, g>>]
        /\ \A u \in Threads : u # t => pc'[u] = pc[u] /\ rpc'[u] = rpc[u]
    BY <1>4, <2>1 DEF CreateStoreMeta, Reply, TypeOK
  <2>. QED
    BY <2>1, <2>2 DEF Open, Closing, Runners
<1>5. ASSUME NEW t \in Threads, ClosePopMeta(t)
      PROVE  Custody' /\ MetaFollowsTable' /\ TableHasMeta'
  <2>1. PICK c \in Clients, h \in Handles : c = rpc[t].client /\ h = rpc[t].handle
    BY <1>0, <1>5 DEF ClosePopMeta
  <2>2. /\ pc[t] = "pop_meta" /\ pc'[t] = "idle" /\ UNCHANGED <<table, creator>>
        /\ meta'[<<c, h>>] = None
        /\ \A d \in Clients, g \in Handles : <<d, g>> # <<c, h>> => meta'[<<d, g>>] = meta[<<d, g>>]
        /\ \A u \in Threads : u # t => pc'[u] = pc[u] /\ rpc'[u] = rpc[u]
    BY <1>5, <2>1 DEF ClosePopMeta, Reply, TypeOK
  <2>. QED
    BY <2>1, <2>2 DEF Open, Closing, Runners
<1>6. ASSUME NEW t \in Threads, NEW c \in Clients, NEW h \in Handles, NEW k \in Kinds,
             CreateAddCursor(t, c, h, k)
      PROVE  Custody' /\ MetaFollowsTable' /\ TableHasMeta'
  <2>1. /\ pc[t] = "idle" /\ pc'[t] = "store_meta" /\ UNCHANGED meta
        /\ rpc'[t].client = c /\ rpc'[t].handle = h /\ rpc'[t].kind = k
        /\ creator[h] = None /\ creator'[h] = c
        /\ \A g \in Handles : g # h => creator'[g] = creator[g]
        /\ table'[c] = table[c] \cup {h}
        /\ \A d \in Clients : d # c => table'[d] = table[d]
        /\ \A u \in Threads : u # t => pc'[u] = pc[u] /\ rpc'[u] = rpc[u]
    BY <1>6 DEF CreateAddCursor, TypeOK
  <2>2. Custody'
    BY <2>1, <1>0 DEF Runners
  <2>3. MetaFollowsTable'
    BY <2>1, <1>0 DEF Open, Closing, Runners
  <2>4. TableHasMeta'
    BY <2>1, <1>0
  <2>. QED
    BY <2>2, <2>3, <2>4
<1>7. ASSUME NEW t \in Threads, NEW c \in Clients, NEW h \in Handles,
             Returned(h), ClosePopCursor(t, c, h)
      PROVE  Custody' /\ MetaFollowsTable' /\ TableHasMeta'
  <2>1. /\ pc[t] = "idle" /\ pc'[t] = "pop_meta" /\ UNCHANGED <<meta, creator>>
        /\ rpc'[t].client = c /\ rpc'[t].handle = h
        /\ table'[c] = table[c] \ {h}
        /\ \A d \in Clients : d # c => table'[d] = table[d]
        /\ \A u \in Threads : u # t => pc'[u] = pc[u] /\ rpc'[u] = rpc[u]
    BY <1>7 DEF ClosePopCursor, Enter, TypeOK
  <2>2. creator[h] # None /\ \A u \in Threads : ~(pc[u] = "store_meta" /\ rpc[u].handle = h)
    BY <1>7 DEF Returned
  <2>3. Custody'
    BY <2>1, <2>2, <1>0 DEF Runners
  <2>4. MetaFollowsTable'
    BY <2>1 DEF Open, Closing, Runners
  <2>5. TableHasMeta'
    <3> SUFFICES ASSUME NEW d \in Clients, NEW g \in Handles, g \in table'[d]
                 PROVE  \/ meta'[<<d, g>>] # None
                        \/ \E u \in Threads :
                              pc'[u] = "store_meta" /\ rpc'[u].client = d /\ rpc'[u].handle = g
      OBVIOUS
    <3>1. g \in table[d]
      BY <2>1
    <3>. QED
      BY <3>1, <2>1
  <2>. QED
    BY <2>3, <2>4, <2>5
<1>. QED
  BY <1>1, <1>2, <1>3, <1>4, <1>5, <1>6, <1>7, HandlerSteps

(* No metadata outlives the statement, whatever closes and creations       *)
(* interleave.                                                             *)
THEOREM CustodyKept == Spec => [](Custody /\ MetaFollowsTable /\ TableHasMeta)
<1>1. Init => Custody /\ MetaFollowsTable /\ TableHasMeta
  BY DEF Init, Custody, MetaFollowsTable, TableHasMeta, Runners
<1>2. TypeOK /\ TypeOK' /\ Custody /\ MetaFollowsTable /\ TableHasMeta /\ [Next]_vars
      => (Custody /\ MetaFollowsTable /\ TableHasMeta)'
  BY CustodyStep
<1>. QED
  BY <1>1, <1>2, TypeCorrect, PTL DEF Spec

(* A stored SQL text belongs to an open statement. *)
THEOREM MetaFollows == Spec => []MetaFollowsTable
  BY CustodyKept, PTL

-----------------------------------------------------------------------------
(* The execution e is recorded: a statement of its client's session, or    *)
(* the one a handler of that client found.                                 *)
Executed(e) ==
    /\ log' = Append(log, e)
    /\ e.txn = txnId[e.client]
    /\ e.via \in {"statement", "info"} =>
          e.state = IF txn[e.client] # "none" THEN "pending" ELSE "committed"
    /\ \/ e.handle = None /\ e.live
       \/ \E t \in Threads : /\ pc[t] \in Runners
                             /\ e.handle = rpc[t].handle /\ e.client = rpc[t].client
                             /\ e.live = rpc[t].live
    /\ UNCHANGED <<creator, txnVars>>

(* Run records one execution, with the transaction that is open. *)
LEMMA RunExecutes ==
  ASSUME TypeOK,
         NEW r, r.client \in Clients, r.handle \in Handles \cup {None}, r.live \in BOOLEAN,
         NEW via \in Vias,
         Run(r, via),
         \/ r.handle = None /\ r.live
         \/ \E t \in Threads : /\ pc[t] \in Runners
                               /\ r.handle = rpc[t].handle /\ r.client = rpc[t].client
                               /\ r.live = rpc[t].live,
         UNCHANGED <<creator, txnVars>>
  PROVE  \E e \in Execution : Executed(e)
<1> DEFINE e == [client |-> r.client, handle |-> r.handle, via |-> via, live |-> r.live,
                 txn |-> txnId[r.client],
                 state |-> IF OnSession(via) /\ txn[r.client] # "none"
                           THEN "pending" ELSE "committed"]
<1>1. txnId[r.client] \in Nat
  BY DEF TypeOK
<1>2. e \in Execution
  BY <1>1 DEF Execution
<1>3. log' = Append(log, e)
  BY DEF Run
<1>4. /\ e.txn = txnId[e.client] /\ e.client = r.client /\ e.handle = r.handle /\ e.live = r.live
      /\ e.via \in {"statement", "info"} =>
            e.state = IF txn[e.client] # "none" THEN "pending" ELSE "committed"
  BY DEF OnSession
<1> HIDE DEF e
<1>5. Executed(e)
  BY <1>3, <1>4 DEF Executed
<1>. QED
  BY <1>2, <1>5

(* A step that has nothing to do with transactions' ends and beginnings:   *)
(* an error may doom one, but not end it.                                  *)
KeepsTxns ==
    /\ UNCHANGED <<log, serial, txnId>>
    /\ \A c \in Clients : txn'[c] = "none" <=> txn[c] = "none"

(* What a step can do to the log and to the transactions. *)
LEMMA LogSteps ==
  ASSUME TypeOK, [Next]_vars
  PROVE  \/ KeepsTxns
         \/ \E e \in Execution : Executed(e)
         \/ \E c \in Clients : BeginTransaction(c) \/ \E commit \in BOOLEAN : EndTransaction(c, commit)
<1>1. ASSUME UNCHANGED <<log, txnVars>>
      PROVE  KeepsTxns
  BY <1>1 DEF KeepsTxns, txnVars
<1>2. ASSUME NEW c \in Clients, NEW after \in AfterError(c),
             txn' = [txn EXCEPT ![c] = after], UNCHANGED <<log, serial, txnId>>
      PROVE  KeepsTxns
  BY <1>2 DEF KeepsTxns, AfterError, TypeOK
<1>3. ASSUME NEW t \in Threads, NEW via \in Vias, pc[t] \in Runners,
             RunIfWrites(rpc[t], via), UNCHANGED <<tables, txnVars>>
      PROVE  KeepsTxns \/ \E e \in Execution : Executed(e)
  <2>1. CASE Writes(rpc[t].kind)
    <3>1. rpc[t].client \in Clients /\ rpc[t].handle \in Handles \cup {None}
          /\ rpc[t].live \in BOOLEAN
      BY <1>3 DEF TypeOK, Locals, Runners
    <3>. QED
      BY <1>3, <2>1, <3>1, RunExecutes DEF RunIfWrites, tables
  <2>2. CASE ~Writes(rpc[t].kind)
    BY <1>1, <1>3, <2>2 DEF RunIfWrites
  <2>. QED
    BY <2>1, <2>2
<1>4. ASSUME NEW t \in Threads, Handle(t)
      PROVE  KeepsTxns \/ \E e \in Execution : Executed(e)
  <2>1. CASE EagerExecute(t)
    BY <1>3, <2>1 DEF EagerExecute, Runners, Vias
  <2>2. CASE EagerRaises(t)
    <3>1. PICK c \in Clients : c = rpc[t].client
      BY <2>2 DEF EagerRaises, TypeOK, Locals
    <3>. QED
      BY <1>2, <2>2, <3>1 DEF EagerRaises
  <2>3. CASE DoGetExecute(t) \/ BindExecute(t) \/ UpdateExecute(t)
    BY <1>3, <2>3 DEF DoGetExecute, BindExecute, UpdateExecute, Runners, Vias
  <2>4. CASE CreateStoreMeta(t) \/ ClosePopMeta(t)
    BY <1>1, <2>4 DEF CreateStoreMeta, ClosePopMeta
  <2>5. CASE \/ DoGetPending(t) \/ DoGetNothing(t) \/ BindRaises(t)
             \/ BindEmpty(t) \/ UpdateRaises(t)
    BY <1>1, <2>5 DEF DoGetPending, DoGetNothing, BindRaises, BindEmpty, UpdateRaises
  <2>. QED
    BY <1>4, <2>1, <2>2, <2>3, <2>4, <2>5 DEF Handle
<1>5. ASSUME NEW t \in Threads, Request(t)
      PROVE  KeepsTxns
  BY <1>1, <1>5 DEF Request, CreateAddCursor, ClosePopCursor, GetFlightInfo, GetFlightInfoOnly,
                    DoGet, DoPutQuery, DoPutUpdate
<1>6. ASSUME NEW c \in Clients, StatementUpdate(c)
      PROVE  \E e \in Execution : Executed(e)
  BY <1>6, RunExecutes DEF StatementUpdate, Vias, tables
<1>7. ASSUME NEW c \in Clients, StatementRaises(c)
      PROVE  KeepsTxns
  BY <1>2, <1>7 DEF StatementRaises
<1>8. CASE UNCHANGED vars
  BY <1>1, <1>8 DEF vars
<1>. QED
  BY <1>4, <1>5, <1>6, <1>7, <1>8 DEF Next

(* The entries of the log after an execution. *)
LEMMA AppendedEntries ==
  ASSUME NEW e \in Execution, log \in Seq(Execution), log' = Append(log, e)
  PROVE  \A n \in DOMAIN log' : (n \in DOMAIN log /\ log'[n] = log[n]) \/ log'[n] = e
  OBVIOUS

(* The entries of the log after the end of a transaction. *)
LEMMA SettledEntries ==
  ASSUME NEW c \in Clients, NEW commit \in BOOLEAN, log \in Seq(Execution), EndTransaction(c, commit)
  PROVE  /\ DOMAIN log' = DOMAIN log
         /\ \E outcome \in {"committed", "undone"} : \A n \in DOMAIN log :
               /\ log'[n].client = log[n].client /\ log'[n].handle = log[n].handle
               /\ log'[n].via = log[n].via /\ log'[n].live = log[n].live
               /\ log'[n].txn = log[n].txn
               /\ log'[n].state = IF log[n].state = "pending" /\ log[n].client = c
                                  THEN outcome ELSE log[n].state
<1> DEFINE outcome == IF commit /\ txn[c] = "active" THEN "committed" ELSE "undone"
<1>1. outcome \in {"committed", "undone"} /\ Settle(c, outcome)
  BY DEF EndTransaction
<1> HIDE DEF outcome
<1>2. ASSUME NEW e \in Execution
      PROVE  LET f == [e EXCEPT !.state = outcome]
             IN  /\ f.client = e.client /\ f.handle = e.handle /\ f.via = e.via
                 /\ f.live = e.live /\ f.txn = e.txn /\ f.state = outcome
  BY DEF Execution
<1>3. \A n \in DOMAIN log : log[n] \in Execution
  OBVIOUS
<1>. QED
  BY <1>1, <1>2, <1>3 DEF Settle

(* A handle keeps its creator. *)
LEMMA CreatorKept ==
  ASSUME TypeOK, [Next]_vars, NEW h \in Handles, creator[h] # None
  PROVE  creator'[h] = creator[h]
<1>1. CASE UNCHANGED <<tables, handlers>>
  BY <1>1 DEF tables
<1>2. ASSUME NEW t \in Threads, Leaves(t) \/ CreateStoreMeta(t) \/ ClosePopMeta(t)
      PROVE  UNCHANGED creator
  BY <1>2 DEF Leaves, CreateStoreMeta, ClosePopMeta, tables
<1>3. ASSUME NEW t \in Threads, NEW c \in Clients, NEW g \in Handles, NEW k \in Kinds,
             CreateAddCursor(t, c, g, k)
      PROVE  creator'[h] = creator[h]
  BY <1>3 DEF CreateAddCursor, TypeOK
<1>4. ASSUME NEW t \in Threads, NEW c \in Clients, NEW g \in Handles,
             Enters(t, c, g) \/ ClosePopCursor(t, c, g)
      PROVE  UNCHANGED creator
  BY <1>4 DEF Enters, ClosePopCursor, tables
<1>. QED
  BY <1>1, <1>2, <1>3, <1>4, HandlerSteps

(* No SQL runs for a request that came after the close was answered, and   *)
(* none for another session's statement, on any of the four paths.         *)
THEOREM OnlyOwnOpenStatementsRun == Spec => [](ClosedNeverRuns /\ StatementsStayInSession)
<1> USE DEF ClosedNeverRuns, StatementsStayInSession
<1>1. Init => ClosedNeverRuns /\ StatementsStayInSession
  BY DEF Init
<1>2. TypeOK /\ Custody /\ ClosedNeverRuns /\ StatementsStayInSession /\ [Next]_vars
      => (ClosedNeverRuns /\ StatementsStayInSession)'
  <2> SUFFICES ASSUME TypeOK, Custody, ClosedNeverRuns, StatementsStayInSession, [Next]_vars
               PROVE  ClosedNeverRuns' /\ StatementsStayInSession'
    OBVIOUS
  <2>0. log \in Seq(Execution)
    BY DEF TypeOK
  <2>1. ASSUME NEW n \in DOMAIN log
        PROVE  /\ log[n].live /\ log[n].client \in Clients
               /\ log[n].handle # None => /\ log[n].handle \in Handles
                                          /\ creator'[log[n].handle] = log[n].client
    <3>0. log[n] \in Execution
      BY <2>0
    <3>1. log[n].client \in Clients /\ log[n].handle \in Handles \cup {None}
      BY <3>0 DEF Execution
    <3>2. CASE log[n].handle # None
      <4>1. PICK h \in Handles : h = log[n].handle
        BY <3>1, <3>2
      <4>2. creator[h] = log[n].client /\ creator[h] # None
        BY <3>1, <3>2, <4>1, NoneAssumption
      <4>3. creator'[h] = creator[h]
        BY <4>2, CreatorKept
      <4>. QED
        BY <3>1, <4>1, <4>2, <4>3
    <3>. QED
      BY <3>1, <3>2
  <2>2. CASE KeepsTxns
    BY <2>1, <2>2 DEF KeepsTxns
  <2>3. ASSUME NEW e \in Execution, Executed(e)
        PROVE  ClosedNeverRuns' /\ StatementsStayInSession'
    <3>1. \A n \in DOMAIN log' : (n \in DOMAIN log /\ log'[n] = log[n]) \/ log'[n] = e
      BY <2>0, <2>3, AppendedEntries DEF Executed
    <3>2. e.live /\ (e.handle # None => creator'[e.handle] = e.client)
      BY <2>3 DEF Executed, Custody
    <3>. QED
      BY <2>1, <3>1, <3>2
  <2>4. ASSUME NEW c \in Clients, BeginTransaction(c)
        PROVE  ClosedNeverRuns' /\ StatementsStayInSession'
    BY <2>1, <2>4 DEF BeginTransaction
  <2>5. ASSUME NEW c \in Clients, NEW commit \in BOOLEAN, EndTransaction(c, commit)
        PROVE  ClosedNeverRuns' /\ StatementsStayInSession'
    BY <2>0, <2>1, <2>5, SettledEntries
  <2>. QED
    BY <2>2, <2>3, <2>4, <2>5, LogSteps
<1>. QED
  BY <1>1, <1>2, TypeCorrect, CustodyKept, PTL DEF Spec

(* No request that came after its statement's close ever runs SQL. *)
THEOREM ClosedNeverRun == Spec => []ClosedNeverRuns
  BY OnlyOwnOpenStatementsRun, PTL

(* A session runs the statements it created, and no others. *)
THEOREM StatementsStay == Spec => []StatementsStayInSession
  BY OnlyOwnOpenStatementsRun, PTL

-----------------------------------------------------------------------------
(* A transaction's serial is never used again, and one client's only: what *)
(* the log says of a transaction it says of one client's.                  *)
TxnBooks ==
    /\ \A c \in Clients : txnId[c] = 0 <=> txn[c] = "none"
    /\ \A c \in Clients : txnId[c] <= serial
    /\ \A c, d \in Clients : txnId[c] # 0 /\ txnId[c] = txnId[d] => c = d
    /\ \A n \in DOMAIN log : log[n].txn <= serial
    /\ \A n \in DOMAIN log, c \in Clients :
          log[n].txn # 0 /\ log[n].txn = txnId[c] => log[n].client = c
    /\ \A n, m \in DOMAIN log :
          log[n].txn # 0 /\ log[n].txn = log[m].txn => log[n].client = log[m].client

(* TxnBooks and TxnAtomic are kept by every step.                          *)
LEMMA TxnStep ==
  ASSUME TypeOK, TxnBooks, TxnAtomic, [Next]_vars
  PROVE  TxnBooks' /\ TxnAtomic'
<1>0. log \in Seq(Execution) /\ serial \in Nat /\ txnId \in [Clients -> Nat]
  BY DEF TypeOK
<1>1. ASSUME NEW n \in DOMAIN log
      PROVE  log[n].client \in Clients /\ log[n].txn \in Nat
  <2>1. log[n] \in Execution
    BY <1>0
  <2>. QED
    BY <2>1 DEF Execution
<1> USE DEF TxnBooks, TxnAtomic, Atomically
<1>2. CASE KeepsTxns
  BY <1>2 DEF KeepsTxns
<1>3. ASSUME NEW e \in Execution, Executed(e)
      PROVE  TxnBooks' /\ TxnAtomic'
  <2>1. \A n \in DOMAIN log' : (n \in DOMAIN log /\ log'[n] = log[n]) \/ log'[n] = e
    BY <1>0, <1>3, AppendedEntries DEF Executed
  <2>2. e.client \in Clients /\ e.txn = txnId[e.client] /\ UNCHANGED <<txn, serial, txnId>>
    BY <1>3 DEF Executed, Execution, txnVars
  <2>3. e.txn # 0 /\ e.via \in {"statement", "info"} => e.state = "pending"
    BY <1>3, <2>2 DEF Executed
  <2> HIDE DEF TxnAtomic, Atomically
  <2>4. TxnBooks'
    <3>1. \A n \in DOMAIN log' : log'[n].txn <= serial'
      BY <2>1, <2>2
    <3>2. \A n \in DOMAIN log', d \in Clients :
             log'[n].txn # 0 /\ log'[n].txn = txnId'[d] => log'[n].client = d
      BY <2>1, <2>2
    <3>3. \A n, m \in DOMAIN log' :
             log'[n].txn # 0 /\ log'[n].txn = log'[m].txn => log'[n].client = log'[m].client
      BY <2>1, <2>2
    <3>. QED
      BY <2>2, <3>1, <3>2, <3>3
  <2>5. ASSUME NEW n \in DOMAIN log', log'[n].via \in {"statement", "info"}, log'[n].txn # 0
        PROVE  log'[n].state = "pending" <=> txnId'[log'[n].client] = log'[n].txn
    BY <2>1, <2>2, <2>3, <2>5 DEF TxnAtomic, Atomically
  <2>6. ASSUME NEW n \in DOMAIN log', log'[n].via \in {"statement", "info"}, log'[n].txn # 0,
               NEW m \in DOMAIN log', log'[m].via \in {"statement", "info"}, log'[m].txn = log'[n].txn
        PROVE  log'[m].state = log'[n].state
    <3>1. CASE n \in DOMAIN log /\ log'[n] = log[n] /\ m \in DOMAIN log /\ log'[m] = log[m]
      BY <2>6, <3>1 DEF TxnAtomic, Atomically
    <3>2. CASE n \in DOMAIN log /\ log'[n] = log[n] /\ log'[m] = e
      <4>1. log[n].client = e.client
        BY <2>2, <2>6, <3>2
      <4>2. log[n].state = "pending"
        BY <2>2, <2>6, <3>2, <4>1 DEF TxnAtomic, Atomically
      <4>. QED
        BY <2>3, <2>6, <3>2, <4>2
    <3>3. CASE log'[n] = e /\ m \in DOMAIN log /\ log'[m] = log[m]
      <4>1. log[m].client = e.client
        BY <2>2, <2>6, <3>3
      <4>2. log[m].state = "pending"
        BY <2>2, <2>6, <3>3, <4>1 DEF TxnAtomic, Atomically
      <4>. QED
        BY <2>3, <2>6, <3>3, <4>2
    <3>. QED
      BY <2>1, <3>1, <3>2, <3>3
  <2>. QED
    BY <2>4, <2>5, <2>6 DEF TxnAtomic, Atomically
<1>4. ASSUME NEW c \in Clients, BeginTransaction(c)
      PROVE  TxnBooks' /\ TxnAtomic'
  <2>1. /\ txn[c] = "none" /\ txnId[c] = 0 /\ serial' = serial + 1 /\ UNCHANGED log
        /\ txnId'[c] = serial + 1 /\ txn'[c] = "active"
        /\ \A d \in Clients : d # c => txnId'[d] = txnId[d] /\ txn'[d] = txn[d]
    BY <1>4 DEF BeginTransaction, TypeOK
  <2>2. TxnBooks'
    <3>1. \A n \in DOMAIN log : log[n].txn # serial + 1
      BY <1>0, <1>1
    <3>2. \A d \in Clients : txnId[d] # serial + 1
      BY <1>0
    <3> HIDE DEF TxnAtomic, Atomically
    <3>. QED
      BY <1>0, <1>1, <2>1, <3>1, <3>2
  <2>3. ASSUME NEW n \in DOMAIN log, log[n].txn # 0
        PROVE  (txnId'[log[n].client] = log[n].txn) <=> (txnId[log[n].client] = log[n].txn)
    BY <1>0, <1>1, <2>1, <2>3
  <2>4. TxnAtomic'
    BY <2>1, <2>3
  <2>. QED
    BY <2>2, <2>4
<1>5. ASSUME NEW c \in Clients, NEW commit \in BOOLEAN, EndTransaction(c, commit)
      PROVE  TxnBooks' /\ TxnAtomic'
  <2>1. /\ UNCHANGED serial /\ txnId'[c] = 0 /\ txn'[c] = "none"
        /\ txn[c] # "none" /\ txnId[c] # 0
        /\ \A d \in Clients : d # c => txnId'[d] = txnId[d] /\ txn'[d] = txn[d]
    BY <1>5 DEF EndTransaction, TypeOK
  <2>2. PICK outcome \in {"committed", "undone"} : \A n \in DOMAIN log :
               /\ log'[n].client = log[n].client /\ log'[n].via = log[n].via
               /\ log'[n].txn = log[n].txn
               /\ log'[n].state = IF log[n].state = "pending" /\ log[n].client = c
                                  THEN outcome ELSE log[n].state
    BY <1>0, <1>5, SettledEntries
  <2>3. DOMAIN log' = DOMAIN log
    BY <1>0, <1>5, SettledEntries
  <2> HIDE DEF TxnAtomic, Atomically
  <2>4. TxnBooks'
    BY <1>0, <1>1, <2>1, <2>2, <2>3, SMTT(30)
  <2>5. ASSUME NEW n \in DOMAIN log', log'[n].via \in {"statement", "info"}, log'[n].txn # 0
        PROVE  log'[n].state = "pending" <=> txnId'[log'[n].client] = log'[n].txn
    <3>1. log[n].state = "pending" <=> txnId[log[n].client] = log[n].txn
      BY <2>2, <2>3, <2>5 DEF TxnAtomic, Atomically
    <3>. QED
      BY <1>1, <2>1, <2>2, <2>3, <2>5, <3>1
  <2>6. ASSUME NEW n \in DOMAIN log', log'[n].via \in {"statement", "info"}, log'[n].txn # 0,
               NEW m \in DOMAIN log', log'[m].via \in {"statement", "info"}, log'[m].txn = log'[n].txn
        PROVE  log'[m].state = log'[n].state
    <3>1. log[m].state = log[n].state
      BY <2>2, <2>3, <2>6 DEF TxnAtomic, Atomically
    <3>2. log[m].client = log[n].client
      BY <2>2, <2>3, <2>6
    <3>. QED
      BY <2>2, <2>3, <3>1, <3>2
  <2>. QED
    BY <2>5, <2>6, <2>4 DEF TxnAtomic, Atomically
<1>. QED
  BY <1>2, <1>3, <1>4, <1>5, LogSteps

(* What runs on a session's connection while a transaction is open,        *)
(* prepared DDL/DML of GetFlightInfo included, is undecided until that     *)
(* transaction ends, and then shares one fate.                             *)
THEOREM TransactionsAtomic == Spec => []TxnAtomic
<1>1. Init => TxnBooks /\ TxnAtomic
  BY DEF Init, TxnBooks, TxnAtomic, Atomically
<1>2. TypeOK /\ TxnBooks /\ TxnAtomic /\ [Next]_vars => (TxnBooks /\ TxnAtomic)'
  BY TxnStep
<1>. QED
  BY <1>1, <1>2, TypeCorrect, PTL DEF Spec

-----------------------------------------------------------------------------
(* GetFlightInfo goes on to execute only what it takes for DDL/DML. *)
EagerKinds == \A t \in Threads : pc[t] = "eager" => EagerlyRun(rpc[t].kind)

(* A step keeps EagerKinds. *)
LEMMA EagerStep ==
  ASSUME TypeOK, EagerKinds, [Next]_vars
  PROVE  EagerKinds'
<1> USE DEF EagerKinds
<1>1. ASSUME NEW t \in Threads, NEW c \in Clients, NEW h \in Handles,
             NEW label \in {"pop_meta", "get", "bind", "update"}, Enter(t, label, c, h)
      PROVE  EagerKinds'
  BY <1>1 DEF Enter, TypeOK
<1>2. ASSUME NEW t \in Threads, Reply(t)
      PROVE  EagerKinds'
  BY <1>2 DEF Reply, TypeOK
<1>3. ASSUME UNCHANGED handlers
      PROVE  EagerKinds'
  BY <1>3 DEF handlers
<1>4. ASSUME NEW t \in Threads, NEW c \in Clients, NEW h \in Handles, GetFlightInfo(t, c, h)
      PROVE  EagerKinds'
  <2>1. /\ \A u \in Threads : u # t => pc'[u] = pc[u] /\ rpc'[u] = rpc[u]
        /\ rpc'[t].kind = MetaOf(c, h) /\ EagerlyRun(MetaOf(c, h))
    BY <1>4 DEF GetFlightInfo, Enter, TypeOK
  <2>. QED
    BY <2>1
<1>5. ASSUME NEW t \in Threads, NEW c \in Clients, NEW h \in Handles, NEW k \in Kinds,
             CreateAddCursor(t, c, h, k)
      PROVE  EagerKinds'
  BY <1>5 DEF CreateAddCursor, TypeOK
<1>6. ASSUME NEW t \in Threads, Request(t)
      PROVE  EagerKinds'
  BY <1>1, <1>3, <1>4, <1>5, <1>6
     DEF Request, ClosePopCursor, GetFlightInfoOnly, DoGet, DoPutQuery, DoPutUpdate
<1>7. ASSUME NEW t \in Threads, Handle(t)
      PROVE  Reply(t)
  BY <1>7 DEF Handle, CreateStoreMeta, ClosePopMeta, EagerExecute, EagerRaises, DoGetPending,
              DoGetExecute, DoGetNothing, BindExecute, BindRaises, BindEmpty, UpdateExecute,
              UpdateRaises
<1>8. ASSUME NEW c \in Clients,
             \/ StatementUpdate(c) \/ StatementRaises(c) \/ BeginTransaction(c)
             \/ \E commit \in BOOLEAN : EndTransaction(c, commit)
      PROVE  UNCHANGED handlers
  BY <1>8 DEF StatementUpdate, StatementRaises, BeginTransaction, EndTransaction
<1>9. CASE UNCHANGED vars
  BY <1>3, <1>9 DEF vars
<1>. QED
  BY <1>2, <1>3, <1>6, <1>7, <1>8, <1>9 DEF Next

(* An open statement without parameters is never answered with an empty    *)
(* schema unless it has run, as long as no DDL/DML has a question mark in  *)
(* a literal and no query is probed before its table can be seen.          *)
THEOREM AnsweredHasRun ==
  ASSUME Kinds \cap {"dml_text", "select_new"} = {}
  PROVE  Spec => []AcknowledgedRuns
<1> USE DEF AcknowledgedRuns
<1>1. Init => EagerKinds /\ AcknowledgedRuns
  BY DEF Init, EagerKinds
<1>2. TypeOK /\ TableHasMeta /\ EagerKinds /\ AcknowledgedRuns /\ [Next]_vars
      => (EagerKinds /\ AcknowledgedRuns)'
  <2> SUFFICES ASSUME TypeOK, TableHasMeta, EagerKinds, AcknowledgedRuns, [Next]_vars
               PROVE  AcknowledgedRuns'
    BY EagerStep
  <2>1. ASSUME NEW k \in Kinds
        PROVE  /\ EagerlyRun(k) => Writes(k)
               /\ Writes(k) /\ ~TakesParams(k) => EagerlyRun(k)
    <3>1. k \in AllKinds /\ k \notin {"dml_text", "select_new"}
      BY KindsAssumption
    <3>2. k \in {"select", "select_param", "dml", "dml_param"}
      BY <3>1 DEF AllKinds
    <3>3. k # None
      BY <3>1, NoneAssumption
    <3>. QED
      BY <3>2, <3>3 DEF EagerlyRun, Writes, TakesParams, HasSchema, HasMark
  <2>2. ASSUME NEW t \in Threads, NEW c \in Clients, NEW h \in Handles,
               Returned(h), GetFlightInfoOnly(t, c, h)
        PROVE  AcknowledgedRuns'
    <3>1. MetaOf(c, h) \in Kinds \cup {None}
      BY DEF TypeOK, MetaOf
    <3>2. CASE h \in table[c]
      <4>1. MetaOf(c, h) # None
        BY <2>2, <3>2 DEF TableHasMeta, Returned, MetaOf
      <4>2. UNCHANGED skipped
        BY <2>1, <2>2, <3>1, <4>1 DEF GetFlightInfoOnly
      <4>. QED
        BY <4>2
    <3>3. CASE h \notin table[c]
      <4> DEFINE s == [client |-> c, handle |-> h, live |-> h \in table[c]]
      <4>1. skipped' = skipped \/ skipped' = skipped \cup {s}
        BY <2>2 DEF GetFlightInfoOnly
      <4>2. ~s.live
        BY <3>3
      <4> HIDE DEF s
      <4>. QED
        BY <4>1, <4>2
    <3>. QED
      BY <3>2, <3>3
  <2>3. ASSUME NEW t \in Threads, EagerExecute(t)
        PROVE  UNCHANGED skipped
    <3>1. rpc[t].kind \in Kinds \cup {None} /\ EagerlyRun(rpc[t].kind)
      BY <2>3 DEF EagerExecute, EagerKinds, TypeOK, Locals
    <3>2. rpc[t].kind \in Kinds
      BY <3>1 DEF EagerlyRun
    <3>3. Writes(rpc[t].kind)
      BY <2>1, <3>1, <3>2
    <3>. QED
      BY <2>3, <3>3 DEF EagerExecute
  <2>4. ASSUME NEW t \in Threads, Request(t)
        PROVE  AcknowledgedRuns'
    BY <2>2, <2>4 DEF Request, CreateAddCursor, ClosePopCursor, GetFlightInfo, DoGet,
                      DoPutQuery, DoPutUpdate
  <2>5. ASSUME NEW t \in Threads, Handle(t)
        PROVE  UNCHANGED skipped
    BY <2>3, <2>5 DEF Handle, CreateStoreMeta, ClosePopMeta, EagerRaises, DoGetPending,
              DoGetExecute, DoGetNothing, BindExecute, BindRaises, BindEmpty, UpdateExecute,
              UpdateRaises
  <2>6. ASSUME NEW c \in Clients,
               \/ StatementUpdate(c) \/ StatementRaises(c) \/ BeginTransaction(c)
               \/ \E commit \in BOOLEAN : EndTransaction(c, commit)
        PROVE  UNCHANGED skipped
    BY <2>6 DEF StatementUpdate, StatementRaises, BeginTransaction, EndTransaction
  <2>7. CASE UNCHANGED vars
    BY <2>7 DEF vars
  <2>. QED
    BY <2>4, <2>5, <2>6, <2>7 DEF Next
<1>. QED
  BY <1>1, <1>2, TypeCorrect, CustodyKept, PTL DEF Spec

=============================================================================
