-------------------------- MODULE SessionStoreProofs --------------------------
(***************************************************************************)
(* The locked session layer implements the atomic SessionStore, for every  *)
(* number of threads, ids, sessions and handles: each store operation      *)
(* takes effect in one step of the thread that runs it, and a close in the *)
(* step in which ClientSession.close gets the session's lock.              *)
(***************************************************************************)
EXTENDS SessionManagerProofs

(* What the callers of the session layer see of a session.                 *)
Status(s)   == IF ClosingNow(s) THEN "closed" ELSE conn[s]
Prepared(s) == IF ClosingNow(s) THEN {} ELSE prepared[s]
OpenTxns(s) == IF ClosingNow(s) THEN {} ELSE openTxns[s]

Inv == TypeOK /\ LockInv /\ ThreadInv /\ OneOwner

LEMMA InvHolds == Spec => []Inv
  BY TypeCorrect, LocksHeld, SessionsOwned, PTL DEF Inv

(* A session nobody sees changing is a stuttering step of the store.       *)
LEMMA Stutters ==
  ASSUME UNCHANGED <<registry, issued>>,
         \A s \in Sessions : /\ Status(s)' = Status(s)
                             /\ Prepared(s)' = Prepared(s)
                             /\ OpenTxns(s)' = OpenTxns(s)
  PROVE  UNCHANGED Store!vars
  BY DEF Store!vars, Status, Prepared, OpenTxns

(* Threads outside close() do not change which sessions are being closed.  *)
LEMMA ClosingKept ==
  ASSUME NEW t \in Threads, pc[t] \notin CloseLabels, pc'[t] \notin CloseLabels,
         \A u \in Threads \ {t} : pc'[u] = pc[u] /\ at'[u] = at[u]
  PROVE  \A s \in Sessions : ClosingNow(s)' <=> ClosingNow(s)
  BY DEF ClosingNow

(* Inside a session's lock, outside close(), the session is not closing.   *)
LEMMA NotClosingInside ==
  ASSUME Inv, NEW t \in Threads, pc[t] = "in_session"
  PROVE  at[t] \in Sessions /\ ~ClosingNow(at[t])
<1>1. at[t] \in Sessions /\ slock[at[t]] = t
  BY DEF Inv, ThreadInv, LockInv, HoldsSession
<1>2. ASSUME NEW u \in Threads, pc[u] \in CloseLabels, at[u] = at[t]
      PROVE  FALSE
  <2>1. slock[at[t]] = u
    BY <1>1, <1>2 DEF Inv, LockInv, HoldsSession
  <2>. QED
    BY <1>1, <1>2, <2>1 DEF CloseLabels
<1>. QED
  BY <1>1, <1>2 DEF ClosingNow

(* The steps the store does not see.                                       *)
LEMMA QuietStutters ==
  ASSUME Inv, NEW t \in Threads, pc[t] \notin CloseLabels, pc'[t] \notin CloseLabels,
         \A u \in Threads \ {t} : pc'[u] = pc[u] /\ at'[u] = at[u],
         UNCHANGED <<registry, issued, conn, prepared, openTxns>>
  PROVE  UNCHANGED Store!vars
<1>1. \A s \in Sessions : ClosingNow(s)' <=> ClosingNow(s)
  BY ClosingKept
<1>. QED
  BY <1>1, Stutters DEF Status, Prepared, OpenTxns

(* Every step of the layer is a step of the store or none. *)
LEMMA StepRefines == Inv /\ [Next]_vars => [Store!Next]_(Store!vars)
<1> SUFFICES ASSUME Inv, [Next]_vars
             PROVE  Store!Next \/ UNCHANGED Store!vars
  OBVIOUS
<1> DEFINE Goal == Store!Next \/ UNCHANGED Store!vars
<1>1. ASSUME NEW t \in Threads, NEW i \in SessionIds,
             GetOrCreateFound(t, i) \/ GetOrCreateMissing(t, i)
      PROVE  Goal
  BY <1>1, QuietStutters DEF GetOrCreateFound, GetOrCreateMissing, Goto, storeVars, Inv, TypeOK, CloseLabels
<1>2. ASSUME NEW t \in Threads,
             CreateFails(t) \/ UseSession(t) \/ CloseCursor(t) \/ CloseReturns(t)
      PROVE  Goal
  BY <1>2, QuietStutters
  DEF CreateFails, UseSession, CloseCursor, CloseReturns, Return, Goto, storeVars, Inv, TypeOK, CloseLabels
<1>3. ASSUME NEW t \in Threads, NEW i \in SessionIds, NEW o \in SessionOps,
             NEW h \in Argument(o), LookUp(t, i, o, h)
      PROVE  Goal
  BY <1>3, QuietStutters DEF LookUp, Goto, storeVars, Inv, TypeOK, CloseLabels
<1>4. ASSUME NEW t \in Threads, EnterSession(t)
      PROVE  Goal
  BY <1>4, QuietStutters DEF EnterSession, Goto, storeVars, threadVars, Inv, TypeOK, CloseLabels
<1>5. ASSUME NEW t \in Threads, pc[t] = "in_session", NoEffect(t)
      PROVE  Goal
  BY <1>5, QuietStutters DEF NoEffect, LeaveSession, Return, Goto, storeVars, Inv, TypeOK, CloseLabels
<1>6. ASSUME NEW t \in Threads,
             \/ AddRaises(t) \/ GetPreparedStatement(t) \/ PopMissing(t)
             \/ BeginRefused(t) \/ BeginRaises(t) \/ EndUnknown(t)
      PROVE  Goal
  BY <1>5, <1>6 DEF AddRaises, GetPreparedStatement, PopMissing, BeginRefused, BeginRaises,
                    EndUnknown, InSession
<1>7. ASSUME NEW t \in Threads, NEW s \in Sessions, CreateSession(t, s)
      PROVE  Goal
  <2>1. PICK i \in SessionIds : i = key[t] /\ registry[i] = None
    BY <1>7 DEF CreateSession, Inv, LockInv
  <2>2. \A r \in Sessions : ClosingNow(r)' <=> ClosingNow(r)
    BY <1>7, ClosingKept DEF CreateSession, Goto, Inv, TypeOK, CloseLabels
  <2>3. ~ClosingNow(s)
    BY <1>7 DEF CreateSession, Inv, ThreadInv, ClosingNow, HoldsSession
  <2>4. /\ UNCHANGED <<prepared, openTxns, issued>>
        /\ registry' = [registry EXCEPT ![i] = s]
        /\ conn[s] = "new" /\ conn' = [conn EXCEPT ![s] = "open"]
    BY <1>7, <2>1 DEF CreateSession
  <2>5. Store!Create(i, s)
    BY <2>1, <2>2, <2>3, <2>4 DEF Store!Create, Inv, TypeOK
  <2>. QED
    BY <2>5 DEF Store!Next
<1>8. ASSUME NEW t \in Threads, pc[t] = "in_session",
             pc'[t] \notin CloseLabels,
             \A u \in Threads \ {t} : pc'[u] = pc[u] /\ at'[u] = at[u]
      PROVE  \E s \in Sessions :
                /\ s = at[t] /\ ~ClosingNow(s)
                /\ \A r \in Sessions : ClosingNow(r)' <=> ClosingNow(r)
  BY <1>8, NotClosingInside, ClosingKept DEF CloseLabels
<1>9. ASSUME NEW t \in Threads, NEW h \in Handles, AddPreparedStatement(t, h)
      PROVE  Goal
  <2>1. PICK s \in Sessions : /\ s = at[t] /\ ~ClosingNow(s)
                              /\ \A r \in Sessions : ClosingNow(r)' <=> ClosingNow(r)
    BY <1>9, <1>8 DEF AddPreparedStatement, InSession, LeaveSession, Return, Goto, Inv, TypeOK, CloseLabels
  <2>2. /\ UNCHANGED <<registry, conn, openTxns>>
        /\ conn[s] = "open" /\ h \notin issued /\ issued' = issued \cup {h}
        /\ prepared' = [prepared EXCEPT ![s] = @ \cup {h}]
    BY <1>9, <2>1 DEF AddPreparedStatement
  <2>3. Store!AddStatement(s, h)
    BY <2>1, <2>2 DEF Store!AddStatement, Inv, TypeOK
  <2>. QED
    BY <2>3 DEF Store!Next
<1>10. ASSUME NEW t \in Threads, PopPreparedStatement(t)
       PROVE  Goal
  <2>1. PICK s \in Sessions : /\ s = at[t] /\ ~ClosingNow(s)
                              /\ \A r \in Sessions : ClosingNow(r)' <=> ClosingNow(r)
    BY <1>10, <1>8 DEF PopPreparedStatement, InSession, Goto, Inv, TypeOK, CloseLabels
  <2>2. PICK h \in Handles : /\ UNCHANGED <<registry, conn, openTxns, issued>>
                             /\ h \in prepared[s]
                             /\ prepared' = [prepared EXCEPT ![s] = @ \ {h}]
    BY <1>10, <2>1 DEF PopPreparedStatement, Inv, TypeOK
  <2>3. Store!RemoveStatement(s, h)
    BY <2>1, <2>2 DEF Store!RemoveStatement, Inv, TypeOK
  <2>. QED
    BY <2>3 DEF Store!Next
<1>11. ASSUME NEW t \in Threads, NEW h \in Handles, BeginTransaction(t, h)
       PROVE  Goal
  <2>1. PICK s \in Sessions : /\ s = at[t] /\ ~ClosingNow(s)
                              /\ \A r \in Sessions : ClosingNow(r)' <=> ClosingNow(r)
    BY <1>11, <1>8 DEF BeginTransaction, InSession, LeaveSession, Return, Goto, Inv, TypeOK, CloseLabels
  <2>2. /\ UNCHANGED <<registry, conn, prepared>>
        /\ openTxns[s] = {} /\ conn[s] = "open"
        /\ h \notin issued /\ issued' = issued \cup {h}
        /\ openTxns' = [openTxns EXCEPT ![s] = {h}]
    BY <1>11, <2>1 DEF BeginTransaction, Inv, TypeOK
  <2>3. Store!Begin(s, h)
    BY <2>1, <2>2 DEF Store!Begin, Inv, TypeOK
  <2>. QED
    BY <2>3 DEF Store!Next
<1>12. ASSUME NEW t \in Threads, EndTransaction(t)
       PROVE  Goal
  <2>1. PICK s \in Sessions : /\ s = at[t] /\ ~ClosingNow(s)
                              /\ \A r \in Sessions : ClosingNow(r)' <=> ClosingNow(r)
    BY <1>12, <1>8 DEF EndTransaction, InSession, LeaveSession, Return, Goto, Inv, TypeOK, CloseLabels
  <2>2. PICK h \in Handles : /\ UNCHANGED <<registry, conn, prepared, issued>>
                             /\ h \in openTxns[s]
                             /\ openTxns' = [openTxns EXCEPT ![s] = @ \ {h}]
    BY <1>12, <2>1 DEF EndTransaction, Inv, TypeOK
  <2>3. Store!End(s, h)
    BY <2>1, <2>2 DEF Store!End, Inv, TypeOK
  <2>. QED
    BY <2>3 DEF Store!Next
<1>13. ASSUME NEW t \in Threads, NEW I \in {SessionIds} \cup {{i} : i \in SessionIds},
              pc[t] \notin CloseLabels, pc'[t] \notin CloseLabels,
              \A u \in Threads \ {t} : pc'[u] = pc[u] /\ at'[u] = at[u],
              registry' = [i \in SessionIds |-> IF i \in I THEN None ELSE registry[i]],
              UNCHANGED <<conn, prepared, openTxns, issued>>
       PROVE  Goal
  <2>1. \A r \in Sessions : ClosingNow(r)' <=> ClosingNow(r)
    BY <1>13, ClosingKept
  <2>2. Store!Detach(I)
    BY <1>13, <2>1 DEF Store!Detach
  <2>. QED
    BY <2>2 DEF Store!Next
<1>14. ASSUME NEW t \in Threads, NEW i \in SessionIds, CloseSession(t, i)
       PROVE  Goal
  <2>1. registry' = [j \in SessionIds |-> IF j \in {i} THEN None ELSE registry[j]]
    BY <1>14 DEF CloseSession, Inv, TypeOK
  <2>2. {i} \in {SessionIds} \cup {{j} : j \in SessionIds}
    OBVIOUS
  <2>3. /\ pc[t] \notin CloseLabels /\ pc'[t] \notin CloseLabels
        /\ \A u \in Threads \ {t} : pc'[u] = pc[u] /\ at'[u] = at[u]
        /\ UNCHANGED <<conn, prepared, openTxns, issued>>
    BY <1>14 DEF CloseSession, Goto, Inv, TypeOK, CloseLabels
  <2>. QED
    BY <1>13, <2>1, <2>2, <2>3
<1>15. ASSUME NEW t \in Threads, CloseAll(t)
       PROVE  Goal
  <2>1. registry' = [j \in SessionIds |-> IF j \in SessionIds THEN None ELSE registry[j]]
    BY <1>15 DEF CloseAll
  <2>2. SessionIds \in {SessionIds} \cup {{j} : j \in SessionIds}
    OBVIOUS
  <2>3. /\ pc[t] \notin CloseLabels /\ pc'[t] \notin CloseLabels
        /\ \A u \in Threads \ {t} : pc'[u] = pc[u] /\ at'[u] = at[u]
        /\ UNCHANGED <<conn, prepared, openTxns, issued>>
    BY <1>15 DEF CloseAll, Goto, Inv, TypeOK, CloseLabels
  <2>. QED
    BY <1>13, <2>1, <2>2, <2>3
<1>16. ASSUME NEW t \in Threads, NEW s \in Sessions, CloseEnter(t, s)
       PROVE  Goal
  <2>1. s \notin Registered /\ conn[s] = "open"
    BY <1>16 DEF CloseEnter, Inv, OneOwner, Owed
  <2>2. ~ClosingNow(s)
    BY <1>16, NoneAssumption DEF CloseEnter, Inv, LockInv, HoldsSession, ClosingNow
  <2>3. \A r \in Sessions : ClosingNow(r)' <=> ClosingNow(r) \/ r = s
    BY <1>16 DEF CloseEnter, Goto, Inv, TypeOK, ClosingNow, CloseLabels
  <2>4. UNCHANGED <<registry, conn, prepared, openTxns, issued>>
    BY <1>16 DEF CloseEnter, storeVars
  <2>5. Store!Close(s)
    BY <2>1, <2>2, <2>3, <2>4 DEF Store!Close, Store!Registered, Registered, Inv, TypeOK
  <2>. QED
    BY <2>5 DEF Store!Next
<1>17. ASSUME NEW t \in Threads, CloseStatements(t) \/ RollBackOpen(t)
       PROVE  Goal
  <2>1. \A r \in Sessions : ClosingNow(r)' <=> ClosingNow(r)
    BY <1>17 DEF CloseStatements, RollBackOpen, Goto, Inv, TypeOK, ClosingNow, CloseLabels
  <2>2. PICK s \in Sessions : s = at[t] /\ ClosingNow(s)
    BY <1>17 DEF CloseStatements, RollBackOpen, Inv, ThreadInv, HoldsSession, ClosingNow, CloseLabels
  <2>3. /\ UNCHANGED <<registry, issued, conn>>
        /\ \A r \in Sessions \ {s} : prepared'[r] = prepared[r] /\ openTxns'[r] = openTxns[r]
    BY <1>17, <2>2 DEF CloseStatements, RollBackOpen, Inv, TypeOK
  <2>. QED
    BY <2>1, <2>2, <2>3, Stutters DEF Status, Prepared, OpenTxns
<1>18. ASSUME NEW t \in Threads, CloseConnection(t)
       PROVE  Goal
  <2>1. PICK s \in Sessions : s = at[t] /\ ClosingNow(s) /\ slock[s] = t
    BY <1>18 DEF CloseConnection, Inv, ThreadInv, LockInv, HoldsSession, ClosingNow, CloseLabels
  <2>2. ~ClosingNow(s)'
    <3>1. ASSUME NEW u \in Threads, pc'[u] \in CloseLabels, at'[u] = s
          PROVE  FALSE
      <4>1. u # t
        BY <1>18, <3>1 DEF CloseConnection, Goto, Inv, TypeOK, CloseLabels
      <4>2. pc[u] \in CloseLabels /\ at[u] = s
        BY <1>18, <3>1, <4>1 DEF CloseConnection, Goto, Inv, TypeOK
      <4>. QED
        BY <2>1, <4>1, <4>2 DEF Inv, LockInv, HoldsSession
    <3>. QED
      BY <3>1 DEF ClosingNow
  <2>3. \A r \in Sessions \ {s} : ClosingNow(r)' <=> ClosingNow(r)
    BY <1>18, <2>1 DEF CloseConnection, Goto, Inv, TypeOK, ClosingNow, CloseLabels
  <2>4. prepared[s] = {} /\ openTxns[s] = {}
    BY <1>18, <2>1 DEF CloseConnection, Inv, ThreadInv
  <2>5. /\ UNCHANGED <<registry, issued, prepared, openTxns>>
        /\ conn' = [conn EXCEPT ![s] = "closed"]
    BY <1>18, <2>1 DEF CloseConnection
  <2>. QED
    BY <2>1, <2>2, <2>3, <2>4, <2>5, Stutters DEF Status, Prepared, OpenTxns, Inv, TypeOK
<1>19. CASE UNCHANGED vars
  <2>1. UNCHANGED <<registry, issued, conn, prepared, openTxns, pc, at>>
    BY <1>19 DEF vars, storeVars, threadVars
  <2>. QED
    BY <2>1, Stutters DEF Status, Prepared, OpenTxns, ClosingNow
<1>. QED
  BY <1>1, <1>2, <1>3, <1>4, <1>6, <1>7, <1>9, <1>10, <1>11, <1>12, <1>14, <1>15, <1>16,
     <1>17, <1>18, <1>19 DEF Next, Call, Work

(* The session layer, its locks included, implements the atomic store.     *)
THEOREM StoreImplemented == Spec => ImplementsStore
<1>1. Init => Store!Init
  BY DEF Init, Store!Init, ClosingNow, CloseLabels
<1>. QED
  BY <1>1, InvHolds, StepRefines, PTL DEF Spec, ImplementsStore, Store!Spec

=============================================================================
