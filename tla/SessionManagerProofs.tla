------------------------ MODULE SessionManagerProofs ------------------------
(***************************************************************************)
(* Proofs about the session layer, for every number of threads, ids,       *)
(* sessions and handles.  The properties are stated in                     *)
(* SessionManagerProps and checked by TLC on small instances.              *)
(***************************************************************************)
EXTENDS SessionManagerProps, TLAPS

(* Type correctness of the session layer. *)
THEOREM TypeCorrect == Spec => []TypeOK
<1>1. Init => TypeOK
  BY NoneAssumption DEF Init, TypeOK, Labels, SessionOps
<1>2. TypeOK /\ [Next]_vars => TypeOK'
  <2> SUFFICES ASSUME TypeOK, [Next]_vars
               PROVE  TypeOK'
    OBVIOUS
  <2> USE NoneAssumption
      DEF Goto, Return, InSession, AcquireSessionLock, ReleaseSessionLock,
          LeaveSession, NoEffect, TypeOK, Labels, CloseLabels, SessionOps,
          storeVars, lockVars, threadVars
  <2>1. ASSUME NEW t \in Threads, NEW i \in SessionIds, GetOrCreateFound(t, i)
        PROVE  TypeOK'
    BY <2>1 DEF GetOrCreateFound
  <2>2. ASSUME NEW t \in Threads, NEW i \in SessionIds, GetOrCreateMissing(t, i)
        PROVE  TypeOK'
    BY <2>2 DEF GetOrCreateMissing
  <2>3. ASSUME NEW t \in Threads, NEW s \in Sessions, CreateSession(t, s)
        PROVE  TypeOK'
    BY <2>3 DEF CreateSession
  <2>4. ASSUME NEW t \in Threads, CreateFails(t)
        PROVE  TypeOK'
    BY <2>4 DEF CreateFails
  <2>5. ASSUME NEW t \in Threads, UseSession(t)
        PROVE  TypeOK'
    BY <2>5, ZenonT(30) DEF UseSession
  <2>6. ASSUME NEW t \in Threads, NEW i \in SessionIds, NEW o \in SessionOps,
                NEW h \in Argument(o), LookUp(t, i, o, h)
        PROVE  TypeOK'
    BY <2>6 DEF LookUp, Argument
  <2>7. ASSUME NEW t \in Threads, EnterSession(t)
        PROVE  TypeOK'
    BY <2>7 DEF EnterSession
  <2>8. ASSUME NEW t \in Threads, NEW h \in Handles, AddPreparedStatement(t, h)
        PROVE  TypeOK'
    BY <2>8 DEF AddPreparedStatement
  <2>9. ASSUME NEW t \in Threads, AddRaises(t)
        PROVE  TypeOK'
    BY <2>9 DEF AddRaises
  <2>10. ASSUME NEW t \in Threads, GetPreparedStatement(t)
        PROVE  TypeOK'
    BY <2>10 DEF GetPreparedStatement
  <2>11. ASSUME NEW t \in Threads, PopPreparedStatement(t)
        PROVE  TypeOK'
    BY <2>11 DEF PopPreparedStatement
  <2>12. ASSUME NEW t \in Threads, PopMissing(t)
        PROVE  TypeOK'
    BY <2>12 DEF PopMissing
  <2>13. ASSUME NEW t \in Threads, CloseCursor(t)
        PROVE  TypeOK'
    BY <2>13 DEF CloseCursor
  <2>14. ASSUME NEW t \in Threads, BeginRefused(t)
        PROVE  TypeOK'
    BY <2>14 DEF BeginRefused
  <2>15. ASSUME NEW t \in Threads, BeginRaises(t)
        PROVE  TypeOK'
    BY <2>15 DEF BeginRaises
  <2>16. ASSUME NEW t \in Threads, NEW h \in Handles, BeginTransaction(t, h)
        PROVE  TypeOK'
    BY <2>16 DEF BeginTransaction
  <2>17. ASSUME NEW t \in Threads, EndUnknown(t)
        PROVE  TypeOK'
    BY <2>17 DEF EndUnknown
  <2>18. ASSUME NEW t \in Threads, EndTransaction(t)
        PROVE  TypeOK'
    BY <2>18 DEF EndTransaction
  <2>19. ASSUME NEW t \in Threads, NEW i \in SessionIds, CloseSession(t, i)
        PROVE  TypeOK'
    BY <2>19 DEF CloseSession
  <2>20. ASSUME NEW t \in Threads, CloseAll(t)
        PROVE  TypeOK'
    BY <2>20 DEF CloseAll, Registered
  <2>21. ASSUME NEW t \in Threads, NEW s \in Sessions, CloseEnter(t, s)
        PROVE  TypeOK'
    BY <2>21 DEF CloseEnter
  <2>22. ASSUME NEW t \in Threads, CloseStatements(t)
        PROVE  TypeOK'
    BY <2>22 DEF CloseStatements
  <2>23. ASSUME NEW t \in Threads, RollBackOpen(t)
        PROVE  TypeOK'
    BY <2>23 DEF RollBackOpen
  <2>24. ASSUME NEW t \in Threads, CloseConnection(t)
        PROVE  TypeOK'
    BY <2>24 DEF CloseConnection
  <2>25. ASSUME NEW t \in Threads, CloseReturns(t)
        PROVE  TypeOK'
    BY <2>25 DEF CloseReturns
  <2>26. CASE UNCHANGED vars
    BY <2>26 DEF vars
  <2> HIDE DEF Goto, Return, InSession, AcquireSessionLock, ReleaseSessionLock,
           LeaveSession, NoEffect, TypeOK, Labels, CloseLabels, SessionOps,
           storeVars, lockVars, threadVars
  <2>. QED
    BY <2>1, <2>2, <2>3, <2>4, <2>5, <2>6, <2>7, <2>8, <2>9, <2>10, <2>11,
       <2>12, <2>13, <2>14, <2>15, <2>16, <2>17, <2>18, <2>19, <2>20,
       <2>21, <2>22, <2>23, <2>24, <2>25, <2>26
    DEF Next, Call, Work
<1>. QED
  BY <1>1, <1>2, PTL DEF Spec

(* A lock is held exactly by the thread that is inside its section. *)
THEOREM LocksHeld == Spec => []LockInv
<1>1. Init => LockInv
  BY NoneAssumption DEF Init, LockInv, HoldsSession, CloseLabels
<1>2. TypeOK /\ LockInv /\ [Next]_vars => LockInv'
  <2> SUFFICES ASSUME TypeOK, LockInv, [Next]_vars
               PROVE  LockInv'
    OBVIOUS
  <2> USE NoneAssumption
      DEF Goto, Return, InSession, AcquireSessionLock, ReleaseSessionLock,
          LeaveSession, NoEffect, LockInv, HoldsSession, TypeOK, Labels,
          CloseLabels, storeVars, lockVars, threadVars
  <2>1. ASSUME NEW t \in Threads, NEW i \in SessionIds, GetOrCreateFound(t, i)
        PROVE  LockInv'
    BY <2>1 DEF GetOrCreateFound
  <2>2. ASSUME NEW t \in Threads, NEW i \in SessionIds, GetOrCreateMissing(t, i)
        PROVE  LockInv'
    BY <2>2 DEF GetOrCreateMissing
  <2>3. ASSUME NEW t \in Threads, NEW s \in Sessions, CreateSession(t, s)
        PROVE  LockInv'
    BY <2>3 DEF CreateSession
  <2>4. ASSUME NEW t \in Threads, CreateFails(t)
        PROVE  LockInv'
    BY <2>4 DEF CreateFails
  <2>5. ASSUME NEW t \in Threads, UseSession(t)
        PROVE  LockInv'
    BY <2>5 DEF UseSession
  <2>6. ASSUME NEW t \in Threads, NEW i \in SessionIds, NEW o \in SessionOps,
                NEW h \in Argument(o), LookUp(t, i, o, h)
        PROVE  LockInv'
    BY <2>6 DEF LookUp, Argument
  <2>7. ASSUME NEW t \in Threads, EnterSession(t)
        PROVE  LockInv'
    BY <2>7 DEF EnterSession
  <2>8. ASSUME NEW t \in Threads, NEW h \in Handles, AddPreparedStatement(t, h)
        PROVE  LockInv'
    BY <2>8 DEF AddPreparedStatement
  <2>9. ASSUME NEW t \in Threads, AddRaises(t)
        PROVE  LockInv'
    BY <2>9 DEF AddRaises
  <2>10. ASSUME NEW t \in Threads, GetPreparedStatement(t)
        PROVE  LockInv'
    BY <2>10 DEF GetPreparedStatement
  <2>11. ASSUME NEW t \in Threads, PopPreparedStatement(t)
        PROVE  LockInv'
    BY <2>11 DEF PopPreparedStatement
  <2>12. ASSUME NEW t \in Threads, PopMissing(t)
        PROVE  LockInv'
    BY <2>12 DEF PopMissing
  <2>13. ASSUME NEW t \in Threads, CloseCursor(t)
        PROVE  LockInv'
    BY <2>13 DEF CloseCursor
  <2>14. ASSUME NEW t \in Threads, BeginRefused(t)
        PROVE  LockInv'
    BY <2>14 DEF BeginRefused
  <2>15. ASSUME NEW t \in Threads, BeginRaises(t)
        PROVE  LockInv'
    BY <2>15 DEF BeginRaises
  <2>16. ASSUME NEW t \in Threads, NEW h \in Handles, BeginTransaction(t, h)
        PROVE  LockInv'
    BY <2>16 DEF BeginTransaction
  <2>17. ASSUME NEW t \in Threads, EndUnknown(t)
        PROVE  LockInv'
    BY <2>17 DEF EndUnknown
  <2>18. ASSUME NEW t \in Threads, EndTransaction(t)
        PROVE  LockInv'
    BY <2>18 DEF EndTransaction
  <2>19. ASSUME NEW t \in Threads, NEW i \in SessionIds, CloseSession(t, i)
        PROVE  LockInv'
    BY <2>19 DEF CloseSession
  <2>20. ASSUME NEW t \in Threads, CloseAll(t)
        PROVE  LockInv'
    BY <2>20 DEF CloseAll, Registered
  <2>21. ASSUME NEW t \in Threads, NEW s \in Sessions, CloseEnter(t, s)
        PROVE  LockInv'
    BY <2>21 DEF CloseEnter
  <2>22. ASSUME NEW t \in Threads, CloseStatements(t)
        PROVE  LockInv'
    BY <2>22 DEF CloseStatements
  <2>23. ASSUME NEW t \in Threads, RollBackOpen(t)
        PROVE  LockInv'
    BY <2>23 DEF RollBackOpen
  <2>24. ASSUME NEW t \in Threads, CloseConnection(t)
        PROVE  LockInv'
    BY <2>24 DEF CloseConnection
  <2>25. ASSUME NEW t \in Threads, CloseReturns(t)
        PROVE  LockInv'
    BY <2>25 DEF CloseReturns
  <2>26. CASE UNCHANGED vars
    BY <2>26 DEF vars
  <2> HIDE DEF Goto, Return, InSession, AcquireSessionLock, ReleaseSessionLock,
           LeaveSession, NoEffect, LockInv, HoldsSession, TypeOK, Labels,
           CloseLabels, storeVars, lockVars, threadVars
  <2>. QED
    BY <2>1, <2>2, <2>3, <2>4, <2>5, <2>6, <2>7, <2>8, <2>9, <2>10, <2>11,
       <2>12, <2>13, <2>14, <2>15, <2>16, <2>17, <2>18, <2>19, <2>20,
       <2>21, <2>22, <2>23, <2>24, <2>25, <2>26
    DEF Next, Call, Work
<1>. QED
  BY <1>1, <1>2, TypeCorrect, PTL DEF Spec

-----------------------------------------------------------------------------
(* The steps that change the session map, its sessions or DuckDB; every other
   step only moves a thread along. *)
StoreStep(t) ==
    \/ \E s \in Sessions : CreateSession(t, s)
    \/ UseSession(t)
    \/ \E h \in Handles : AddPreparedStatement(t, h)
    \/ PopPreparedStatement(t)
    \/ CloseCursor(t)
    \/ \E h \in Handles : BeginTransaction(t, h)
    \/ EndTransaction(t)
    \/ \E i \in SessionIds : CloseSession(t, i)
    \/ CloseAll(t)
    \/ CloseStatements(t)
    \/ RollBackOpen(t)
    \/ CloseConnection(t)

QuietStep ==
    /\ UNCHANGED <<storeVars, todo>>
    /\ \A u \in Threads : "close_cursor" \in {pc[u], pc'[u]} =>
          pc'[u] = pc[u] /\ key'[u] = key[u]

(* Every step is one of the two kinds. *)
LEMMA StepKinds ==
  ASSUME TypeOK, [Next]_vars
  PROVE  QuietStep \/ \E t \in Threads : StoreStep(t)
<1> DEFINE Goal == QuietStep \/ \E t \in Threads : StoreStep(t)
  <1> USE NoneAssumption
      DEF Goto, Return, InSession, AcquireSessionLock, ReleaseSessionLock,
          LeaveSession, NoEffect, QuietStep, TypeOK, Labels, CloseLabels,
          storeVars, lockVars, threadVars
  <1>1. ASSUME NEW t \in Threads, NEW i \in SessionIds, GetOrCreateFound(t, i)
        PROVE  Goal
    BY <1>1 DEF GetOrCreateFound
  <1>2. ASSUME NEW t \in Threads, NEW i \in SessionIds, GetOrCreateMissing(t, i)
        PROVE  Goal
    BY <1>2 DEF GetOrCreateMissing
  <1>3. ASSUME NEW t \in Threads, NEW s \in Sessions, CreateSession(t, s)
        PROVE  Goal
    BY <1>3 DEF StoreStep
  <1>4. ASSUME NEW t \in Threads, CreateFails(t)
        PROVE  Goal
    BY <1>4 DEF CreateFails
  <1>5. ASSUME NEW t \in Threads, UseSession(t)
        PROVE  Goal
    BY <1>5 DEF StoreStep
  <1>6. ASSUME NEW t \in Threads, NEW i \in SessionIds, NEW o \in SessionOps,
                NEW h \in Argument(o), LookUp(t, i, o, h)
        PROVE  Goal
    BY <1>6 DEF LookUp, Argument
  <1>7. ASSUME NEW t \in Threads, EnterSession(t)
        PROVE  Goal
    BY <1>7 DEF EnterSession
  <1>8. ASSUME NEW t \in Threads, NEW h \in Handles, AddPreparedStatement(t, h)
        PROVE  Goal
    BY <1>8 DEF StoreStep
  <1>9. ASSUME NEW t \in Threads, AddRaises(t)
        PROVE  Goal
    BY <1>9 DEF AddRaises
  <1>10. ASSUME NEW t \in Threads, GetPreparedStatement(t)
        PROVE  Goal
    BY <1>10 DEF GetPreparedStatement
  <1>11. ASSUME NEW t \in Threads, PopPreparedStatement(t)
        PROVE  Goal
    BY <1>11 DEF StoreStep
  <1>12. ASSUME NEW t \in Threads, PopMissing(t)
        PROVE  Goal
    BY <1>12 DEF PopMissing
  <1>13. ASSUME NEW t \in Threads, CloseCursor(t)
        PROVE  Goal
    BY <1>13 DEF StoreStep
  <1>14. ASSUME NEW t \in Threads, BeginRefused(t)
        PROVE  Goal
    BY <1>14 DEF BeginRefused
  <1>15. ASSUME NEW t \in Threads, BeginRaises(t)
        PROVE  Goal
    BY <1>15 DEF BeginRaises
  <1>16. ASSUME NEW t \in Threads, NEW h \in Handles, BeginTransaction(t, h)
        PROVE  Goal
    BY <1>16 DEF StoreStep
  <1>17. ASSUME NEW t \in Threads, EndUnknown(t)
        PROVE  Goal
    BY <1>17 DEF EndUnknown
  <1>18. ASSUME NEW t \in Threads, EndTransaction(t)
        PROVE  Goal
    BY <1>18 DEF StoreStep
  <1>19. ASSUME NEW t \in Threads, NEW i \in SessionIds, CloseSession(t, i)
        PROVE  Goal
    BY <1>19 DEF StoreStep
  <1>20. ASSUME NEW t \in Threads, CloseAll(t)
        PROVE  Goal
    BY <1>20 DEF StoreStep
  <1>21. ASSUME NEW t \in Threads, NEW s \in Sessions, CloseEnter(t, s)
        PROVE  Goal
    BY <1>21 DEF CloseEnter
  <1>22. ASSUME NEW t \in Threads, CloseStatements(t)
        PROVE  Goal
    BY <1>22 DEF StoreStep
  <1>23. ASSUME NEW t \in Threads, RollBackOpen(t)
        PROVE  Goal
    BY <1>23 DEF StoreStep
  <1>24. ASSUME NEW t \in Threads, CloseConnection(t)
        PROVE  Goal
    BY <1>24 DEF StoreStep
  <1>25. ASSUME NEW t \in Threads, CloseReturns(t)
        PROVE  Goal
    BY <1>25 DEF CloseReturns
  <1>26. CASE UNCHANGED vars
    BY <1>26 DEF vars
  <1> HIDE DEF Goto, Return, InSession, AcquireSessionLock, ReleaseSessionLock,
           LeaveSession, NoEffect, QuietStep, TypeOK, Labels, CloseLabels,
           storeVars, lockVars, threadVars
  <1>. QED
    BY <1>1, <1>2, <1>3, <1>4, <1>5, <1>6, <1>7, <1>8, <1>9, <1>10, <1>11,
       <1>12, <1>13, <1>14, <1>15, <1>16, <1>17, <1>18, <1>19, <1>20,
       <1>21, <1>22, <1>23, <1>24, <1>25, <1>26
    DEF Next, Call, Work

(* What a thread may rely on at each label, and that every open session has
   exactly one owner: an id or the thread that popped it. *)
THEOREM SessionsOwned == Spec => [](ThreadInv /\ OneOwner)
<1>1. Init => ThreadInv /\ OneOwner
  BY NoneAssumption DEF Init, ThreadInv, OneOwner, Owed, Registered, HoldsSession, CloseLabels
<1>2. TypeOK /\ LockInv /\ ThreadInv /\ OneOwner /\ [Next]_vars => ThreadInv'
  <2> SUFFICES ASSUME TypeOK, LockInv, ThreadInv, OneOwner, [Next]_vars
               PROVE  ThreadInv'
    OBVIOUS
  <2> USE NoneAssumption
      DEF Goto, Return, InSession, AcquireSessionLock, ReleaseSessionLock,
          LeaveSession, NoEffect, ThreadInv, LockInv, OneOwner, Owed,
          Registered, HoldsSession, TypeOK, Labels, CloseLabels, storeVars,
          lockVars, threadVars
  <2>1. ASSUME NEW t \in Threads, NEW i \in SessionIds, GetOrCreateFound(t, i)
        PROVE  ThreadInv'
    BY <2>1 DEF GetOrCreateFound
  <2>2. ASSUME NEW t \in Threads, NEW i \in SessionIds, GetOrCreateMissing(t, i)
        PROVE  ThreadInv'
    BY <2>2 DEF GetOrCreateMissing
  <2>3. ASSUME NEW t \in Threads, NEW s \in Sessions, CreateSession(t, s)
        PROVE  ThreadInv'
    BY <2>3 DEF CreateSession
  <2>4. ASSUME NEW t \in Threads, CreateFails(t)
        PROVE  ThreadInv'
    BY <2>4 DEF CreateFails
  <2>5. ASSUME NEW t \in Threads, UseSession(t)
        PROVE  ThreadInv'
    BY <2>5 DEF UseSession
  <2>6. ASSUME NEW t \in Threads, NEW i \in SessionIds, NEW o \in SessionOps,
                NEW h \in Argument(o), LookUp(t, i, o, h)
        PROVE  ThreadInv'
    BY <2>6 DEF LookUp, Argument
  <2>7. ASSUME NEW t \in Threads, EnterSession(t)
        PROVE  ThreadInv'
    BY <2>7 DEF EnterSession
  <2>8. ASSUME NEW t \in Threads, NEW h \in Handles, AddPreparedStatement(t, h)
        PROVE  ThreadInv'
    BY <2>8 DEF AddPreparedStatement
  <2>9. ASSUME NEW t \in Threads, AddRaises(t)
        PROVE  ThreadInv'
    BY <2>9 DEF AddRaises
  <2>10. ASSUME NEW t \in Threads, GetPreparedStatement(t)
        PROVE  ThreadInv'
    BY <2>10 DEF GetPreparedStatement
  <2>11. ASSUME NEW t \in Threads, PopPreparedStatement(t)
        PROVE  ThreadInv'
    BY <2>11 DEF PopPreparedStatement
  <2>12. ASSUME NEW t \in Threads, PopMissing(t)
        PROVE  ThreadInv'
    BY <2>12 DEF PopMissing
  <2>13. ASSUME NEW t \in Threads, CloseCursor(t)
        PROVE  ThreadInv'
    BY <2>13 DEF CloseCursor
  <2>14. ASSUME NEW t \in Threads, BeginRefused(t)
        PROVE  ThreadInv'
    BY <2>14 DEF BeginRefused
  <2>15. ASSUME NEW t \in Threads, BeginRaises(t)
        PROVE  ThreadInv'
    BY <2>15 DEF BeginRaises
  <2>16. ASSUME NEW t \in Threads, NEW h \in Handles, BeginTransaction(t, h)
        PROVE  ThreadInv'
    BY <2>16 DEF BeginTransaction
  <2>17. ASSUME NEW t \in Threads, EndUnknown(t)
        PROVE  ThreadInv'
    BY <2>17 DEF EndUnknown
  <2>18. ASSUME NEW t \in Threads, EndTransaction(t)
        PROVE  ThreadInv'
    BY <2>18 DEF EndTransaction
  <2>19. ASSUME NEW t \in Threads, NEW i \in SessionIds, CloseSession(t, i)
        PROVE  ThreadInv'
    BY <2>19 DEF CloseSession
  <2>20. ASSUME NEW t \in Threads, CloseAll(t)
        PROVE  ThreadInv'
    BY <2>20 DEF CloseAll, Registered
  <2>21. ASSUME NEW t \in Threads, NEW s \in Sessions, CloseEnter(t, s)
        PROVE  ThreadInv'
    BY <2>21 DEF CloseEnter
  <2>22. ASSUME NEW t \in Threads, CloseStatements(t)
        PROVE  ThreadInv'
    BY <2>22 DEF CloseStatements
  <2>23. ASSUME NEW t \in Threads, RollBackOpen(t)
        PROVE  ThreadInv'
    BY <2>23 DEF RollBackOpen
  <2>24. ASSUME NEW t \in Threads, CloseConnection(t)
        PROVE  ThreadInv'
    BY <2>24 DEF CloseConnection
  <2>25. ASSUME NEW t \in Threads, CloseReturns(t)
        PROVE  ThreadInv'
    BY <2>25 DEF CloseReturns
  <2>26. CASE UNCHANGED vars
    BY <2>26 DEF vars
  <2> HIDE DEF Goto, Return, InSession, AcquireSessionLock, ReleaseSessionLock,
           LeaveSession, NoEffect, ThreadInv, LockInv, OneOwner, Owed,
           Registered, HoldsSession, TypeOK, Labels, CloseLabels,
           storeVars, lockVars, threadVars
  <2>. QED
    BY <2>1, <2>2, <2>3, <2>4, <2>5, <2>6, <2>7, <2>8, <2>9, <2>10, <2>11,
       <2>12, <2>13, <2>14, <2>15, <2>16, <2>17, <2>18, <2>19, <2>20,
       <2>21, <2>22, <2>23, <2>24, <2>25, <2>26
    DEF Next, Call, Work
<1>3. TypeOK /\ LockInv /\ ThreadInv /\ OneOwner /\ [Next]_vars => OneOwner'
  <2> SUFFICES ASSUME TypeOK, LockInv, ThreadInv, OneOwner, [Next]_vars
               PROVE  OneOwner'
    OBVIOUS
  <2> USE NoneAssumption
      DEF Goto, Return, InSession, AcquireSessionLock, ReleaseSessionLock,
          LeaveSession, NoEffect, OneOwner, ThreadInv, LockInv, Owed,
          Registered, HoldsSession, TypeOK, Labels, CloseLabels
  <2>1. CASE QuietStep
    BY <2>1 DEF QuietStep, storeVars
  <2>2. ASSUME NEW t \in Threads, NEW s \in Sessions, CreateSession(t, s)
        PROVE  OneOwner'
    BY <2>2 DEF CreateSession
  <2>3. ASSUME NEW t \in Threads, UseSession(t)
        PROVE  OneOwner'
    <3>1. UNCHANGED <<registry, conn, todo>>
      BY <2>3 DEF UseSession
    <3>. QED
      BY <3>1 DEF OneOwner, Owed, Registered
  <2>4. ASSUME NEW t \in Threads, NEW h \in Handles, AddPreparedStatement(t, h)
        PROVE  OneOwner'
    <3>1. UNCHANGED <<registry, conn, todo>>
      BY <2>4 DEF AddPreparedStatement
    <3>. QED
      BY <3>1 DEF OneOwner, Owed, Registered
  <2>5. ASSUME NEW t \in Threads, PopPreparedStatement(t)
        PROVE  OneOwner'
    <3>1. UNCHANGED <<registry, conn, todo>>
      BY <2>5 DEF PopPreparedStatement
    <3>. QED
      BY <3>1 DEF OneOwner, Owed, Registered
  <2>6. ASSUME NEW t \in Threads, CloseCursor(t)
        PROVE  OneOwner'
    <3>1. UNCHANGED <<registry, conn, todo>>
      BY <2>6 DEF CloseCursor
    <3>. QED
      BY <3>1 DEF OneOwner, Owed, Registered
  <2>7. ASSUME NEW t \in Threads, NEW h \in Handles, BeginTransaction(t, h)
        PROVE  OneOwner'
    <3>1. UNCHANGED <<registry, conn, todo>>
      BY <2>7 DEF BeginTransaction
    <3>. QED
      BY <3>1 DEF OneOwner, Owed, Registered
  <2>8. ASSUME NEW t \in Threads, EndTransaction(t)
        PROVE  OneOwner'
    <3>1. UNCHANGED <<registry, conn, todo>>
      BY <2>8 DEF EndTransaction
    <3>. QED
      BY <3>1 DEF OneOwner, Owed, Registered
  <2>9. ASSUME NEW t \in Threads, NEW i \in SessionIds, CloseSession(t, i)
        PROVE  OneOwner'
    BY <2>9, SMTT(30) DEF CloseSession
  <2>10. ASSUME NEW t \in Threads, CloseAll(t)
        PROVE  OneOwner'
    <3>1. todo[t] = {}
      BY <2>10 DEF CloseAll, ThreadInv, CloseLabels
    <3>2. todo' = [todo EXCEPT ![t] = Registered] /\ Registered \subseteq Sessions
      BY <2>10 DEF CloseAll, TypeOK, Registered
    <3>3. Registered' = {} /\ registry' = [i \in SessionIds |-> None]
      BY <2>10 DEF CloseAll, Registered
    <3>4. ASSUME NEW r \in Sessions
          PROVE  Owed(r)' <=> (Owed(r) \/ r \in Registered)
      BY <3>1, <3>2 DEF Owed, TypeOK
    <3>5. conn' = conn
      BY <2>10 DEF CloseAll
    <3>6. ASSUME NEW u \in Threads, NEW v \in Threads, todo'[u] \cap todo'[v] # {}
          PROVE  u = v
      BY <3>1, <3>2, <3>6 DEF OneOwner, Owed, TypeOK
    <3>. QED
      BY <3>3, <3>4, <3>5, <3>6 DEF OneOwner
  <2>11. ASSUME NEW t \in Threads, CloseStatements(t)
        PROVE  OneOwner'
    <3>1. UNCHANGED <<registry, conn, todo>>
      BY <2>11 DEF CloseStatements
    <3>. QED
      BY <3>1 DEF OneOwner, Owed, Registered
  <2>12. ASSUME NEW t \in Threads, RollBackOpen(t)
        PROVE  OneOwner'
    <3>1. UNCHANGED <<registry, conn, todo>>
      BY <2>12 DEF RollBackOpen
    <3>. QED
      BY <3>1 DEF OneOwner, Owed, Registered
  <2>13. ASSUME NEW t \in Threads, CloseConnection(t)
        PROVE  OneOwner'
    BY <2>13 DEF CloseConnection
  <2> HIDE DEF Goto, Return, InSession, AcquireSessionLock, ReleaseSessionLock,
           LeaveSession, NoEffect, OneOwner, ThreadInv, LockInv, Owed,
           Registered, HoldsSession, TypeOK, Labels, CloseLabels
  <2>. QED
    BY <2>1, <2>2, <2>3, <2>4, <2>5, <2>6, <2>7, <2>8, <2>9, <2>10, <2>11,
       <2>12, <2>13, StepKinds
    DEF StoreStep
<1>. QED
  BY <1>1, <1>2, <1>3, TypeCorrect, LocksHeld, PTL DEF Spec

(* Only an open session holds statements, handles or a transaction. *)
THEOREM NothingHeldUnlessOpen == Spec => []OnlyOpenHolds
<1>1. Init => OnlyOpenHolds
  BY NoneAssumption DEF Init, OnlyOpenHolds
<1>2. TypeOK /\ ThreadInv /\ OnlyOpenHolds /\ [Next]_vars => OnlyOpenHolds'
  <2> SUFFICES ASSUME TypeOK, ThreadInv, OnlyOpenHolds, [Next]_vars
               PROVE  OnlyOpenHolds'
    OBVIOUS
  <2> USE NoneAssumption
      DEF Goto, Return, InSession, AcquireSessionLock, ReleaseSessionLock,
          LeaveSession, NoEffect, OnlyOpenHolds, ThreadInv, HoldsSession,
          TypeOK, Labels, CloseLabels
  <2>1. CASE QuietStep
    BY <2>1 DEF QuietStep, storeVars
  <2>2. ASSUME NEW t \in Threads, NEW s \in Sessions, CreateSession(t, s)
        PROVE  OnlyOpenHolds'
    BY <2>2 DEF CreateSession
  <2>3. ASSUME NEW t \in Threads, UseSession(t)
        PROVE  OnlyOpenHolds'
    BY <2>3 DEF UseSession
  <2>4. ASSUME NEW t \in Threads, NEW h \in Handles, AddPreparedStatement(t, h)
        PROVE  OnlyOpenHolds'
    BY <2>4 DEF AddPreparedStatement
  <2>5. ASSUME NEW t \in Threads, PopPreparedStatement(t)
        PROVE  OnlyOpenHolds'
    BY <2>5 DEF PopPreparedStatement
  <2>6. ASSUME NEW t \in Threads, CloseCursor(t)
        PROVE  OnlyOpenHolds'
    BY <2>6 DEF CloseCursor
  <2>7. ASSUME NEW t \in Threads, NEW h \in Handles, BeginTransaction(t, h)
        PROVE  OnlyOpenHolds'
    BY <2>7 DEF BeginTransaction
  <2>8. ASSUME NEW t \in Threads, EndTransaction(t)
        PROVE  OnlyOpenHolds'
    BY <2>8 DEF EndTransaction
  <2>9. ASSUME NEW t \in Threads, NEW i \in SessionIds, CloseSession(t, i)
        PROVE  OnlyOpenHolds'
    BY <2>9 DEF CloseSession
  <2>10. ASSUME NEW t \in Threads, CloseAll(t)
        PROVE  OnlyOpenHolds'
    BY <2>10 DEF CloseAll
  <2>11. ASSUME NEW t \in Threads, CloseStatements(t)
        PROVE  OnlyOpenHolds'
    BY <2>11 DEF CloseStatements
  <2>12. ASSUME NEW t \in Threads, RollBackOpen(t)
        PROVE  OnlyOpenHolds'
    BY <2>12 DEF RollBackOpen
  <2>13. ASSUME NEW t \in Threads, CloseConnection(t)
        PROVE  OnlyOpenHolds'
    BY <2>13 DEF CloseConnection
  <2> HIDE DEF Goto, Return, InSession, AcquireSessionLock, ReleaseSessionLock,
           LeaveSession, NoEffect, OnlyOpenHolds, ThreadInv, HoldsSession,
           TypeOK, Labels, CloseLabels
  <2>. QED
    BY <2>1, <2>2, <2>3, <2>4, <2>5, <2>6, <2>7, <2>8, <2>9, <2>10, <2>11,
       <2>12, <2>13, StepKinds
    DEF StoreStep
<1>. QED
  BY <1>1, <1>2, TypeCorrect, SessionsOwned, PTL DEF Spec

(* Closed sessions hold nothing. *)
THEOREM ClosedReleased == Spec => []ClosedIsReleased
<1>1. OnlyOpenHolds => ClosedIsReleased
  BY DEF OnlyOpenHolds, ClosedIsReleased
<1>. QED
  BY <1>1, NothingHeldUnlessOpen, PTL

(* The session's transaction table agrees with DuckDB. *)
THEOREM TxnBookkept == Spec => []TxnBookkeeping
<1>1. Init => TxnBookkeeping
  BY NoneAssumption DEF Init, TxnBookkeeping
<1>2. TypeOK /\ ThreadInv /\ OnlyOpenHolds /\ TxnBookkeeping /\ [Next]_vars => TxnBookkeeping'
  <2> SUFFICES ASSUME TypeOK, ThreadInv, OnlyOpenHolds, TxnBookkeeping, [Next]_vars
               PROVE  TxnBookkeeping'
    OBVIOUS
  <2> USE NoneAssumption
      DEF Goto, Return, InSession, AcquireSessionLock, ReleaseSessionLock,
          LeaveSession, NoEffect, TxnBookkeeping, OnlyOpenHolds, ThreadInv,
          HoldsSession, TypeOK, Labels, CloseLabels
  <2>1. CASE QuietStep
    BY <2>1 DEF QuietStep, storeVars
  <2>2. ASSUME NEW t \in Threads, NEW s \in Sessions, CreateSession(t, s)
        PROVE  TxnBookkeeping'
    BY <2>2 DEF CreateSession
  <2>3. ASSUME NEW t \in Threads, UseSession(t)
        PROVE  TxnBookkeeping'
    BY <2>3 DEF UseSession
  <2>4. ASSUME NEW t \in Threads, NEW h \in Handles, AddPreparedStatement(t, h)
        PROVE  TxnBookkeeping'
    BY <2>4 DEF AddPreparedStatement
  <2>5. ASSUME NEW t \in Threads, PopPreparedStatement(t)
        PROVE  TxnBookkeeping'
    BY <2>5 DEF PopPreparedStatement
  <2>6. ASSUME NEW t \in Threads, CloseCursor(t)
        PROVE  TxnBookkeeping'
    BY <2>6 DEF CloseCursor
  <2>7. ASSUME NEW t \in Threads, NEW h \in Handles, BeginTransaction(t, h)
        PROVE  TxnBookkeeping'
    BY <2>7 DEF BeginTransaction
  <2>8. ASSUME NEW t \in Threads, EndTransaction(t)
        PROVE  TxnBookkeeping'
    BY <2>8 DEF EndTransaction
  <2>9. ASSUME NEW t \in Threads, NEW i \in SessionIds, CloseSession(t, i)
        PROVE  TxnBookkeeping'
    BY <2>9 DEF CloseSession
  <2>10. ASSUME NEW t \in Threads, CloseAll(t)
        PROVE  TxnBookkeeping'
    BY <2>10 DEF CloseAll
  <2>11. ASSUME NEW t \in Threads, CloseStatements(t)
        PROVE  TxnBookkeeping'
    BY <2>11 DEF CloseStatements
  <2>12. ASSUME NEW t \in Threads, RollBackOpen(t)
        PROVE  TxnBookkeeping'
    <3>1. at[t] \in Sessions
      BY <2>12 DEF RollBackOpen, ThreadInv, HoldsSession, CloseLabels
    <3>2. ASSUME NEW r \in Sessions, r # at[t]
          PROVE  openTxns'[r] = openTxns[r] /\ inTxn'[r] = inTxn[r]
      BY <2>12, <3>2 DEF RollBackOpen, TypeOK
    <3>3. openTxns'[at[t]] = {}
      BY <2>12, <3>1 DEF RollBackOpen, TypeOK
    <3>4. inTxn'[at[t]] = (inTxn[at[t]] /\ openTxns[at[t]] = {})
      BY <2>12, <3>1 DEF RollBackOpen, TypeOK
    <3>5. at[t] \notin rawSql => ~inTxn'[at[t]]
      BY <2>12, <3>1, <3>4, Zenon DEF TxnBookkeeping, RollBackOpen
    <3>6. rawSql' = rawSql
      BY <2>12 DEF RollBackOpen
    <3>. QED
      BY <3>6, <3>2, <3>3, <3>5 DEF TxnBookkeeping
  <2>13. ASSUME NEW t \in Threads, CloseConnection(t)
        PROVE  TxnBookkeeping'
    BY <2>13 DEF CloseConnection
  <2> HIDE DEF Goto, Return, InSession, AcquireSessionLock, ReleaseSessionLock,
           LeaveSession, NoEffect, TxnBookkeeping, OnlyOpenHolds,
           ThreadInv, HoldsSession, TypeOK, Labels, CloseLabels
  <2>. QED
    BY <2>1, <2>2, <2>3, <2>4, <2>5, <2>6, <2>7, <2>8, <2>9, <2>10, <2>11,
       <2>12, <2>13, StepKinds
    DEF StoreStep
<1>. QED
  BY <1>1, <1>2, TypeCorrect, SessionsOwned, NothingHeldUnlessOpen, PTL DEF Spec

(* A statement handle sits in one table or with one closing thread. *)
THEOREM HandlesUsedOnce == Spec => []HandleInv
<1>1. Init => HandleInv
  BY NoneAssumption DEF Init, HandleInv
<1>2. TypeOK /\ ThreadInv /\ HandleInv /\ [Next]_vars => HandleInv'
  <2> SUFFICES ASSUME TypeOK, ThreadInv, HandleInv, [Next]_vars
               PROVE  HandleInv'
    OBVIOUS
  <2> USE NoneAssumption
      DEF Goto, Return, InSession, AcquireSessionLock, ReleaseSessionLock,
          LeaveSession, NoEffect, HandleInv, ThreadInv, HoldsSession,
          TypeOK, Labels, CloseLabels
  <2>1. CASE QuietStep
    BY <2>1 DEF QuietStep, storeVars
  <2>2. ASSUME NEW t \in Threads, NEW s \in Sessions, CreateSession(t, s)
        PROVE  HandleInv'
    BY <2>2 DEF CreateSession
  <2>3. ASSUME NEW t \in Threads, UseSession(t)
        PROVE  HandleInv'
    BY <2>3 DEF UseSession
  <2>4. ASSUME NEW t \in Threads, NEW h \in Handles, AddPreparedStatement(t, h)
        PROVE  HandleInv'
    BY <2>4 DEF AddPreparedStatement
  <2>5. ASSUME NEW t \in Threads, PopPreparedStatement(t)
        PROVE  HandleInv'
    BY <2>5 DEF PopPreparedStatement
  <2>6. ASSUME NEW t \in Threads, CloseCursor(t)
        PROVE  HandleInv'
    BY <2>6 DEF CloseCursor
  <2>7. ASSUME NEW t \in Threads, NEW h \in Handles, BeginTransaction(t, h)
        PROVE  HandleInv'
    BY <2>7 DEF BeginTransaction
  <2>8. ASSUME NEW t \in Threads, EndTransaction(t)
        PROVE  HandleInv'
    BY <2>8 DEF EndTransaction
  <2>9. ASSUME NEW t \in Threads, NEW i \in SessionIds, CloseSession(t, i)
        PROVE  HandleInv'
    BY <2>9 DEF CloseSession
  <2>10. ASSUME NEW t \in Threads, CloseAll(t)
        PROVE  HandleInv'
    BY <2>10 DEF CloseAll
  <2>11. ASSUME NEW t \in Threads, CloseStatements(t)
        PROVE  HandleInv'
    BY <2>11 DEF CloseStatements
  <2>12. ASSUME NEW t \in Threads, RollBackOpen(t)
        PROVE  HandleInv'
    BY <2>12 DEF RollBackOpen
  <2>13. ASSUME NEW t \in Threads, CloseConnection(t)
        PROVE  HandleInv'
    BY <2>13 DEF CloseConnection
  <2> HIDE DEF Goto, Return, InSession, AcquireSessionLock, ReleaseSessionLock,
           LeaveSession, NoEffect, HandleInv, ThreadInv, HoldsSession,
           TypeOK, Labels, CloseLabels
  <2>. QED
    BY <2>1, <2>2, <2>3, <2>4, <2>5, <2>6, <2>7, <2>8, <2>9, <2>10, <2>11,
       <2>12, <2>13, StepKinds
    DEF StoreStep
<1>. QED
  BY <1>1, <1>2, TypeCorrect, SessionsOwned, PTL DEF Spec

(* The locking discipline of session.py as a whole: the locks, the locals  *)
(* of the threads, empty closed sessions, and handles with one owner.      *)
THEOREM DisciplineKept == Spec => []Discipline
  BY LocksHeld, SessionsOwned, NothingHeldUnlessOpen, HandlesUsedOnce, PTL DEF Discipline

(* No child cursor leaks and no handle dangles. *)
THEOREM CursorsAccounted == Spec => []CursorAccounting
<1>1. Init => CursorAccounting
  BY NoneAssumption DEF Init, CursorAccounting
<1>2. TypeOK /\ ThreadInv /\ HandleInv /\ CursorAccounting /\ [Next]_vars => CursorAccounting'
  <2> SUFFICES ASSUME TypeOK, ThreadInv, HandleInv, CursorAccounting, [Next]_vars
               PROVE  CursorAccounting'
    OBVIOUS
  <2> USE NoneAssumption
      DEF Goto, Return, InSession, AcquireSessionLock, ReleaseSessionLock,
          LeaveSession, NoEffect, CursorAccounting, HandleInv, ThreadInv,
          HoldsSession, TypeOK, Labels, CloseLabels
  <2>1. CASE QuietStep
    <3>1. UNCHANGED <<cursor, prepared>>
      BY <2>1 DEF QuietStep, storeVars
    <3>2. ASSUME NEW h \in Handles, NEW u \in Threads
          PROVE  pc'[u] = "close_cursor" /\ key'[u] = h <=> pc[u] = "close_cursor" /\ key[u] = h
      BY <2>1 DEF QuietStep
    <3>. QED
      BY <3>1, <3>2 DEF CursorAccounting
  <2>2. ASSUME NEW t \in Threads, NEW s \in Sessions, CreateSession(t, s)
        PROVE  CursorAccounting'
    BY <2>2 DEF CreateSession
  <2>3. ASSUME NEW t \in Threads, UseSession(t)
        PROVE  CursorAccounting'
    BY <2>3 DEF UseSession
  <2>4. ASSUME NEW t \in Threads, NEW h \in Handles, AddPreparedStatement(t, h)
        PROVE  CursorAccounting'
    BY <2>4 DEF AddPreparedStatement
  <2>5. ASSUME NEW t \in Threads, PopPreparedStatement(t)
        PROVE  CursorAccounting'
    BY <2>5 DEF PopPreparedStatement
  <2>6. ASSUME NEW t \in Threads, CloseCursor(t)
        PROVE  CursorAccounting'
    BY <2>6 DEF CloseCursor
  <2>7. ASSUME NEW t \in Threads, NEW h \in Handles, BeginTransaction(t, h)
        PROVE  CursorAccounting'
    BY <2>7 DEF BeginTransaction
  <2>8. ASSUME NEW t \in Threads, EndTransaction(t)
        PROVE  CursorAccounting'
    BY <2>8 DEF EndTransaction
  <2>9. ASSUME NEW t \in Threads, NEW i \in SessionIds, CloseSession(t, i)
        PROVE  CursorAccounting'
    BY <2>9 DEF CloseSession
  <2>10. ASSUME NEW t \in Threads, CloseAll(t)
        PROVE  CursorAccounting'
    BY <2>10 DEF CloseAll
  <2>11. ASSUME NEW t \in Threads, CloseStatements(t)
        PROVE  CursorAccounting'
    BY <2>11 DEF CloseStatements
  <2>12. ASSUME NEW t \in Threads, RollBackOpen(t)
        PROVE  CursorAccounting'
    BY <2>12 DEF RollBackOpen
  <2>13. ASSUME NEW t \in Threads, CloseConnection(t)
        PROVE  CursorAccounting'
    BY <2>13 DEF CloseConnection
  <2> HIDE DEF Goto, Return, InSession, AcquireSessionLock, ReleaseSessionLock,
           LeaveSession, NoEffect, CursorAccounting, HandleInv, ThreadInv,
           HoldsSession, TypeOK, Labels, CloseLabels
  <2>. QED
    BY <2>1, <2>2, <2>3, <2>4, <2>5, <2>6, <2>7, <2>8, <2>9, <2>10, <2>11,
       <2>12, <2>13, StepKinds
    DEF StoreStep
<1>. QED
  BY <1>1, <1>2, TypeCorrect, SessionsOwned, HandlesUsedOnce, PTL DEF Spec

(* Removing a transaction handle leaves DuckDB's transaction too. *)
THEOREM EndingLeavesTransaction == Spec => EndLeavesTransaction
<1> DEFINE A == \A s \in Sessions :
                openTxns[s] \ openTxns'[s] # {} => ~inTxn'[s]
<1>1. TypeOK /\ ThreadInv /\ [Next]_vars => [A]_vars
  <2> SUFFICES ASSUME TypeOK, ThreadInv, [Next]_vars
               PROVE  A
    OBVIOUS
  <2> USE NoneAssumption
      DEF Goto, Return, InSession, AcquireSessionLock, ReleaseSessionLock,
          LeaveSession, NoEffect, ThreadInv, HoldsSession, TypeOK, Labels,
          CloseLabels
  <2>1. CASE QuietStep
    BY <2>1 DEF QuietStep, storeVars
  <2>2. ASSUME NEW t \in Threads, NEW s \in Sessions, CreateSession(t, s)
        PROVE  A
    BY <2>2 DEF CreateSession
  <2>3. ASSUME NEW t \in Threads, UseSession(t)
        PROVE  A
    BY <2>3 DEF UseSession
  <2>4. ASSUME NEW t \in Threads, NEW h \in Handles, AddPreparedStatement(t, h)
        PROVE  A
    BY <2>4 DEF AddPreparedStatement
  <2>5. ASSUME NEW t \in Threads, PopPreparedStatement(t)
        PROVE  A
    BY <2>5 DEF PopPreparedStatement
  <2>6. ASSUME NEW t \in Threads, CloseCursor(t)
        PROVE  A
    BY <2>6 DEF CloseCursor
  <2>7. ASSUME NEW t \in Threads, NEW h \in Handles, BeginTransaction(t, h)
        PROVE  A
    BY <2>7 DEF BeginTransaction
  <2>8. ASSUME NEW t \in Threads, EndTransaction(t)
        PROVE  A
    BY <2>8 DEF EndTransaction
  <2>9. ASSUME NEW t \in Threads, NEW i \in SessionIds, CloseSession(t, i)
        PROVE  A
    BY <2>9 DEF CloseSession
  <2>10. ASSUME NEW t \in Threads, CloseAll(t)
        PROVE  A
    BY <2>10 DEF CloseAll
  <2>11. ASSUME NEW t \in Threads, CloseStatements(t)
        PROVE  A
    BY <2>11 DEF CloseStatements
  <2>12. ASSUME NEW t \in Threads, RollBackOpen(t)
        PROVE  A
    BY <2>12, ZenonT(30) DEF RollBackOpen
  <2>13. ASSUME NEW t \in Threads, CloseConnection(t)
        PROVE  A
    BY <2>13 DEF CloseConnection
  <2> HIDE DEF Goto, Return, InSession, AcquireSessionLock, ReleaseSessionLock,
           LeaveSession, NoEffect, ThreadInv, HoldsSession, TypeOK, Labels,
           CloseLabels
  <2>. QED
    BY <2>1, <2>2, <2>3, <2>4, <2>5, <2>6, <2>7, <2>8, <2>9, <2>10, <2>11,
       <2>12, <2>13, StepKinds
    DEF StoreStep
<1>. QED
  BY <1>1, TypeCorrect, SessionsOwned, PTL DEF Spec, EndLeavesTransaction

=============================================================================
