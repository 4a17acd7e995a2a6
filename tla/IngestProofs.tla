----------------------------- MODULE IngestProofs -----------------------------
(***************************************************************************)
(* Concurrent ingests, for any number of clients, threads, tables and      *)
(* ingests: an ingest that asked for a table of its own has one, and what  *)
(* is acknowledged is stored, as long as no table is called arrow_table.   *)
(***************************************************************************)
EXTENDS IngestProps, TLAPS

(* Every variable of the ingest model keeps its type. *)
LEMMA TypeStep == TypeOK /\ Books /\ [Next]_vars => TypeOK'
<1> SUFFICES ASSUME TypeOK, Books, [Next]_vars PROVE TypeOK'
  OBVIOUS
<1> USE DEF TypeOK, storeVars, threadVars, histVars
<1>1. ASSUME NEW t \in Threads, Start(t) PROVE TypeOK'
  <2>1. PICK i \in Ids : /\ doing' = [doing EXCEPT ![t] = i]
                         /\ \E c \in Clients, cmd \in Commands :
                               ingest' = [ingest EXCEPT ![i] = [client |-> c, command |-> cmd, before |-> over]]
    BY <1>1 DEF Start
  <2>2. PICK c \in Clients, cmd \in Commands :
               ingest' = [ingest EXCEPT ![i] = [client |-> c, command |-> cmd, before |-> over]]
    BY <2>1
  <2>3. [client |-> c, command |-> cmd, before |-> over] \in Calls
    BY DEF Calls
  <2>4. ingest' \in [Ids -> Calls \cup {None}]
    BY <2>2, <2>3
  <2>5. doing' \in [Threads -> Ids \cup {0}]
    BY <2>1
  <2> QED BY <1>1, <2>4, <2>5 DEF Start, Advance
<1>2. ASSUME NEW t \in Threads, TestExecute(t) PROVE TypeOK'
  BY <1>2 DEF TestExecute, Advance, Leaves
<1>3. ASSUME NEW t \in Threads, TestFetch(t) PROVE TypeOK'
  <2>1. exists' \in [Threads -> BOOLEAN]
    BY <1>3 DEF TestFetch
  <2> QED BY <1>3, <2>1 DEF TestFetch, Advance, Leaves
<1>4. ASSUME NEW t \in Threads, ReadRows(t) PROVE TypeOK'
  BY <1>4 DEF ReadRows, Advance
<1>5. ASSUME NEW t \in Threads, ReadNothing(t) \/ Refuse(t) \/ Raise(t) PROVE TypeOK'
  BY <1>5 DEF ReadNothing, Refuse, Raise, Return
<1>6. ASSUME NEW t \in Threads, DropTable(t) PROVE TypeOK'
  <2> DEFINE target == Target(Command(t))
  <2>1. tables' \in [Tables -> (SUBSET (Ids \cup {0})) \cup {None}]
    BY <1>6 DEF DropTable
  <2>2. dropped' \in [Tables -> SUBSET (Ids \cup {0})]
    <3>1. dropped' = [dropped EXCEPT ![target] = @ \cup tables[target]] /\ tables[target] # None
      BY <1>6 DEF DropTable
    <3>2. target \in Tables => tables[target] \subseteq Ids \cup {0}
      BY <3>1
    <3> HIDE DEF target
    <3> QED BY <3>1, <3>2
  <2> QED BY <1>6, <2>1, <2>2 DEF DropTable, Advance, Leaves
<1>7. ASSUME NEW t \in Threads, CreateTable(t) PROVE TypeOK'
  BY <1>7 DEF CreateTable, Leaves
<1>8. ASSUME NEW t \in Threads, Insert(t) PROVE TypeOK'
  <2> DEFINE target == Target(Command(t))
  <2>1. tables' = [tables EXCEPT ![target] = @ \cup Selected(doing[t])] /\ tables[target] # None
    BY <1>8 DEF Insert
  <2>2. Selected(doing[t]) \subseteq Ids \cup {0}
    BY DEF Selected, Tables, Schemas
  <2>3. target \in Tables => tables[target] \subseteq Ids \cup {0}
    BY <2>1
  <2> HIDE DEF target
  <2>4. tables' \in [Tables -> (SUBSET (Ids \cup {0})) \cup {None}]
    BY <2>1, <2>2, <2>3
  <2> QED BY <1>8, <2>4 DEF Insert, Leaves
<1>9. ASSUME NEW t \in Threads, Reply(t) PROVE TypeOK'
  <2>1. doing[t] \in Ids
    BY <1>9 DEF Reply, Books
  <2> QED BY <1>9, <2>1 DEF Reply, Return
<1>10. ASSUME NEW c \in Clients, OtherStatement(c) PROVE TypeOK'
  BY <1>10 DEF OtherStatement, Leaves
<1>11. CASE UNCHANGED vars
  BY <1>11 DEF vars
<1> QED BY <1>1, <1>2, <1>3, <1>4, <1>5, <1>6, <1>7, <1>8, <1>9, <1>10, <1>11 DEF Next

(* A running ingest stays one thread's, known and not over.                *)
LEMMA BooksStep == TypeOK /\ Books /\ [Next]_vars => Books'
<1> SUFFICES ASSUME TypeOK, Books, [Next]_vars PROVE Books'
  OBVIOUS
<1> USE DEF TypeOK, Books, storeVars, threadVars, histVars
<1>1. ASSUME NEW t \in Threads, Start(t) PROVE Books'
  <2>1. PICK i \in Ids : /\ ingest[i] = None
                         /\ doing' = [doing EXCEPT ![t] = i]
                         /\ \E c \in Clients, cmd \in Commands :
                               ingest' = [ingest EXCEPT ![i] = [client |-> c, command |-> cmd, before |-> over]]
    BY <1>1 DEF Start
  <2>2. PICK call \in Calls : ingest' = [ingest EXCEPT ![i] = call] /\ call.before = over
    <3>1. PICK c \in Clients, cmd \in Commands :
                 ingest' = [ingest EXCEPT ![i] = [client |-> c, command |-> cmd, before |-> over]]
      BY <2>1
    <3>2. [client |-> c, command |-> cmd, before |-> over] \in Calls
      BY DEF Calls
    <3> QED BY <3>1, <3>2
  <2>3. i # 0 /\ i \notin over
    BY <2>1, BoundAssumption DEF Ids
  <2>4. \A j \in Ids : ingest[j] # None => ingest'[j] = ingest[j]
    BY <2>1, <2>2
  <2>5. ingest'[i] = call /\ call # None
    BY <2>2, NoneAssumption
  <2>6. pc[t] = "idle" /\ pc' = [pc EXCEPT ![t] = "test"] /\ over' = over
    BY <1>1 DEF Start, Advance
  <2>7. \A u \in Threads : doing'[u] = IF u = t THEN i ELSE doing[u]
    BY <2>1
  <2>8. \A u \in Threads : doing[u] # i
    BY <2>1, <2>3
  <2>9. \A u \in Threads : doing'[u] = 0 <=> pc'[u] = "idle"
    BY <2>3, <2>6, <2>7
  <2>10. \A u \in Threads : doing'[u] # 0 => ingest'[doing'[u]] # None /\ doing'[u] \notin over'
    BY <2>3, <2>4, <2>5, <2>6, <2>7
  <2>11. \A u, v \in Threads : doing'[u] = doing'[v] /\ doing'[u] # 0 => u = v
    BY <2>7, <2>8
  <2>12. \A j \in Ids : ingest'[j] # None => ingest'[j].before \subseteq over'
    BY <2>2, <2>5, <2>6
  <2>13. \A j \in over' \ {0} : ingest'[j] # None
    BY <2>4, <2>6
  <2> QED BY <2>9, <2>10, <2>11, <2>12, <2>13
<1>2. ASSUME NEW t \in Threads, NEW l,
             pc[t] # "idle", l # "idle", pc' = [pc EXCEPT ![t] = l], UNCHANGED <<doing, ingest, over>>
      PROVE Books'
  BY <1>2
<1>3. ASSUME NEW t \in Threads, pc[t] # "idle", Return(t), UNCHANGED ingest PROVE Books'
  <2>1. /\ pc' = [pc EXCEPT ![t] = "idle"]
        /\ doing' = [doing EXCEPT ![t] = 0]
        /\ over' = over \cup {doing[t]}
        /\ doing[t] \in Ids
    BY <1>3 DEF Return
  <2>2. \A u \in Threads : doing'[u] = IF u = t THEN 0 ELSE doing[u]
    BY <2>1
  <2>3. \A u \in Threads : doing'[u] # 0 => doing'[u] \notin over'
    BY <2>1, <2>2
  <2>4. \A j \in over' \ {0} : ingest'[j] # None
    BY <1>3, <2>1
  <2> QED BY <1>3, <2>1, <2>2, <2>3, <2>4
<1>4. ASSUME NEW t \in Threads,
             TestExecute(t) \/ TestFetch(t) \/ ReadRows(t) \/ DropTable(t) PROVE Books'
  BY <1>2, <1>4 DEF TestExecute, TestFetch, ReadRows, DropTable, Advance
<1>5. ASSUME NEW t \in Threads, CreateTable(t) \/ Insert(t) PROVE Books'
  BY <1>2, <1>5 DEF CreateTable, Insert, MustCreate, MayInsert
<1>6. ASSUME NEW t \in Threads, ReadNothing(t) \/ Refuse(t) \/ Raise(t) \/ Reply(t) PROVE Books'
  BY <1>3, <1>6 DEF ReadNothing, Refuse, Raise, Reply
<1>7. ASSUME NEW c \in Clients, OtherStatement(c) PROVE Books'
  BY <1>7 DEF OtherStatement
<1>8. CASE UNCHANGED vars
  BY <1>8 DEF vars
<1> QED BY <1>1, <1>4, <1>5, <1>6, <1>7, <1>8 DEF Next

Safe == RowsKnown /\ Pending /\ CountIsStored /\ FreshIsFresh

(* A step that leaves the tables alone keeps Safe: what is known of an     *)
(* ingest never changes, and only a stored ingest is acknowledged.         *)
LEMMA TablesKept ==
    ASSUME TypeOK, Books, Safe, UNCHANGED storeVars,
           \A i \in Ids : ingest[i] # None => ingest'[i] = ingest[i],
           \A u \in Threads : pc'[u] \in {"insert", "reply"} => pc'[u] = pc[u] /\ doing'[u] = doing[u],
           \A i \in acked' : i \in acked \/ \E t \in Threads : pc[t] = "reply" /\ i = doing[t]
    PROVE  Safe'
<1> USE DEF TypeOK, Safe, storeVars
<1>1. \A t \in Threads : pc[t] # "idle" => doing[t] \in Ids /\ ingest[doing[t]] # None
  BY DEF Books
<1>2. \A i \in Ids : ingest[i] # None /\ Stored(i) => Stored(i)'
  BY DEF Stored
<1>3. \A i \in acked' : i \in Ids /\ ingest[i] # None /\ Stored(i)
  BY <1>1 DEF Pending, CountIsStored, RowsKnown
<1>4. RowsKnown'
  BY <1>3, NoneAssumption DEF RowsKnown
<1>5. CountIsStored'
  BY <1>2, <1>3 DEF CountIsStored
<1>6. FreshIsFresh'
  BY DEF FreshIsFresh, RowsKnown
<1>7. ASSUME NEW u \in Threads, pc'[u] \in {"insert", "reply"}
      PROVE  doing'[u] = doing[u] /\ pc'[u] = pc[u] /\ doing[u] \in Ids
             /\ ingest[doing[u]] # None /\ ingest'[doing[u]] = ingest[doing[u]]
  BY <1>1, <1>7
<1>8. Pending'
  BY <1>2, <1>7 DEF Pending, Command
<1> QED BY <1>4, <1>5, <1>6, <1>8

(* The table a known ingest names is one of Tables.                        *)
LEMMA TargetTable ==
    ASSUME TypeOK, NEW i \in Ids, ingest[i] # None
    PROVE  Target(ingest[i].command) \in Tables
<1>1. ingest[i] \in Calls
  BY DEF TypeOK
<1>2. ingest[i].command \in Commands
  BY <1>1 DEF Calls
<1> QED BY <1>2 DEF Target, Tables, Schemas, Commands

(* Every step keeps Safe, unless INSERT reads a table named arrow_table.   *)
LEMMA SafeStep ==
    ASSUME "arrow_table" \notin Names
    PROVE  TypeOK /\ Books /\ Safe /\ [Next]_vars => Safe'
<1> SUFFICES ASSUME TypeOK, Books, Safe, [Next]_vars PROVE Safe'
  OBVIOUS
<1>a. \A u \in Threads : pc[u] # "idle" => doing[u] \in Ids /\ ingest[doing[u]] # None
  BY DEF TypeOK, Books
<1>1. ASSUME NEW t \in Threads, Start(t) PROVE Safe'
  <2>1. /\ \A i \in Ids : ingest[i] # None => ingest'[i] = ingest[i]
        /\ pc' = [pc EXCEPT ![t] = "test"]
        /\ \A u \in Threads : u # t => doing'[u] = doing[u]
        /\ UNCHANGED storeVars /\ acked' = acked
    BY <1>1 DEF Start, Advance, TypeOK
  <2>2. \A u \in Threads : pc'[u] \in {"insert", "reply"} => pc'[u] = pc[u] /\ doing'[u] = doing[u]
    BY <2>1 DEF TypeOK
  <2> QED BY <2>1, <2>2, TablesKept
<1>2. ASSUME NEW t \in Threads, NEW l, l \notin {"insert", "reply"}, pc' = [pc EXCEPT ![t] = l],
             \A u \in Threads : u # t => doing'[u] = doing[u],
             \A i \in acked' : i \in acked \/ (pc[t] = "reply" /\ i = doing[t]),
             UNCHANGED <<storeVars, ingest>>
      PROVE Safe'
  <2>1. \A u \in Threads : pc'[u] \in {"insert", "reply"} => pc'[u] = pc[u] /\ doing'[u] = doing[u]
    BY <1>2 DEF TypeOK
  <2> QED BY <1>2, <2>1, TablesKept
<1>3. ASSUME NEW t \in Threads, TestExecute(t) \/ TestFetch(t) \/ ReadRows(t) PROVE Safe'
  <2>1. PICK l : /\ l \notin {"insert", "reply"} /\ pc' = [pc EXCEPT ![t] = l]
                 /\ doing' = doing /\ acked' = acked /\ UNCHANGED <<storeVars, ingest>>
    BY <1>3 DEF TestExecute, TestFetch, ReadRows, Advance, histVars
  <2> QED BY <1>2, <2>1
<1>4. ASSUME NEW t \in Threads, ReadNothing(t) \/ Refuse(t) \/ Raise(t) \/ Reply(t) PROVE Safe'
  <2>1. /\ pc' = [pc EXCEPT ![t] = "idle"]
        /\ \A u \in Threads : u # t => doing'[u] = doing[u]
        /\ UNCHANGED <<storeVars, ingest>>
    BY <1>4 DEF ReadNothing, Refuse, Raise, Reply, Return, TypeOK
  <2>2. \A i \in acked' : i \in acked \/ (pc[t] = "reply" /\ i = doing[t])
    BY <1>4 DEF ReadNothing, Refuse, Raise, Reply
  <2> QED BY <1>2, <2>1, <2>2
<1>5. ASSUME NEW t \in Threads, DropTable(t) PROVE Safe'
  <2> DEFINE target == Target(Command(t))
  <2>1. /\ pc[t] = "define" /\ pc' = [pc EXCEPT ![t] = "create"]
        /\ tables[target] # None
        /\ tables' = [tables EXCEPT ![target] = None]
        /\ dropped' = [dropped EXCEPT ![target] = @ \cup tables[target]]
        /\ UNCHANGED <<doing, ingest, acked>>
    BY <1>5 DEF DropTable, Advance, histVars
  <2>2. target \in Tables
    BY <1>a, <2>1, TargetTable DEF Command
  <2> HIDE DEF target
  <2>3. \A table \in Tables : tables'[table] # None => tables[table] # None /\ tables'[table] = tables[table]
    BY <2>1, <2>2 DEF TypeOK
  <2>4. \A i \in Ids : ingest[i] # None /\ Stored(i) => Stored(i)'
    <3> SUFFICES ASSUME NEW i \in Ids, ingest[i] # None, Stored(i) PROVE Stored(i)'
      OBVIOUS
    <3>1. Target(ingest[i].command) \in Tables
      BY TargetTable
    <3>2. (Target(ingest[i].command))' = Target(ingest[i].command)
      BY <2>1 DEF Target
    <3> QED BY <2>1, <2>2, <3>1, <3>2 DEF Stored, TypeOK
  <2>5. \A u \in Threads : pc'[u] \in {"insert", "reply"} =>
           /\ pc'[u] = pc[u] /\ doing[u] \in Ids /\ ingest[doing[u]] # None
           /\ Target(Command(u)) \in Tables
    BY <1>a, <2>1, TargetTable DEF TypeOK, Command
  <2>6. RowsKnown' /\ FreshIsFresh'
    BY <2>1, <2>3 DEF Safe, RowsKnown, FreshIsFresh
  <2>7. CountIsStored'
    BY <2>1, <2>4 DEF Safe, CountIsStored, RowsKnown, TypeOK
  <2>8. Pending'
    BY <2>1, <2>3, <2>4, <2>5 DEF Safe, Pending, Command
  <2> QED BY <2>6, <2>7, <2>8 DEF Safe
<1>6. ASSUME NEW t \in Threads, CreateTable(t) PROVE Safe'
  <2> DEFINE target == Target(Command(t))
  <2>1. /\ pc[t] # "idle" /\ pc' = [pc EXCEPT ![t] = "insert"]
        /\ tables[target] = None
        /\ tables' = [tables EXCEPT ![target] = {}]
        /\ UNCHANGED <<dropped, doing, ingest, acked>>
    BY <1>6 DEF CreateTable, MustCreate, histVars
  <2>2. target \in Tables
    BY <1>a, <2>1, TargetTable DEF Command
  <2> HIDE DEF target
  <2>3. \A table \in Tables : tables'[table] = IF table = target THEN {} ELSE tables[table]
    BY <2>1, <2>2 DEF TypeOK
  <2>4. \A i \in Ids : ingest[i] # None /\ Stored(i) => Stored(i)'
    <3> SUFFICES ASSUME NEW i \in Ids, ingest[i] # None, Stored(i) PROVE Stored(i)'
      OBVIOUS
    <3>1. Target(ingest[i].command) \in Tables
      BY TargetTable
    <3>2. (Target(ingest[i].command))' = Target(ingest[i].command)
      BY <2>1 DEF Target
    <3> QED BY <2>1, <2>3, <3>1, <3>2 DEF Stored
  <2>5. \A u \in Threads : u # t /\ pc'[u] \in {"insert", "reply"} =>
           /\ pc'[u] = pc[u] /\ doing[u] \in Ids /\ ingest[doing[u]] # None
           /\ Target(Command(u)) \in Tables
    BY <1>a, <2>1, TargetTable DEF TypeOK, Command
  <2>6. RowsKnown' /\ FreshIsFresh'
    BY <2>1, <2>3 DEF Safe, RowsKnown, FreshIsFresh
  <2>7. CountIsStored'
    BY <2>1, <2>4 DEF Safe, CountIsStored, RowsKnown, TypeOK
  <2>8. ASSUME NEW u \in Threads PROVE
           /\ pc'[u] = "insert" /\ tables'[Target(Command(u))] # None
              => tables'[Target(Command(u))] \cap ingest[doing[u]].before = {}
           /\ pc'[u] = "reply" => Stored(doing[u])'
    <3>1. CASE u = t
      <4>1. pc'[t] = "insert" /\ tables'[target] = {}
        BY <2>1, <2>2, <2>3 DEF TypeOK
      <4> QED BY <3>1, <4>1 DEF target
    <3>2. CASE u # t
      BY <2>3, <2>4, <2>5, <3>2, <2>1 DEF Safe, Pending
    <3> QED BY <3>1, <3>2
  <2>9. Pending'
    <3>1. \A u \in Threads : (Command(u))' = Command(u) /\ (Target(Command(u)))' = Target(Command(u))
      BY <2>1 DEF Command, Target
    <3> QED BY <2>1, <2>8, <3>1 DEF Pending
  <2> QED BY <2>6, <2>7, <2>9 DEF Safe
<1>7. ASSUME NEW t \in Threads, Insert(t) PROVE Safe'
  <2>1. pc[t] # "idle"
    BY <1>7 DEF Insert, MayInsert
  <2>2. PICK me \in Ids : me = doing[t] /\ ingest[me] # None
    BY <1>a, <2>1
  <2>3. PICK target \in Tables : target = Target(ingest[me].command) /\ target = Target(Command(t))
    BY <2>2, TargetTable DEF Command
  <2>4. /\ pc' = [pc EXCEPT ![t] = "reply"]
        /\ tables[target] # None
        /\ tables' = [tables EXCEPT ![target] = @ \cup {me}]
        /\ UNCHANGED <<dropped, doing, ingest, acked>>
    BY <1>7, <2>2, <2>3 DEF Insert, histVars, Selected
  <2>5. \A i \in Ids : ingest[i] # None => me \notin ingest[i].before
    BY <2>2, BoundAssumption DEF Books, Ids
  <2>6. /\ pc[t] = "insert" \/ ingest[me].command.if_exists = "APPEND"
        /\ pc[t] = "insert" => tables[target] \cap ingest[me].before = {}
    <3>1. pc[t] = "insert" \/ ingest[me].command.if_exists = "APPEND"
      BY <1>7, <2>2 DEF Insert, MayInsert, Command
    <3> QED BY <2>2, <2>3, <2>4, <3>1 DEF Safe, Pending
  <2>7. \A table \in Tables :
           tables'[table] = IF table = target THEN tables[target] \cup {me} ELSE tables[table]
    BY <2>4 DEF TypeOK
  <2>8. tables[target] \cup {me} # None
    <3>1. tables[target] \in SUBSET (Ids \cup {0})
      BY <2>4 DEF TypeOK
    <3> QED BY <3>1, NoneAssumption
  <2>9. \A i \in Ids : ingest[i] # None /\ Stored(i) => Stored(i)'
    <3> SUFFICES ASSUME NEW i \in Ids, ingest[i] # None, Stored(i) PROVE Stored(i)'
      OBVIOUS
    <3>1. Target(ingest[i].command) \in Tables
      BY TargetTable
    <3>2. (Target(ingest[i].command))' = Target(ingest[i].command)
      BY <2>4 DEF Target
    <3> QED BY <2>4, <2>7, <2>8, <3>1, <3>2 DEF Stored
  <2>10. Stored(me)'
    <3>1. (Target(ingest[me].command))' = target
      BY <2>3, <2>4 DEF Target
    <3> QED BY <2>7, <2>8, <3>1 DEF Stored
  <2>11. RowsKnown'
    BY <2>2, <2>4, <2>7 DEF Safe, RowsKnown
  <2>12. CountIsStored'
    BY <2>4, <2>9 DEF Safe, CountIsStored, RowsKnown, TypeOK
  <2>13. FreshIsFresh'
    <3> SUFFICES ASSUME NEW table \in Tables, tables'[table] # None, NEW i \in tables'[table] \ {0},
                        ingest[i].command.if_exists \in {"FAIL", "REPLACE"}
                 PROVE  tables'[table] \cap ingest[i].before = {}
      BY <2>4 DEF FreshIsFresh
    <3>1. CASE table # target
      BY <2>7, <3>1 DEF Safe, FreshIsFresh
    <3>2. CASE table = target /\ i = me
      BY <2>2, <2>5, <2>6, <2>7, <3>2
    <3>3. CASE table = target /\ i # me
      <4>1. i \in tables[target] \ {0} /\ ingest[i] # None /\ i \in Ids
        BY <2>4, <2>7, <3>3 DEF Safe, RowsKnown, TypeOK
      <4>2. tables[target] \cap ingest[i].before = {}
        BY <2>4, <4>1 DEF Safe, FreshIsFresh
      <4> QED BY <2>5, <2>7, <3>3, <4>1, <4>2
    <3> QED BY <3>1, <3>2, <3>3
  <2>14. ASSUME NEW u \in Threads PROVE
           /\ pc'[u] = "insert" /\ tables'[Target(Command(u))] # None
              => tables'[Target(Command(u))] \cap ingest[doing[u]].before = {}
           /\ pc'[u] = "reply" => Stored(doing[u])'
    <3>1. CASE u = t
      <4>1. pc'[t] = "reply" /\ (doing[u])' = me
        BY <2>2, <2>4, <3>1 DEF TypeOK
      <4>2. Stored(doing[u])'
        BY <2>10, <4>1 DEF Stored
      <4> QED BY <3>1, <4>1, <4>2
    <3>2. CASE u # t /\ pc[u] \in {"insert", "reply"}
      <4>1. doing[u] \in Ids /\ ingest[doing[u]] # None /\ Target(Command(u)) \in Tables
        BY <1>a, <3>2, TargetTable DEF Command
      <4>2. pc'[u] = pc[u]
        BY <2>4, <3>2
      <4> QED BY <2>4, <2>5, <2>7, <2>9, <3>2, <4>1, <4>2 DEF Safe, Pending
    <3>3. CASE u # t /\ pc[u] \notin {"insert", "reply"}
      BY <2>4, <3>3
    <3> QED BY <3>1, <3>2, <3>3
  <2>15. Pending'
    <3>1. \A u \in Threads : (Command(u))' = Command(u) /\ (Target(Command(u)))' = Target(Command(u))
      BY <2>4 DEF Command, Target
    <3> QED BY <2>4, <2>14, <3>1 DEF Pending
  <2> QED BY <2>11, <2>12, <2>13, <2>15 DEF Safe
<1>8. ASSUME NEW c \in Clients, OtherStatement(c) PROVE Safe'
  BY <1>8, TablesKept DEF OtherStatement, threadVars, histVars
<1>9. CASE UNCHANGED vars
  BY <1>9, TablesKept DEF vars, threadVars, histVars
<1> QED BY <1>1, <1>3, <1>4, <1>5, <1>6, <1>7, <1>8, <1>9 DEF Next

-----------------------------------------------------------------------------
(* Before any ingest the books are empty and nothing is acknowledged.      *)
LEMMA InitHolds == Init => TypeOK /\ Books /\ Safe
<1> SUFFICES ASSUME Init PROVE TypeOK /\ Books /\ Safe
  OBVIOUS
<1>1. TypeOK
  <2>1. tables \in [Tables -> (SUBSET (Ids \cup {0})) \cup {None}]
    BY DEF Init
  <2> QED BY <2>1 DEF Init, TypeOK
<1>2. Books
  BY DEF Init, Books
<1>3. Safe
  BY DEF Init, Safe, RowsKnown, Pending, CountIsStored, FreshIsFresh
<1> QED BY <1>1, <1>2, <1>3

(* Every variable of the ingest model keeps its type, and a running ingest *)
(* is one thread's, known and not over.                                    *)
THEOREM TypeCorrect == Spec => [](TypeOK /\ Books)
<1>1. Init => TypeOK /\ Books
  BY InitHolds
<1>2. TypeOK /\ Books /\ [Next]_vars => (TypeOK /\ Books)'
  BY TypeStep, BooksStep
<1> QED BY <1>1, <1>2, PTL DEF Spec

(* Whatever the clients do, the rows of an acknowledged ingest are where   *)
(* its command says, and fresh tables are fresh, provided no table is      *)
(* called arrow_table.                                                     *)
THEOREM SafeAlways ==
    ASSUME "arrow_table" \notin Names
    PROVE  Spec => []Safe
<1>1. Init => Safe
  BY InitHolds
<1>2. TypeOK /\ Books /\ Safe /\ [Next]_vars => Safe'
  BY SafeStep
<1> QED BY <1>1, <1>2, TypeCorrect, PTL DEF Spec

(* Rows an ingest was acknowledged for are in the table it named, or were  *)
(* when a REPLACE dropped it, for any number of concurrent ingests.        *)
THEOREM CountsStored ==
    ASSUME "arrow_table" \notin Names
    PROVE  Spec => []CountIsStored
<1>1. Safe => CountIsStored
  BY DEF Safe
<1> QED BY <1>1, SafeAlways, PTL

(* An ingest that asked for a table of its own never shares it with the    *)
(* rows of an ingest that was over before it began.                        *)
THEOREM FreshStaysFresh ==
    ASSUME "arrow_table" \notin Names
    PROVE  Spec => []FreshIsFresh
<1>1. Safe => FreshIsFresh
  BY DEF Safe
<1> QED BY <1>1, SafeAlways, PTL

=============================================================================
