------------------------- MODULE QueryExecutionProofs -------------------------
(***************************************************************************)
(* Results do not cross sessions, and a client that sends one call at a    *)
(* time reads its own: for any number of clients, threads, tables and      *)
(* requests.                                                               *)
(***************************************************************************)
EXTENDS QueryExecutionProps, TLAPS

(* A handler's locals after the list of tables, and after one more table. *)
LEMMA LocalsUpdate ==
  ASSUME NEW r \in Locals, NEW rows \in 0..MaxTables, NEW from \in SUBSET Ids
  PROVE  /\ [r EXCEPT !.toList = FALSE, !.left = rows, !.from = from] \in Locals
         /\ [r EXCEPT !.left = rows, !.from = from] \in Locals
  BY DEF Locals

(* Every variable of the query handlers keeps its type. *)
THEOREM TypeCorrect == Spec => []TypeOK
<1>1. Init => TypeOK
  BY NoneAssumption DEF Init, TypeOK
<1>2. TypeOK /\ [Next]_vars => TypeOK'
  <2> SUFFICES ASSUME TypeOK, [Next]_vars PROVE TypeOK'
    OBVIOUS
  <2> USE NoneAssumption, BoundsAssumption
      DEF TypeOK, Finish, Send, Connection, TakeResult, Fetched, From
  <2>1. ASSUME NEW t \in Threads, NEW c \in Clients, NEW k \in Kinds, Arrive(t, c, k)
        PROVE  TypeOK'
    <3>1. PICK n \in Ids :
             /\ sender' = [sender EXCEPT ![n] = c]
             /\ rpc' = [rpc EXCEPT ![t] = [id |-> n, client |-> c, kind |-> k,
                                           toList |-> k = "tables", left |-> 0, from |-> {}]]
      BY <2>1 DEF Arrive
    <3>2. [id |-> n, client |-> c, kind |-> k, toList |-> k = "tables",
           left |-> 0, from |-> {}] \in Locals
      BY DEF Locals
    <3>3. rpc' \in [Threads -> Locals \cup {None}] /\ rpc'[t] # None
      BY <3>1, <3>2
    <3>. QED
      BY <2>1, <3>1, <3>3 DEF Arrive
  <2>2. ASSUME NEW t \in Threads, pc[t] # "idle"
        PROVE  rpc[t] \in Locals
    BY <2>2
  <2>3. ASSUME NEW t \in Threads, Execute(t)
        PROVE  TypeOK'
    <3>1. rpc[t] \in Locals
      BY <2>3, <2>2 DEF Execute
    <3>2. result' \in [Clients -> Results \cup {None}]
      BY <2>3, <3>1 DEF Execute, Results, Locals
    <3>. QED
      BY <2>3, <3>1, <3>2 DEF Execute
  <2>4. ASSUME NEW t \in Threads, ExecuteRaises(t) \/ FetchRaises(t)
        PROVE  TypeOK'
    BY <2>4 DEF ExecuteRaises, FetchRaises
  <2>5. ASSUME NEW t \in Threads, NEW from \in SUBSET Ids, pc[t] # "idle", Send(t, from)
        PROVE  answers' \subseteq Answers
    BY <2>5, <2>2 DEF Locals, Answers
  <2>6. ASSUME NEW t \in Threads, pc[t] # "idle", Fetched(t) # None
        PROVE  From(t) \in SUBSET Ids
    BY <2>6, <2>2 DEF Locals, Results
  <2>7. ASSUME NEW t \in Threads, FetchRead(t) \/ FetchEmptyList(t)
        PROVE  TypeOK'
    <3>1. answers' \subseteq Answers
      BY <2>7, <2>5, <2>6 DEF FetchRead, FetchEmptyList
    <3>. QED
      BY <2>7, <3>1 DEF FetchRead, FetchEmptyList
  <2>8. ASSUME NEW t \in Threads, FetchList(t)
        PROVE  TypeOK'
    <3>1. PICK rows \in 1..MaxTables :
            rpc' = [rpc EXCEPT ![t].toList = FALSE, ![t].left = rows, ![t].from = From(t)]
      BY <2>8 DEF FetchList
    <3>2. rpc[t] \in Locals /\ From(t) \in SUBSET Ids /\ rows \in 0..MaxTables
      BY <2>8, <2>2, <2>6 DEF FetchList
    <3>3. [rpc[t] EXCEPT !.toList = FALSE, !.left = rows, !.from = From(t)] \in Locals
      BY <3>2, LocalsUpdate
    <3>. QED
      BY <2>8, <3>1, <3>3 DEF FetchList
  <2>9. ASSUME NEW t \in Threads, FetchTableSchema(t)
        PROVE  TypeOK'
    <3>1. rpc[t] \in Locals /\ From(t) \in SUBSET Ids
      BY <2>9, <2>2, <2>6 DEF FetchTableSchema
    <3>2. CASE rpc[t].left > 1
      <4>1. rpc' = [rpc EXCEPT ![t].left = @ - 1, ![t].from = From(t)]
        BY <2>9, <3>2 DEF FetchTableSchema
      <4>2. [rpc[t] EXCEPT !.left = @ - 1, !.from = From(t)] \in Locals
        <5>1. rpc[t].left \in 0..MaxTables
          BY <3>1 DEF Locals
        <5>2. rpc[t].left - 1 \in 0..MaxTables
          BY <5>1, <3>2
        <5>. QED
          BY <3>1, <5>2, LocalsUpdate
      <4>. QED
        BY <2>9, <3>2, <4>1, <4>2 DEF FetchTableSchema
    <3>3. CASE ~(rpc[t].left > 1)
      <4>1. answers' \subseteq Answers
        BY <2>9, <3>1, <3>3, <2>5 DEF FetchTableSchema
      <4>. QED
        BY <2>9, <3>3, <4>1 DEF FetchTableSchema
    <3>. QED
      BY <3>2, <3>3
  <2>10. ASSUME NEW t \in Threads, FetchCount(t) \/ FetchNoCount(t)
         PROVE  TypeOK'
    <3>1. CASE FetchCount(t)
      <4>1. answers' \subseteq Answers
        BY <3>1, <2>5, <2>6 DEF FetchCount
      <4>. QED
        BY <3>1, <4>1 DEF FetchCount
    <3>2. CASE FetchNoCount(t)
      <4>1. pc[t] # "idle" /\ {} \in SUBSET Ids /\ Send(t, {})
        BY <3>2 DEF FetchNoCount
      <4>2. answers' \subseteq Answers
        BY <4>1, <2>5
      <4>. QED
        BY <3>2, <4>2 DEF FetchNoCount
    <3>. QED
      BY <2>10, <3>1, <3>2
  <2>11. CASE UNCHANGED vars
    BY <2>11 DEF vars
  <2>. QED
    BY <2>1, <2>3, <2>4, <2>7, <2>8, <2>9, <2>10, <2>11 DEF Next, Work
<1>. QED
  BY <1>1, <1>2, PTL DEF Spec

-----------------------------------------------------------------------------
(* What is on a client's connection, and what a handler has read so far,   *)
(* came from requests of that client.                                      *)
Provenance ==
    /\ \A c \in Clients : result[c] # None => sender[result[c].of] = c
    /\ \A t \in Threads : rpc[t] # None =>
          /\ sender[rpc[t].id] = rpc[t].client
          /\ \A n \in rpc[t].from : sender[n] = rpc[t].client

(* Results do not cross sessions.  A connection is its session's alone,    *)
(* and a request keeps its sender: Provenance is the inductive part.       *)
THEOREM SessionsIsolated == Spec => []SessionIsolation
<1>1. Init => Provenance /\ SessionIsolation
  BY NoneAssumption DEF Init, Provenance, SessionIsolation
<1>2. TypeOK /\ Provenance /\ SessionIsolation /\ [Next]_vars => (Provenance /\ SessionIsolation)'
  <2> SUFFICES ASSUME TypeOK, Provenance, SessionIsolation, [Next]_vars
               PROVE  Provenance' /\ SessionIsolation'
    OBVIOUS
  <2>0. ASSUME NEW t \in Threads, pc[t] # "idle"
        PROVE  /\ rpc[t] \in Locals
               /\ rpc[t].client \in Clients /\ rpc[t].id \in Ids
               /\ rpc[t].from \subseteq Ids
               /\ sender[rpc[t].id] = rpc[t].client
               /\ \A n \in rpc[t].from : sender[n] = rpc[t].client
    BY <2>0, NoneAssumption DEF TypeOK, Provenance, Locals
  <2>1. ASSUME NEW t \in Threads, pc[t] # "idle", Fetched(t) # None
        PROVE  \A n \in From(t) : sender[n] = rpc[t].client
    BY <2>1, <2>0 DEF Provenance, Fetched, From, Connection
  <2>2. ASSUME NEW t \in Threads, NEW c \in Clients, NEW k \in Kinds, Arrive(t, c, k)
        PROVE  Provenance' /\ SessionIsolation'
    <3>1. PICK n \in Ids :
             /\ \A m \in Ids : m < n <=> sender[m] # None
             /\ sender' = [sender EXCEPT ![n] = c]
             /\ rpc' = [rpc EXCEPT ![t] = [id |-> n, client |-> c, kind |-> k,
                                           toList |-> k = "tables", left |-> 0, from |-> {}]]
      BY <2>2 DEF Arrive
    <3>2. sender[n] = None
      BY <3>1, BoundsAssumption DEF Ids
    <3>3. \A m \in Ids : sender[m] # None => sender'[m] = sender[m]
      BY <3>1, <3>2
    <3>4. \A m \in Ids, d \in Clients : sender[m] = d => sender'[m] = d
      BY <3>3, NoneAssumption
    <3>5. \A d \in Clients : result'[d] # None => sender'[result'[d].of] = d
      BY <2>2, <3>4 DEF Arrive, Provenance, TypeOK, Results
    <3>6. sender'[n] = c /\ rpc'[t].id = n /\ rpc'[t].client = c /\ rpc'[t].from = {}
      BY <3>1 DEF TypeOK
    <3>7. ASSUME NEW u \in Threads, u # t, rpc'[u] # None
          PROVE  /\ sender'[rpc'[u].id] = rpc'[u].client
                 /\ \A m \in rpc'[u].from : sender'[m] = rpc'[u].client
      <4>1. rpc'[u] = rpc[u] /\ pc[u] # "idle"
        BY <3>1, <3>7 DEF TypeOK
      <4>. QED
        BY <4>1, <2>0, <3>4
    <3>8. \A a \in answers' : \A m \in a.from : sender'[m] = a.client
      BY <2>2, <3>4 DEF Arrive, SessionIsolation, TypeOK, Answers
    <3>. QED
      BY <3>5, <3>6, <3>7, <3>8 DEF Provenance, SessionIsolation
  <2>3. ASSUME NEW t \in Threads, Execute(t)
        PROVE  Provenance' /\ SessionIsolation'
    <3>1. UNCHANGED <<sender, rpc, answers>> /\ pc[t] # "idle"
      BY <2>3 DEF Execute
    <3>2. ASSUME NEW c \in Clients, result'[c] # None
          PROVE  sender[result'[c].of] = c
      BY <2>3, <3>1, <3>2, <2>0 DEF Execute, Connection, Provenance, TypeOK
    <3>. QED
      BY <3>1, <3>2 DEF Provenance, SessionIsolation
  <2>4. ASSUME NEW t \in Threads, Finish(t), UNCHANGED sender,
               \A c \in Clients : result'[c] \in {result[c], None},
               \/ UNCHANGED answers
               \/ \E from \in SUBSET Ids :
                     /\ pc[t] # "idle"
                     /\ \A n \in from : sender[n] = rpc[t].client
                     /\ Send(t, from)
        PROVE  Provenance' /\ SessionIsolation'
    <3>1. Provenance'
      BY <2>4 DEF Finish, Provenance, TypeOK
    <3>2. SessionIsolation'
      BY <2>4 DEF Send, SessionIsolation
    <3>. QED
      BY <3>1, <3>2
  <2>5. ASSUME NEW t \in Threads, ExecuteRaises(t) \/ FetchRaises(t)
        PROVE  Provenance' /\ SessionIsolation'
    BY <2>5, <2>4 DEF ExecuteRaises, FetchRaises, TypeOK, Connection
  <2>6. ASSUME NEW t \in Threads, pc[t] # "idle", Fetched(t) # None, Send(t, From(t)),
               UNCHANGED sender, \A c \in Clients : result'[c] \in {result[c], None}
        PROVE  Provenance' /\ SessionIsolation'
    <3>1. From(t) \in SUBSET Ids
      BY <2>6, <2>0 DEF From, Fetched, Connection, TypeOK, Results
    <3>. QED
      BY <2>6, <3>1, <2>1, <2>4 DEF Send
  <2>7. ASSUME NEW t \in Threads, FetchRead(t) \/ FetchEmptyList(t) \/ FetchCount(t)
        PROVE  Provenance' /\ SessionIsolation'
    <3>1. \A c \in Clients : result'[c] \in {result[c], None}
      BY <2>7 DEF FetchRead, FetchEmptyList, FetchCount, TakeResult, TypeOK
    <3>. QED
      BY <2>7, <2>6, <3>1 DEF FetchRead, FetchEmptyList, FetchCount, TakeResult
  <2>8. ASSUME NEW t \in Threads, FetchNoCount(t)
        PROVE  Provenance' /\ SessionIsolation'
    <3>1. pc[t] # "idle" /\ Send(t, {}) /\ UNCHANGED <<result, sender>>
      BY <2>8 DEF FetchNoCount
    <3>2. Finish(t)
      BY <3>1 DEF Send
    <3>3. \E from \in SUBSET Ids : /\ pc[t] # "idle"
                                   /\ \A n \in from : sender[n] = rpc[t].client
                                   /\ Send(t, from)
      BY <3>1
    <3>. QED
      BY <3>1, <3>2, <3>3, <2>4
  <2>9. ASSUME NEW t \in Threads, TakeResult(t), UNCHANGED <<sender, answers>>,
               pc[t] # "idle",
               NEW r, rpc' = [rpc EXCEPT ![t] = r],
               r.id = rpc[t].id, r.client = rpc[t].client, r.from = From(t)
        PROVE  Provenance' /\ SessionIsolation'
    <3>1. \A c \in Clients : result'[c] \in {result[c], None}
      BY <2>9 DEF TakeResult, TypeOK
    <3>2. Fetched(t) # None
      BY <2>9 DEF TakeResult
    <3>3. \A n \in r.from : sender[n] = r.client
      BY <2>9, <3>2, <2>1
    <3>4. sender[r.id] = r.client
      BY <2>9, <2>0
    <3>. QED
      BY <2>9, <3>1, <3>3, <3>4 DEF Provenance, SessionIsolation, TypeOK
  <2>10. ASSUME NEW t \in Threads, FetchList(t)
         PROVE  Provenance' /\ SessionIsolation'
    <3>1. PICK rows \in 1..MaxTables :
            rpc' = [rpc EXCEPT ![t].toList = FALSE, ![t].left = rows, ![t].from = From(t)]
      BY <2>10 DEF FetchList
    <3> DEFINE r == [rpc[t] EXCEPT !.toList = FALSE, !.left = rows, !.from = From(t)]
    <3>2. rpc' = [rpc EXCEPT ![t] = r]
      BY <3>1
    <3>3. rpc[t] \in Locals
      BY <2>10, <2>0 DEF FetchList
    <3>4. r.id = rpc[t].id /\ r.client = rpc[t].client /\ r.from = From(t)
      BY <3>3 DEF Locals
    <3> HIDE DEF r
    <3>. QED
      BY <2>10, <3>2, <3>4, <2>9 DEF FetchList
  <2>11. ASSUME NEW t \in Threads, FetchTableSchema(t)
         PROVE  Provenance' /\ SessionIsolation'
    <3>1. CASE rpc[t].left > 1
      <4> DEFINE r == [rpc[t] EXCEPT !.left = @ - 1, !.from = From(t)]
      <4>1. rpc' = [rpc EXCEPT ![t] = r]
        BY <2>11, <3>1 DEF FetchTableSchema
      <4>2. rpc[t] \in Locals
        BY <2>11, <2>0 DEF FetchTableSchema
      <4>3. r.id = rpc[t].id /\ r.client = rpc[t].client /\ r.from = From(t)
        BY <4>2 DEF Locals
      <4>4. UNCHANGED <<sender, answers>> /\ TakeResult(t) /\ pc[t] # "idle"
        BY <2>11, <3>1 DEF FetchTableSchema
      <4> HIDE DEF r
      <4>. QED
        BY <4>1, <4>3, <4>4, <2>9
    <3>2. CASE ~(rpc[t].left > 1)
      <4>1. TakeResult(t) /\ Send(t, From(t)) /\ UNCHANGED sender /\ pc[t] # "idle"
        BY <2>11, <3>2 DEF FetchTableSchema
      <4>2. Fetched(t) # None /\ \A c \in Clients : result'[c] \in {result[c], None}
        BY <4>1 DEF TakeResult, TypeOK
      <4>. QED
        BY <4>1, <4>2, <2>6
    <3>. QED
      BY <3>1, <3>2
  <2>12. CASE UNCHANGED vars
    BY <2>12 DEF vars, Provenance, SessionIsolation
  <2>. QED
    BY <2>2, <2>3, <2>5, <2>7, <2>8, <2>10, <2>11, <2>12 DEF Next, Work
<1>. QED
  BY <1>1, <1>2, TypeCorrect, PTL DEF Spec

-----------------------------------------------------------------------------
Serial(t) == rpc[t] # None /\ rpc[t].client \in SerialClients

(* A serial client has one call in flight.  That call reads nothing but    *)
(* its own results, and from execute to fetch its result stays where it    *)
(* is: nobody else uses the connection.                                    *)
Undisturbed ==
    /\ \A t, u \in Threads :
          Serial(t) /\ rpc[u] # None /\ rpc[u].client = rpc[t].client => u = t
    /\ \A t \in Threads : Serial(t) =>
          /\ rpc[t].from \subseteq {rpc[t].id}
          /\ pc[t] = "fetch" => /\ result[rpc[t].client] # None
                                /\ result[rpc[t].client].of = rpc[t].id

(* What a handler's step leaves alone: the other handlers, and what waits  *)
(* on the connections of the other clients.                                *)
LEMMA WorkIsLocal ==
  ASSUME TypeOK, NEW t \in Threads, Work(t)
  PROVE  /\ rpc[t] # None /\ rpc[t] \in Locals
         /\ \A u \in Threads \ {t} : rpc'[u] = rpc[u] /\ pc'[u] = pc[u]
         /\ \A c \in Clients \ {rpc[t].client} : result'[c] = result[c]
         /\ pc'[t] = "idle" => rpc'[t] = None
<1> USE DEF TypeOK, Finish, Send, TakeResult, Connection
<1>1. pc[t] # "idle"
  BY DEF Work, Execute, ExecuteRaises, FetchRead, FetchList, FetchEmptyList,
         FetchTableSchema, FetchCount, FetchNoCount, FetchRaises
<1>2. rpc[t] # None /\ rpc[t] \in Locals
  BY <1>1
<1>3. CASE Execute(t)
  BY <1>2, <1>3 DEF Execute
<1>4. CASE ExecuteRaises(t) \/ FetchRaises(t)
  BY <1>2, <1>4 DEF ExecuteRaises, FetchRaises
<1>5. CASE FetchRead(t) \/ FetchEmptyList(t) \/ FetchCount(t) \/ FetchNoCount(t)
  BY <1>2, <1>5 DEF FetchRead, FetchEmptyList, FetchCount, FetchNoCount
<1>6. CASE FetchList(t)
  BY <1>2, <1>6 DEF FetchList
<1>7. CASE FetchTableSchema(t)
  BY <1>2, <1>7 DEF FetchTableSchema
<1>. QED
  BY <1>3, <1>4, <1>5, <1>6, <1>7 DEF Work

(* A client that sends one call at a time is answered from its own         *)
(* statements.  The client's waiting is what Undisturbed starts from.      *)
THEOREM SerialAnswered == Spec => []SerialOwnAnswer
<1>1. Init => Undisturbed /\ SerialOwnAnswer
  BY NoneAssumption DEF Init, Undisturbed, Serial, SerialOwnAnswer
<1>2. TypeOK /\ TypeOK' /\ Undisturbed /\ SerialOwnAnswer /\ [Next]_vars
      => (Undisturbed /\ SerialOwnAnswer)'
  <2> SUFFICES ASSUME TypeOK, TypeOK', Undisturbed, SerialOwnAnswer, [Next]_vars
               PROVE  Undisturbed' /\ SerialOwnAnswer'
    OBVIOUS
  <2>1. ASSUME NEW t \in Threads, NEW c \in Clients, NEW k \in Kinds, Arrive(t, c, k)
        PROVE  Undisturbed' /\ SerialOwnAnswer'
    <3>1. PICK n \in Ids :
             rpc' = [rpc EXCEPT ![t] = [id |-> n, client |-> c, kind |-> k,
                                        toList |-> k = "tables", left |-> 0, from |-> {}]]
      BY <2>1 DEF Arrive
    <3>2. rpc'[t].client = c /\ rpc'[t].from = {} /\ pc'[t] = "execute"
      BY <2>1, <3>1 DEF Arrive, TypeOK
    <3>3. \A u \in Threads \ {t} : rpc'[u] = rpc[u] /\ pc'[u] = pc[u]
      BY <2>1, <3>1 DEF Arrive, TypeOK
    <3>4. c \in SerialClients => \A u \in Threads : rpc[u] # None => rpc[u].client # c
      BY <2>1 DEF Arrive, Busy, TypeOK
    <3>5. UNCHANGED <<result, answers>>
      BY <2>1 DEF Arrive
    <3>6. ASSUME NEW u \in Threads, NEW v \in Threads, Serial(u)',
                 rpc'[v] # None, rpc'[v].client = rpc'[u].client
          PROVE  v = u
      BY <3>2, <3>3, <3>4, <3>6 DEF Undisturbed, Serial
    <3>7. ASSUME NEW u \in Threads, Serial(u)'
          PROVE  /\ rpc'[u].from \subseteq {rpc'[u].id}
                 /\ pc'[u] = "fetch" => /\ result'[rpc'[u].client] # None
                                        /\ result'[rpc'[u].client].of = rpc'[u].id
      BY <3>2, <3>3, <3>5, <3>7 DEF Undisturbed, Serial
    <3>. QED
      BY <3>5, <3>6, <3>7 DEF Undisturbed, SerialOwnAnswer
  <2>2. ASSUME NEW t \in Threads, Work(t),
               Serial(t)' => /\ rpc'[t].client = rpc[t].client
                             /\ rpc'[t].from \subseteq {rpc'[t].id}
                             /\ pc'[t] = "fetch" =>
                                   /\ result'[rpc'[t].client] # None
                                   /\ result'[rpc'[t].client].of = rpc'[t].id,
               rpc'[t] # None => rpc'[t].client = rpc[t].client
        PROVE  Undisturbed'
    <3>1. ASSUME NEW u \in Threads, NEW v \in Threads, Serial(u)',
                 rpc'[v] # None, rpc'[v].client = rpc'[u].client
          PROVE  v = u
      <4>1. rpc[v] # None /\ rpc[u] # None
            /\ rpc[v].client = rpc'[v].client /\ rpc[u].client = rpc'[u].client
        BY <2>2, <3>1, WorkIsLocal DEF Serial
      <4>. QED
        BY <3>1, <4>1 DEF Undisturbed, Serial
    <3>2. ASSUME NEW u \in Threads, u # t, Serial(u)'
          PROVE  /\ rpc'[u].from \subseteq {rpc'[u].id}
                 /\ pc'[u] = "fetch" => /\ result'[rpc'[u].client] # None
                                        /\ result'[rpc'[u].client].of = rpc'[u].id
      <4>1. rpc'[u] = rpc[u] /\ pc'[u] = pc[u] /\ rpc[t] # None /\ Serial(u)
        BY <2>2, <3>2, WorkIsLocal DEF Serial
      <4>2. rpc[u].client # rpc[t].client /\ rpc[u].client \in Clients
        BY <4>1, <3>2, SerialAssumption DEF Undisturbed, Serial
      <4>3. result'[rpc[u].client] = result[rpc[u].client]
        BY <2>2, <4>2, WorkIsLocal
      <4>. QED
        BY <4>1, <4>3 DEF Undisturbed
    <3>. QED
      BY <2>2, <3>1, <3>2 DEF Undisturbed
  <2>3. ASSUME NEW t \in Threads, Execute(t)
        PROVE  Undisturbed' /\ SerialOwnAnswer'
    <3>1. Work(t) /\ UNCHANGED <<rpc, answers>>
      BY <2>3 DEF Work, Execute
    <3>2. rpc[t] \in Locals /\ rpc[t].client \in Clients
      BY <3>1, WorkIsLocal DEF Locals
    <3>3. result'[rpc[t].client].of = rpc[t].id /\ result'[rpc[t].client] # None
      <4>1. PICK kd \in Kinds \cup {"schema"} :
              result' = [result EXCEPT ![rpc[t].client] = [of |-> rpc[t].id, kind |-> kd]]
        BY <2>3, <3>2 DEF Execute, Connection, Locals
      <4>2. [of |-> rpc[t].id, kind |-> kd] \in Results
        BY <3>2 DEF Results, Locals
      <4>. QED
        BY <3>2, <4>1, <4>2, NoneAssumption DEF TypeOK
    <3>4. Undisturbed'
      BY <3>1, <3>3, <2>2 DEF Undisturbed, Serial
    <3>. QED
      BY <3>1, <3>4 DEF SerialOwnAnswer
  <2>4. ASSUME NEW t \in Threads, Work(t), Finish(t)
        PROVE  Undisturbed'
    <3>1. rpc'[t] = None
      BY <2>4 DEF Finish, TypeOK
    <3>. QED
      BY <2>2, <2>4, <3>1 DEF Serial
  <2>5. ASSUME NEW t \in Threads, Work(t), pc[t] = "fetch", Serial(t)
        PROVE  Fetched(t) # None /\ From(t) = {rpc[t].id}
    BY <2>5 DEF Undisturbed, Fetched, From, Connection
  <2>6. ASSUME NEW t \in Threads, ExecuteRaises(t) \/ FetchRaises(t)
        PROVE  Undisturbed' /\ SerialOwnAnswer'
    <3>1. Work(t) /\ Finish(t) /\ UNCHANGED answers
      BY <2>6 DEF ExecuteRaises, FetchRaises, Work
    <3>. QED
      BY <3>1, <2>4 DEF SerialOwnAnswer
  <2>7. ASSUME NEW t \in Threads, Work(t), pc[t] = "fetch", Send(t, From(t))
        PROVE  Undisturbed' /\ SerialOwnAnswer'
    <3>1. Undisturbed'
      BY <2>7, <2>4 DEF Send
    <3>2. rpc[t] # None
      BY <2>7, WorkIsLocal
    <3>3. rpc[t].client \in SerialClients => From(t) = {rpc[t].id}
      BY <2>5, <2>7, <3>2 DEF Serial
    <3>4. SerialOwnAnswer'
      BY <2>7, <3>3 DEF Send, SerialOwnAnswer
    <3>. QED
      BY <3>1, <3>4
  <2>8. ASSUME NEW t \in Threads, FetchNoCount(t)
        PROVE  Undisturbed' /\ SerialOwnAnswer'
    <3>1. Work(t) /\ Fetched(t) = None /\ Send(t, {}) /\ pc[t] = "fetch"
      BY <2>8 DEF FetchNoCount, Work
    <3>2. rpc[t].client \notin SerialClients
      BY <3>1, <2>5, WorkIsLocal DEF Serial
    <3>3. Undisturbed'
      BY <3>1, <2>4 DEF Send
    <3>4. SerialOwnAnswer'
      BY <3>1, <3>2 DEF Send, SerialOwnAnswer
    <3>. QED
      BY <3>3, <3>4
  <2>9. ASSUME NEW t \in Threads, Work(t), pc[t] = "fetch", pc' = [pc EXCEPT ![t] = "execute"],
               NEW rows \in Nat,
               \/ rpc' = [rpc EXCEPT ![t].toList = FALSE, ![t].left = rows, ![t].from = From(t)]
               \/ rpc' = [rpc EXCEPT ![t].left = @ - 1, ![t].from = From(t)],
               UNCHANGED answers
        PROVE  Undisturbed' /\ SerialOwnAnswer'
    <3>1. rpc[t] \in Locals /\ rpc[t] # None
      BY <2>9, WorkIsLocal
    <3>2. rpc'[t].id = rpc[t].id /\ rpc'[t].client = rpc[t].client /\ rpc'[t].from = From(t)
      BY <2>9, <3>1 DEF TypeOK, Locals
    <3>3. Serial(t)' => rpc'[t].from \subseteq {rpc'[t].id}
      BY <2>5, <2>9, <3>1, <3>2 DEF Serial
    <3>4. pc'[t] = "execute"
      BY <2>9 DEF TypeOK
    <3>5. Undisturbed'
      BY <2>2, <2>9, <3>2, <3>3, <3>4
    <3>. QED
      BY <2>9, <3>5 DEF SerialOwnAnswer
  <2>10. ASSUME NEW t \in Threads,
                FetchRead(t) \/ FetchEmptyList(t) \/ FetchCount(t)
         PROVE  Undisturbed' /\ SerialOwnAnswer'
    BY <2>10, <2>7 DEF FetchRead, FetchEmptyList, FetchCount, Work
  <2>11. ASSUME NEW t \in Threads, FetchList(t)
         PROVE  Undisturbed' /\ SerialOwnAnswer'
    <3>1. PICK rows \in 1..MaxTables :
            rpc' = [rpc EXCEPT ![t].toList = FALSE, ![t].left = rows, ![t].from = From(t)]
      BY <2>11 DEF FetchList
    <3>2. rows \in Nat
      BY BoundsAssumption
    <3>. QED
      BY <2>11, <3>1, <3>2, <2>9 DEF FetchList, Work
  <2>12. ASSUME NEW t \in Threads, FetchTableSchema(t)
         PROVE  Undisturbed' /\ SerialOwnAnswer'
    <3>1. CASE rpc[t].left > 1
      <4>1. /\ rpc' = [rpc EXCEPT ![t].left = @ - 1, ![t].from = From(t)]
            /\ Work(t) /\ pc[t] = "fetch" /\ pc' = [pc EXCEPT ![t] = "execute"]
            /\ UNCHANGED answers
        BY <2>12, <3>1 DEF FetchTableSchema, Work
      <4>. QED
        BY <4>1, <2>9
    <3>2. CASE ~(rpc[t].left > 1)
      BY <2>12, <3>2, <2>7 DEF FetchTableSchema, Work
    <3>. QED
      BY <3>1, <3>2
  <2>13. CASE UNCHANGED vars
    BY <2>13 DEF vars, Undisturbed, Serial, SerialOwnAnswer
  <2>. QED
    BY <2>1, <2>3, <2>6, <2>8, <2>10, <2>11, <2>12, <2>13 DEF Next, Work
<1>. QED
  BY <1>1, <1>2, TypeCorrect, PTL DEF Spec

=============================================================================
