# A formal model of mpzsql

mpzsql (`src/lakehouse`) is an Arrow Flight SQL server in front of DuckDB with a
DuckLake catalog in PostgreSQL and its data in Azure storage. This directory holds
TLA+ modules of its concurrent and stateful parts, the TLC configurations that check
them on small instances, and proofs, checked by TLAPS, of every safety property that holds, for every size of the system.
`PROJECT.json` lists components, runs, hazards and theorems, and maps every
definition to the lines it stands for.

## 1. The system

| Component | Code | State | Operations | Hard behaviour | What makes it correct |
|---|---|---|---|---|---|
| Session layer | `session.py` | id → `ClientSession` map and its lock; per session a DuckDB connection, a table of child cursors, a set of transaction handles, a lock | `get_or_create`, add / get / close prepared statement, begin / end transaction, `close_session`, `close_all` | the session is looked up under one lock and used under another; both may be contended by every gRPC worker and by shutdown | every session is owned by the map or by one closer; a closed session holds nothing; no cursor is lost or closed twice; bookkeeping agrees with DuckDB |
| Prepared statement and transaction handlers | `server.py` 951–1013, 1131–1160, 1418–1508, 1618–1709 | `_prepared_meta` beside the session tables, under no lock | create, close, GetFlightInfo, GetSchema, DoGet, DoPut bind / update, begin, end | two tables written in two steps; SQL runs in four places, on two kinds of connection | metadata never outlives its statement; nothing runs after close; transactions are atomic; nothing is acknowledged unexecuted |
| Query and catalog handlers | `server.py` 113–130, 884–891, 1117–1416 | the result a connection holds | `do_get_*`, `do_put_statement_update` | execute and fetch are two calls, calls of one peer share a connection | answers are built from the caller's own results |
| Bulk ingest | `server.py` 211–246, 1510–1612 | the tables; the handler's `table_exists` | create / append / replace | test, stream, DROP, CREATE, INSERT are separate steps; the connection is shared with the peer's other calls | what is acknowledged is stored where the command says; a table asked for anew is not shared |
| Token renewal | `azure_token.py` | two expiries, the DuckDB secrets, a stop event | renewal thread, `stop` | one thread, two tokens, slow and failing calls | no token lapses; failures do not end the thread; stop is heard |
| Health and lifecycle | `__main__.py`, `health.py` | statuses of the health port, poller thread, startup progress, handlers that interrupt each other | startup steps, poll loop, signals, shutdown | calls are accepted before the database is connected and the lake attached; the join of the poller has a timeout; a handler runs inside another one's step | SERVING means ready, until a signal; outages and recoveries are reported; shutdown ends and stays reported; calls are without a database in two known windows only |
| Authentication | `auth.py`, `security.py` | secret key; tokens held by clients | three middleware factories, `create_jwt`, `verify_jwt` | factories defer to each other; keys change at restart | only authentic calls pass; an issued token is good until it expires |
| Dispatch | `dispatch.py`, `proto/__init__.py` | none; the FlightInfo a client holds | `get_flight_info`, `do_get`, `do_put`, `do_action`, `list_actions`, `get_schema` | tickets are written by one table and read by another | what is announced is handled, with the announced schema |
| DuckLake attach | `ducklake.py` | the attached catalog, secrets | extensions, secrets, ATTACH | each step may raise | steps of HealthLifecycle, secrets of TokenRenewal |
| Configuration | `config.py` | the settings | validators, `ducklake_enabled`, generated secret key | fields checked one by one, one by another, or not at all; a lake is recognised by three of its five settings | part of HealthLifecycle (lake, alias, health port) and AuthTokens (password, key) |
| azd reader, generated protobuf, logging, tools | rest of `src/` | – | – | – | not modelled: development tooling, generated code, formatting, deployment |

**How they interact.** A Flight call passes the middleware (AuthTokens), is unpacked and
routed (FlightCalls), and its handler asks the session layer for the caller's session by
`context.peer()`. Query and ingest handlers then use the session's connection under no lock;
prepared-statement handlers use the session's cursor table and `_prepared_meta`. The main
thread builds all of this, attaches the lake, opens the health port, starts the poller and
the renewal thread, and takes everything down in its signal handler. The renewal thread
and the poller share nothing with the sessions but the database.

## 2. Modules

| Module | Models | Extends / instantiates |
|---|---|---|
| `SessionStore` | the abstract specification of the session layer: each operation one atomic step, no locks | – |
| `SessionManager` | `session.py`: one action per critical section or DuckDB call | – |
| `SessionManagerProps` | its properties, its inductive strengthening, its refinement of `SessionStore` | `SessionManager`, `INSTANCE SessionStore` |
| `SessionManagerProofs` | theorems on the session layer | `SessionManagerProps`, `TLAPS` |
| `SessionStoreProofs` | the refinement, as a theorem | `SessionManagerProofs` |
| `PreparedStatements`, `…Props` | prepared statements and transactions, above the session layer | – |
| `QueryExecution`, `…Props` | execute / fetch on shared connections | – |
| `Ingest`, `…Props` | concurrent ingests, statement by statement | – |
| `TokenRenewal`, `…Props` | the renewal thread | – |
| `HealthLifecycle`, `…Props` | configuration, startup, poller, health statuses, signals, shutdown | – |
| `AuthTokens`, `…Props` | middleware, if there is any, and tokens across restarts | – |
| `FlightCalls`, `…Props` | a whole RPC: middleware, then dispatch, then what is announced, described, sent | `AuthTokens` |
| `PreparedStatementsProofs`, `QueryExecutionProofs`, `IngestProofs`, `TokenRenewalProofs`, `HealthLifecycleProofs`, `FlightCallsProofs` | theorems on the component; the last one on `AuthTokens` too, as `FlightCalls` composes it | the `…Props` module, `TLAPS` |
| `MC…` | symmetry sets for TLC | the `…Props` module |

`PreparedStatements` takes each call to the session layer as one step. That is what
`ImplementsStore` is for: `SessionManager` refines `SessionStore`, whose operations are atomic.

### State and actions against the code

* **SessionManager.** `registry` and `mlock` are `SessionManager._sessions` and `_lock`;
  `conn`, `prepared`, `openTxns`, `slock` are the fields of each `ClientSession`; `inTxn` is
  DuckDB's own view of the connection. `pc`, `op`, `at`, `key`, `todo` are a thread's place
  and locals. `get_or_create` holds the manager's lock from the look-up to the end
  (`GetOrCreateMissing` … `CreateSession` or `CreateFails`). Every other operation is `LookUp` under
  the first lock, then `EnterSession` under the second, then its body (`AddPreparedStatement`,
  `PopPreparedStatement`, `BeginTransaction`, `EndTransaction`, …), each with the outcomes the code
  handles. `close_prepared_statement` closes the cursor after it has left the lock
  (`CloseCursor`). `ClientSession.close` is `CloseEnter`, `CloseStatements`, `RollBackOpen`,
  `CloseConnection`. `UseSession` is a handler working on the connection outside any lock;
  its SQL may itself be BEGIN, COMMIT or ROLLBACK (`rawSql` remembers who did that).
* **PreparedStatements.** `table` is the session's cursor table, `meta` is `_prepared_meta`, `slot`
  the result waiting on a child cursor. `CreateAddCursor` / `CreateStoreMeta` and
  `ClosePopCursor` / `ClosePopMeta` are the two halves of create and close. Each handler reads the metadata when it
  starts and executes later (`EagerExecute`, `DoGetExecute`, `BindExecute`, `UpdateExecute`). `log` records
  every execution of writing SQL, the transaction it belongs to and its fate; `skipped` the answers
  with an empty schema after which a client expects nothing more.
* **QueryExecution.** `result` is the result a connection holds. `Execute` replaces it, the `Fetch…`
  actions take it (`fetch_arrow_table`, `fetchall`) or read from it (`fetchone`).
* **Ingest.** One action per statement or wait of `do_put_statement_ingest`, between which every other
  call may run. `exists` is the local `table_exists`, `result` the pending result of the client's connection, which
  `OtherStatement` (any other call of the peer) may replace between `TestExecute` and `TestFetch`. A table is the set of the
  ingests whose rows it has, 0 for rows from before; `dropped` keeps the rows that went with a DROP.
  `Found` is the test's query, which looks into every schema when the command names none; `Target` is the
  name the statements use. `Raise` leaves from any step.
* **TokenRenewal.** One action per step of `_renewal_loop`; time passes (`Tick`) only in its two waits.
* **HealthLifecycle.** `config` is chosen at the start: the lake settings given, an alias or none, whether
  the fields pass their own validators, the health port on or off. `main` is where `serve()` or its signal handler
  is, `frames` where it was when a handler interrupted it, `poller` where the poll loop is. The server's constructor is a step
  per line: `BuildServer` opens the port, after which calls run beside everything that follows, then `ConnectDatabase`,
  `MakeSessions` and `MakeMeta`; a call before there is a session manager (`NoSessionsYet`) ends with an AttributeError
  and stores nothing. Each assignment of a status for a name is a step. A signal in `serve()` is `Signal`, drain, `Handle`; elsewhere it is `Interrupt`, which
  starts `_shutdown` on top of the current step, be it `installed` (between `signal.signal` and `serve()`) or a step of a
  handler that runs. `Inside` names the three steps that hold a lock which a nested handler would wait for (`SelfLocked`).
* **AuthTokens / FlightCalls.** `protected` says whether there is a password; without one `build_server` installs no
  middleware and everything is accepted. `Call` is one pass through the three factories; `Outcome` adds unpacking and the
  dispatch table; `Announced`, `Described` and `Sent` are the schemas named by the `get_flight_info_*`,
  `get_schema` and `do_get_*` handlers (`SentCatalog` and `SentKeys` those a query's result is cast to); `offer` is the FlightInfo a client holds.

### What is taken from outside `src/lakehouse`

From how the code uses them: a DuckDB connection holds the result of its latest execute;
`fetch_arrow_table` and `fetchall` take it, `fetchone` leaves it; a cursor of a connection is a
connection of its own, with its own transaction; a statement that fails inside a transaction may
abort it, and a COMMIT of an aborted transaction fails and rolls back; `close()` of a connection rolls back. uuid4 handles are
never repeated. Arrow's server accepts calls from construction on, runs each in a worker
thread, and on a signal stops listening and waits for calls in flight before Python's handler
runs on the main thread, once per signal; outside `serve()` CPython runs it between two steps of the
main thread. `Event.set` and `threading.Lock` are not reentrant, the lock of the gRPC `HealthServicer` is, and it ignores `set`
once `enter_graceful_shutdown` was called. Each DuckDB statement outside a transaction commits by itself; an INSERT leaves its
count as the connection's result; names are looked up in the catalog before Python variables; a child cursor sees committed
tables only.
`Event.wait(t)` returns at the latest after `t`, at once when the event is set.

## 3. Runs

| Run | Instance | Shows | Time |
|---|---|---|---|
| `sessions_safety` | 2 threads, 2 ids, 2 sessions, 2 handles, symmetric; 180,701 states | `OneOwner`, `CursorAccounting`, `TxnBookkeeping`, `ClosedIsReleased`, the locking discipline, `EndLeavesTransaction`, and the refinement `ImplementsStore` | 20 s |
| `sessions_live` | 3 threads, one id, session and handle; 53,915 states | `PoppedIsClosed`, `LateCallsReturn` | 15 s |
| `prepared` | 2 clients, 2 calls in flight, one statement, 2 writing executions; 1,005,967 states | `MetaFollowsTable`, `ClosedNeverRuns`, `StatementsStayInSession`, `TxnAtomic`, `AcknowledgedRuns` | 70 s |
| `queries` | 2 clients, 3 calls in flight, 4 requests; 813,027 states | `SessionIsolation`, `SerialOwnAnswer` | 35 s |
| `tokens` | 2 tokens, margin 5, lifetimes 8, 9, 12, one failing cycle; 6,367 states | `NoLapse`, `NoHotLoop`, `AlwaysRenewed`, `StopEnds` | 5 s |
| `ingest` | 2 clients, 2 calls in flight, 2 ingests, one table name in two schemas, every option, decimal columns or not; 1,843,484 states | `CountIsStored`, `FreshIsFresh` | 65 s |
| `health` | every configuration, 2 calls in flight, 2 signals; 153,120 states | `ServingMeansReady`, `SessionsUseLake`, `ShutdownStaysReported`, `CallsHaveDatabase`, `OutageReported`, `RecoveryReported`, `ShutdownCompletes` | 50 s |
| `calls` | one client, expiry 2 ticks, one restart, with and without a password, all headers, commands and actions; 44,921 states | `AcceptedIsAuthentic`, `IssuedIsAccepted`, `AdvertisedIsHandled`, `SchemasAgree` | 85 s |
| `prepared_update_txn`, `prepared_literal`, `queries_concurrent`, `tokens_retry` | the smallest instance with the disagreement | one statement of the documentation each, refuted (section 6) | – |

**Bounds and why they are enough.**

* *Sessions.* Each hazard is a race of two threads about one session: late call against
  close, two first calls, two closers, two users of one handle. A second id and a second
  session let an id be reused while the old session is still being closed. The proofs
  remove the bounds for the safety properties. The liveness run needs a third thread, so
  that several late calls can queue in front of the closer; it needs one session only.
  Calls that would exhaust the supply of handles or session objects are not started
  (`HandleSupply`, `SessionSupply`): the real supplies do not run out.
* *Prepared statements.* `Kinds` has the SQL for which the four execution paths differ. Two
  calls interleave on one statement, which the second client may also name. `MaxRuns` = 2
  executions are what atomicity compares. The kinds `select` and `dml_text` appear in the run
  for literals; `dml_text` and `select_new` are kept out of the passing run because each violates `AcknowledgedRuns` (section 6).
* *Queries.* Three calls let two overlap on the connection of the client that does not
  wait while the other client works; two tables are enough for a GetTables answer that reads twice after its list.
* *Ingest.* Two ingests suffice for each property: one that has rows in a table and one that tests, drops, creates or inserts
  around it; one name in two schemas is what unqualified names confuse. No table is called `arrow_table`: with such a
  table `CountIsStored` fails (section 6), and the theorems name that assumption. The proofs remove the bounds.
* *Tokens.* A lifetime that barely fits the margin, one with a tick to spare and a long
  one, in every combination for the two services and anew at each renewal. `DeploymentAssumption` names
  what the code needs of its deployment and does not check: tokens outlive the margin by a
  cycle, and the margin covers `MaxFailures` failing cycles. With the default
  margin of 5 minutes and Entra lifetimes of an hour it holds with room to spare.
* *Health.* The component has one main thread, one poller and two names; the calls in flight and the runs of the signal
  handler are bounded (`MaxCalls`, `MaxSignals`). The second signal interrupts the first handler at every step; a third would
  interrupt the second as the second does the first.
* *Calls.* Authentication of a client depends on its own header and token only, so one
  client suffices; a token is seen fresh, ageing and expired, before and after a restart with a new key.

**Deadlock** is checked except where the system stops by design: `queries`,
`queries_concurrent` (no request is left after `MaxRequests`) and `tokens`, `tokens_retry` (the thread ends after `stop()`).

**Fairness.** `SessionManager`: weak fairness of each thread's continuation only; nobody has to
start a call, and locks are not assumed fair (a thread waiting for a lock gets no strong
fairness). The liveness properties hold nevertheless because a popped session can be
found by nobody new, so that its queue of waiters only shrinks. `TokenRenewal`: the daemon
thread is scheduled and time passes while it waits. `HealthLifecycle`: the two threads are
scheduled and calls end; no signal has to come and a hung probe need not return. A main thread that waits for a lock it holds
itself is not scheduled past it, which `ShutdownCompletes` names as its exception. All of this is
what the operating system and `Event.wait` give; the one assumption about clients
is that calls in flight end, which Arrow's drain waits for as well.

**Faulty variants.** Beside many definitions stands a variant with a plausible bug (a dropped
guard, a forgotten reset, a swapped order), marked "Faulty variant". Nothing in the model uses it.
Putting it in the place of the definition makes TLC violate the property named for it in
`PROJECT.json` ("mutants"), which shows that the property depends on that line of the code.

## 4. Proofs

Every safety property that a passing run checks, invariant or action property, and the refinement are theorems. What
each assumes of the constants is named in the module that declares them; TLC evaluates it in the runs. Each
strengthening was an invariant of a TLC run before it was proved; it is defined in the proof module.

**Sessions.** `SessionManagerProofs` is about `SessionManager` for every set of threads, ids, sessions and handles.
The only assumption is `NoneAssumption`: `None` is not a thread, session or handle.

1. `TypeCorrect`: `TypeOK` is inductive.
2. `LocksHeld`: `LockInv` is inductive given types. A lock is held exactly by the thread whose label is inside its critical section,
   and a thread creating a session still finds its id free.
3. `StepKinds` (lemma): every step is either *quiet*, and changes neither ownership nor contents of
   sessions, or one of a few *store steps* of one thread. Later proofs split on these instead of on every action.
4. `SessionsOwned`: `ThreadInv /\ OneOwner` is inductive given 1 and 2. Neither part is inductive alone:
   that one thread owes a close is kept because a closing thread has its session in
   `todo` (`ThreadInv`), and that a thread inside a lock works on a session that exists needs that sessions do not become new again.
5. `NothingHeldUnlessOpen`: `OnlyOpenHolds`. `ClosedIsReleased` is not inductive: between releasing the statements
   and closing the connection it says nothing. The strengthening covers every session that
   is not open, and `ThreadInv` says what `close()` has released at each label.
   From it `ClosedReleased` and, with the transaction handles, `TxnBookkept`.
6. `HandlesUsedOnce`: `HandleInv`: a handle is in one table, or with one closing thread, or gone.
   From it `CursorsAccounted`.
7. `EndingLeavesTransaction` is an action property that follows from 1 and 4 for each step.
8. `DisciplineKept` puts `LockInv`, `ThreadInv`, `OnlyOpenHolds` and `HandleInv` together, as the run `sessions_safety` does.

**The refinement.** `StoreImplemented` (`SessionStoreProofs`) is `Spec => ImplementsStore`. The mapping shows a session as
closed and empty from the step in which `close()` has got its lock (`ClosingNow`), since nobody can see it afterwards.
`StepRefines` maps `CreateSession` to `Create`, `AddPreparedStatement` to `AddStatement`, `PopPreparedStatement` to
`RemoveStatement`, `BeginTransaction` to `Begin`, `EndTransaction` to `End`, `CloseEnter` to `Close`, `CloseSession` and `CloseAll`
to `Detach`; every other step stutters (`QuietStutters`). What it needs of the detailed layer is that a thread inside a session's lock
is not in a session that is being closed (`NotClosingInside`: two threads inside would hold the same lock) and that one
session has one owner. These are `LockInv`, `ThreadInv` and `OneOwner` from above.

**Queries.** `QueryExecutionProofs`, for all clients, threads, requests and table counts.

1. `SessionsIsolated`: `SessionIsolation` speaks of answers only. `Provenance` says the same of what answers are made of: the result a
   connection holds was sent by its client, and so was all a call has fetched so far.
2. `SerialAnswered`: `Undisturbed`, for a call of a client that does not overlap its calls: no other call of that client
   is in flight, it has fetched only its own results, and between its execute and its fetch the connection holds its result.
   `WorkIsLocal` is the lemma both rest on: a handler's step touches its own thread and its own client's connection.

**Prepared statements.** `PreparedStatementsProofs`, for all clients, threads, handles and executions.

1. `CustodyKept`: `Custody /\ MetaFollowsTable /\ TableHasMeta` is inductive. `MetaFollowsTable` alone is not: it must be known that
   the thread between the two halves of create still has its cursor in the table, that the one between the halves of close works on a
   handle that some session made, and that whatever a handler is about to run was open, and its client's, when it looked (`Custody`).
2. `HandlerSteps` and `LogSteps` (lemmas) reduce the steps to those that touch tables and those that execute.
   `ClosedNeverRun` and `StatementsStay` follow: an execution copies `live`, client and handle from the handler that runs it.
3. `TransactionsAtomic`: `TxnBooks`: transaction ids are handed out once, are one session's, and are 0 exactly outside a
   transaction. Without it an END could decide entries of a transaction not its own.
4. `AnsweredHasRun`: its hypothesis excludes the two kinds of SQL of section 6 that violate it (`dml_text`, `select_new`), as the run does.

**Ingest.** `IngestProofs` is about `Ingest` for every set of clients, threads and table names and every number of ingests.
Assumptions: `BoundAssumption`, `NoneAssumption`, and, for the last two theorems, that no table is called `arrow_table`.

1. `TypeCorrect`: `TypeOK /\ Books` is inductive. `Books`: a running ingest is one thread's, is known and not over, and
   the ingests noted as over when it began are over now. Types alone are not inductive, since a reply needs to be some ingest's.
2. `SafeStep`: given those, `RowsKnown /\ Pending /\ CountIsStored /\ FreshIsFresh` is kept by every step. Neither property is
   inductive alone: an acknowledgement is for rows stored one step earlier (`Pending`, at `reply`), and a table
   created one step before its INSERT must not have gained rows of ingests that were over before (`Pending`, at
   `insert`): whoever inserts meanwhile is still running, and what is running is not `before` anyone (`Books`).
3. `CountsStored` and `FreshStaysFresh` follow.

**Token renewal.** `TokenRenewalProofs`, for every margin, lifetime, call time and tolerated number of failures that
satisfy `DeploymentAssumption`. `Ages` bounds from below, at each label, how long the secrets still live: `Need(f)` is the time of the
failing cycles that may still follow `f` of them, `Left` what remains of the running cycle. It also remembers that, after a good cycle, both are beyond the margin.
`NothingLapses` follows from it directly, `LoopSleeps` because the timer is the distance to the margin.
Lifetimes and margin cannot be left free: with a margin shorter than a cycle the code does let tokens lapse.

**Health and lifecycle.** `HealthLifecycleProofs`, for every number of calls and signals, handlers nested to any depth.
Four parts, each kept given those before it (`NestingStep`, `ConfiguredStep`, `PortsStep`, `ToldStep`):
`Nesting` (only handlers nest, and `installed` can only be the bottom of the stack), `Configured` (which configuration a startup step implies, what it has done so far),
`Ports` (which ports and which database are up at each step, and that the Flight port closes only after a signal or a failed start; the
exceptions are the constructor's second line and a signal before `serve()`), `Told` (from which step on shutdown is
reported, for the running handler and every interrupted one below it). The four invariants are consequences. `StepKinds` (lemma) collects the steps that only move `main`
or write a status as `Walk`.

`CallsHaveDatabase` names its two exceptions because the code has them: between the constructor's first two lines calls run and fail, and a
signal between `signal.signal` and `serve()` closes the database under calls. What is proved is that there is no third, above all that
no shutdown out of `serve()` does so, whatever interrupts it. `ServingMeansReady` says that the port accepts calls
until a first signal; from then until `HealthServer.stop`, through the whole drain, SERVING is still answered.

**Authentication and dispatch.** `FlightCallsProofs`, for all clients, restarts and expiries.
`CallSteps` and `AuthSteps` separate the two components: a step of `FlightCalls` is a step of `AuthTokens` or leaves it alone.
`AcceptedAreAuthentic` and `IssuedAreAccepted` use `Issued`: a token a client holds comes from this server or an earlier one, with its issuer.
The latter has the hypothesis `Issuer = DefaultIssuer`: with any other issuer it is false (section 6).
`AdvertisedAreHandled` and `SchemasAlwaysAgree` use `Offered` and `Named`: the offer a client holds was written by the table of
GetFlightInfo, and the last reply names the schema its own handler sends; `SchemasAgree` is about the metadata commands only, a statement's schema may change between its calls. That the tables fit is `TicketsRedeemable` and `SchemasOfCommands`, for every command.

**Model-checked only.** Liveness is out of the prover's reach: `PoppedIsClosed`, `LateCallsReturn`, `AlwaysRenewed`, `StopEnds`, `OutageReported`,
`RecoveryReported` and `ShutdownCompletes`. So are the disagreements of section 6, which are counterexamples.

## 5. Not modelled, and why

* Text and typing of SQL, patterns of the catalog queries, schemas' columns and Arrow data, inferred types of
  parameters: no property here tells them apart. Which catalog a name means: ingest qualifies it as it does a schema.
* Ingests inside a transaction of the client's own: their statements are atomic with it, as `StatementUpdate` in `PreparedStatements`.
* Header decoding, password hashing and signatures: outcomes (right, wrong, junk) of `AuthTokens`. Access logging changes no state.
* Single fields of the configuration, TLS files, the location: each passes its validator or the process ends (`valid`).
  `read_only`, `print_queries` and `username` have no effect to model.
* `active_count`, `session_ids`, `get`, `is_running`: reads. `add_prepared_statement(handle=…)`: no caller passes a handle.
* `_run_init_sql`, `wait_for_termination`: never called. `BackgroundHealthPoller.start` after `stop`: `serve()` never does that.
* Savepoints and `cancel_query` are routed in `FlightCalls`; their handlers keep no state.
* `_azd_env.py`, `tools/`, hooks and scripts: files and environment variables of a developer's machine, outside the server.

## 6. Where documentation and code disagree

| Run | What |
|---|---|
| `prepared_update_txn` | Prepared DML executed through DoPut runs on the child cursor and is committed whatever becomes of the session's transaction; `docs/adbc-coverage.md` lists transactions and prepared updates as covered. |
| `prepared_literal` | DDL/DML with a `?` inside a literal is answered with an empty schema and not run. |
| `queries_concurrent` | Two overlapping calls of one peer: one is answered with the other's result. |
| `tokens_retry` | A failed refresh is retried at once (`wait(timeout=0)`), not after the 30 s of the messages and the comment. |
| – | A query whose schema probe fails on the child cursor, because its own transaction made the table, is taken for DDL/DML: GetFlightInfo runs it and drops its rows (`select_new`). |
| – | With `jwt_issuer` other than `lakehouse` the server refuses the tokens it issues. |
| – | Ingest stores the rows of a table called `arrow_table`, once there is one, instead of the client's, and answers with the client's count. |
| – | Ingest answers a stream without rows with 0 before it looks at the options; takes unspecified options; ignores `temporary` and `transaction_id`; without a schema tests for the table in every schema but uses the default one. |
| – | A second signal can make the shutdown handler wait for a lock its own thread holds; a signal before `serve()` closes the database under calls. |
| – | The user name is never checked and the user `token` is none of its own; `read_only` and `print_queries` have no effect; a CA file without the TLS pair is ignored. |
| – | GetPrimaryKeys takes the table's name for a pattern; an omitted catalog narrows the metadata commands to the current one. |
| – | `get_or_create` runs DuckDB statements under the manager's lock, which its docstring denies. |
| – | `_run_init_sql` has no caller, so `init_sql` has no effect. |
| – | Ingest of decimals emits the type `DECIMAL128(p, s)`, which DuckDB does not know. |
| – | `list_actions` lists the savepoint actions, which the README says are not listed and the server refuses. |

Behaviour met while modelling that no document speaks of: the port accepts calls before the constructor has connected the database and made
the session manager, and such calls fail with an AttributeError; the health port answers SERVING while a signalled server, whose Flight
port is closed, waits for its calls; a DoGet that follows a DoPut update of the same prepared statement sends what the update's `fetchone` left
on the child cursor, if anything, instead of running the query; transactions begun or ended with SQL text are unknown to `open_transactions`
(`rawSql` in `SessionManager`), and `TxnAtomic` does not speak of them.

## 7. Plan

Done in this order: session layer (abstract, detailed, refinement, proofs), prepared statements,
queries, token renewal, health and lifecycle, authentication, dispatch, bulk ingest (with proofs), configuration and nested signals,
then the proofs of every other component and of the refinement.

What is left to model is listed, with reasons, in section 5; the one candidate with properties of its own is the meaning of
the catalog queries (GetCrossReference as the intersection of imported and exported keys, patterns against names).

What is left to prove, now that the checked safety properties are theorems:

1. the safety half of the liveness properties (for `LateCallsReturn`: the queue of a popped session only shrinks; for
   `ShutdownCompletes`: only the three steps of `Inside` can wait for a lock of their own thread);
2. theorems on what is excluded by hypothesis: which part of `AcknowledgedRuns` and `CountIsStored` remains without it.
