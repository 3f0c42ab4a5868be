# fastapi-mon: a TLA+ verification of the machine monitor

The repository is a machine monitor in three parts: agents that report their
machine's figures over a websocket, a FastAPI server that stores them in
PostgreSQL/TimescaleDB and pushes them on, and a console (an Ant Design Pro
application) that shows them live. This directory holds TLA+ models of it, TLC
configurations that check them on small instances, and TLAPS proofs of what
holds for every instance.

```
 agent/agent  --/ws/ingest-->  server/app/api/ws.py  --SQL-->  agents, metrics
                                     |                             ^
                                     v                             |
 browser  <--/ws/dashboard--  server/app/realtime.py      DELETE /api/v1/agents
    |
    +-- login, display preferences: server/app/api/*.py --SQL--> prefs
    +-- pages of the template: mock/ in development, cloudflare-worker/ in the preview
```

## 1. Inventory

| Component | State | Operations | Hard behaviour | What makes it correct |
|---|---|---|---|---|
| **Ingest and the machine tables** (`ws.py`, `services.py`, `dashboard.py`, `models.py`) | `agents` row per machine with `last_seen`, `metrics` rows, row locks; per connection: websocket, buffered frames, SQLAlchemy session with its identity map, `last_agent_id` | report, reject, acknowledge, mark offline at the end of a connection, DELETE | every `await` is a switch point; two connections of one machine; a report racing with a DELETE; sessions as old as their connection; failed statements, lost COMMIT answers, server crash | a machine and its history appear and go together; acknowledged reports are kept; nobody stays online for nothing; dead connections and DELETE requests come to an end |
| **Database connections** (`database.py`) | the pool, who holds or awaits one of its connections | checkout, return, timeout | an ingest handler keeps a connection between two reports, notices and requests need one more | none is lost; who waits gets one, with fewer machines than connections |
| **Broadcaster** (`realtime.py`, `/ws/dashboard`) | set of websockets, one coroutine each, the periodic task, broadcasts under way | connect, snapshot, update, drop dead, periodic loop, stop | a slow browser holds up a broadcast; snapshots overtaken by updates; registry changes while a copy is sent to; cancellation | an open dashboard stays subscribed, a gone one does not; dashboards converge to the table; broadcasts and shutdown end |
| **Startup** (`Dockerfile`, `alembic/`, `database.py`, `main.py`) | catalog, open transaction, restart loop | alembic revisions, `create_all`, TimescaleDB statements, serve | one failed statement aborts its transaction; kills between statements; databases of every earlier release | commits are whole; the server serves with the schema it declares; it comes up |
| **Agent main loop** (`agent/main.py`) | connection, stop event, backoff, unread acknowledgements | connect, report, wait for the acknowledgement, sleep, retry, stop | timeouts racing with late answers, every way a connection ends, a signal at any await | keeps reporting, stops when told, bounded delay |
| **Collector and address cache** (`collector.py`, `geoip.py`) | previous counters, cached address | sample, rate, lookup, refresh | counters that go back, failed samples; a machine that moves while lookups and reports are under way | a rate is the traffic of its time; address and country are from one lookup, and the present ones in the end |
| **Dashboard page** (`mon.ts`, `pages/machines`) | machines shown, summary, subscription with its retry timer, detail drawer | snapshot, update, initial fetch, open detail, close | answers out of order, reconnects, unmount at any time | shows what the server has, one subscription at a time, a name over its own history |
| **Display preferences** (`machines_display_prefs.py`, `pages/admin/hosts`, `pages/machines`) | one row per user, a copy per page and tab | GET, PUT, toggle, delete host | read-modify-write of the whole row from several pages, concurrent first PUT, rollback after failure | a save changes what its switch stands for; copies are what was stored |
| **Login and tokens** (`auth.py`, `security.py`, `app.tsx`, `requestErrorConfig.ts`, `user/login`, `AvatarDropdown.tsx`) | a token all tabs share, where each tab is, the Turnstile widget and its script | login, ask, call, 401, sign out, visit | answers to requests sent with an older token; a script that is late, lost or of an earlier page | a valid token is kept, redirects do not nest, a user with the right password gets in |
| **Offline shell** (`ErrorBoundary`, `OfflineBanner`, `app.tsx`) | whether online, which chunk failed | retry, reload, banner | the connection changes before listeners are there | the banner is right, a failed page does not stay |
| **Scripts** (`scripts/simple.js`, `scripts/i18n-remove.js`) | files, routes, `package.json` | edit and delete, one after the other | stopped anywhere, run again, in either order | no text is lost, what is offered can be run |
| **Pages of the template** (rule table, account, search lists, basic list, forms, map, registration, chat, analysis, workplace, profiles, monitor) | react-query caches, forms, modals, timers; the mock's and the worker's data | requests, clicks, answers, failures, leaving and coming back | answers overtaken by clicks, shared keys, timers that outlive their page, keys from lengths | what is shown is what was asked for, keys tell apart, timers end |
| Agent configuration, Welcome, Admin, translations, `mock/user.ts`, the worker's table of routes, `loading.js` | | | | no state that anything else depends on: left out |

How they interact: agents and the server by websocket frames; the coroutines of
the server through the database (row locks, commits), the pool of its
connections and the broadcaster's set of websockets; the server and the pages
by websocket frames and HTTP answers that are not ordered with respect to each
other; the tabs of a browser through `localStorage`, the pages of a tab through
react-query's cache. The server is one process with one event loop, so code
between two `await`s is atomic; every `await` is a place where any other
coroutine, a disconnect or a failure can come in between. The same holds for the
JavaScript of a page. The models are cut at those places.

## 2. Modules

| Module | Models | Checked in |
|---|---|---|
| `HostRegistry` | the promise: a machine is absent, online or offline and has a history | refined by `IngestStore` |
| `IngestStore` | connections, sessions, row locks, `DELETE`, offline mark, clock, crash | `MCIngestStore` |
| `Broadcaster` | registry, `/ws/dashboard`, updates, the loop, shutdown | `MCBroadcaster`, `MCProcesses` |
| `ConnectionPool` | who holds the pool's connections | `MCProcesses` |
| `Startup`, `ReleaseDatabases` | alembic, `init_db`, restarts; the databases earlier releases left | `MCProcesses`, `MCStartup` |
| `AgentReporter` | the agent's loops, its stop event, its backoff | `MCProcesses` |
| `AddressCache` | lookups, cache, report and row of the public address | `MCConsole`, `MCProcesses` |
| `NetRates` | counters, samples and the rate that is written on the page | `MCConsole` |
| `DashboardPage` | one page with its subscription and its initial fetch | itself |
| `DetailDrawer` | the drawer and its overlapping requests | `MCBrowser` |
| `DisplayPrefs` | the row, both endpoints, both pages in several tabs | `MCDisplayPrefs` |
| `Session`, `LoginForm` | tokens and places of tabs; the form and its widget | `MCBrowser` |
| `OfflineShell`, `Tooling` | banner and boundary; the two scripts | `MCConsole` |
| `RuleTable`, `AccountPages`, `SearchList`, `BasicList`, `StepForm`, `AdvancedForm`, `MonitorMap`, `Register`, `Chatbot`, `ReadPages`, `SalesPeriod`, `ActiveChart` | a page of the template each | `MCConsole` |
| `IngestStoreProofs`, `IngestPromiseProofs`, `BroadcasterProofs`, `DashboardPageProofs`, `DisplayPrefsProofs`, `ProcessesProofs`, `BrowserProofs`, `ConsoleProofs` | theorems | section 5 |

Each model is parameterised by its sets of actors and by its bounds; the bounds
appear as guards and are named `Max...` in the module. The definitions named
`X_Something` next to a definition `X` are variants of it, with a plausible
mistake each; nothing uses them unless `X` is replaced by one, which is how it
was made sure that every property can fail.

`MCProcesses`, `MCBrowser` and `MCConsole` each check several modules that share no
state. Their variable `focus` names the module under study and never changes: a
behaviour starts in that module's initial states, takes its steps under its
fairness, and leaves the variables of the others alone. So each module is
explored by itself, as if it had a run of its own. A property of such a run
can be a conjunction of one fact of several modules, where they answer the same
question: `WaitingEnds` (does whoever waits get on), `ShowsWhatIsThere`,
`ShowsWhatWasAsked`, `KeysTellApart`, `HoldsTogether` (does what is kept in two
places agree), `NothingIsStuck`. The conjuncts are named and explained in their modules.

### IngestStore

A coroutine of `ws_ingest` is a program counter. `idle` is the wait in
`receive_json`; `get`, `flush`, `commit`, `refresh` are the awaits of `_persist`;
`ack` and `bcast` the sends after it; `offGet` to `offBcast` the `finally` block
with `mark_agent_offline`, which works in a session of its own.

* `row` and `metrics` are the *committed* tables. A transaction shows nothing
  before `Commit`, `OffCommit` or `DelCommit`. `lock` is the row lock that an
  UPDATE, INSERT or DELETE of an `agents` row takes at its flush and keeps to the
  end of its transaction; who needs a lock that is held cannot take its step.
* `cached` is the `Agent` object in the identity map of a connection's session.
  The session lives as long as the connection, `session.get` answers from it
  without a query, and a flush writes only the columns that differ from it
  (`Merge`). An UPDATE that matches no row, and an INSERT that meets one, end the
  connection.
* `link` says how the server sees the websocket: `half` is a peer that vanished
  and has not been noticed. Frames that arrived before the end are still read.
* A `DELETE` request is `get`, `sweep` (DELETE FROM metrics), `agent` (DELETE FROM
  agents, which the foreign key can refuse), `commit`, `bcast`.
* `last_seen` is abstracted to `recent` or `past` relative to the threshold; `Silence`
  is the threshold passing. A row's columns are reduced to those in `Cols` and the
  public address, which has a rule of its own.

### The other parts of the server

`Broadcaster`: `State` stands for what a dashboard shows of a machine: the number of the change
that made it so. `view` is what the dashboard shows once it has read everything
written to it; a snapshot writes all machines, an update one. A send writes its
frame and then waits until the peer has room (`drain`), which a stalled peer
keeps from ending. `_lock` sections contain no await and are single steps.
`Tasks` are the periodic loop and the coroutines that change a machine; `Age` is
the offline threshold passing, which nobody is told. `_loop`'s own sleep is the
freedom to take `Tick` at any time.

`ConnectionPool`: an ingest handler that has committed reads the row back, and the
transaction this begins keeps a connection until the next report: `hold`. The
snapshot of a dashboard, the loop, a request and the offline notice are `Jobs` and
`notice`s that need one more for a while. `TimesOut` is SQLAlchemy's `pool_timeout`.

`Startup`: the catalog is a set of items: the tables, the columns in which releases
differ, the recorded revisions, the hypertable and its policy. `txn` is the catalog
as the open transaction sees it. A failed statement in a migration ends the process; one in
`init_db`'s `try` block leaves the transaction aborted, and its COMMIT is then a
rollback without an error. `Crash` kills the process anywhere; a database can be
started by the image and without alembic by turns.

### The agent

`AgentReporter`: `_main` and `_geo_refresh_loop` as two program counters with the stop event.
`owed` counts reports the server has not answered, `unread` answers the agent has
not read: answers carry no number, so `recv` reads the oldest. `trouble` is a
switch for the outside world: server, network and psutil may fail while it is on.
`retries` and `timeouts` are history variables. `prime()` runs before there is a
loop and outside every `try`, so a failure of psutil in it ends the process
(`unprimed`); an answer that `json.loads(ack).get` cannot read (`Garbled`) goes to the
handler of unexpected exceptions.

`AddressCache` follows an address from the lookup (`asked` is the place the request
came from) over the cache and a report to the row. Two connections may each have a
report under way, the agent's and the one before it. Each has a session with a copy
of the row: `Load` is `session.get`, `Store` the assignments and the flush, which
writes the fields that differ from the copy, with the commit, and `Refresh` reads the
row back. Several addresses may share a country, so an UPDATE may carry one
without the other. `pieced` is a history: the row has been put together since a report
last wrote all of it. `NetRates` has one kernel counter in place of the six that psutil
reads at once (`tcp_retrans` is read from a file and is not covered, see section 6),
the time between samples, and `fmtBytes` of the page; `traffic` and `seconds` are histories of what was
really sent.

### The console

`DashboardPage`: the server is external: it changes its table, keeps messages it has built in
`outbox` for as long as it likes, and sends them in any order. The page fetches
list and summary at once, subscribes at once, and shows whatever comes last.
`ws`, `timer` and `retry` are the closure of `subscribeDashboard`.

`DisplayPrefs`: a save carries the whole preferences, computed from the copy its page has.
A copy is a record of the preferences and of the number of the row's change
it was read at, so that a property can say whether it was up to date. A PUT is
the endpoint's read, its write or first insert, its commit and its answer.

`Session`: a tab asks who the user is when a document loads, shows a page, makes
requests, and is on the login form or not; the token is `none`, `valid` or `expired`.
A request remembers whether it was sent with the token that is stored now
(`this`), another one, or none. `LoginForm`: the Turnstile script is put into the
document once and outlives the page. `DetailDrawer`: a fetch is a slot with the
machine it is for.

The modules of the template have one page each, its requests, which may fail, as slots
or status values of react-query, the answers of the mock and of the worker where
they differ, and what a click or an answer changes. `SalesPeriod` takes its
calendar as constants: the lengths of the months, how many of them are a year, of days a
week and of hours a day, and the hours at which clocks can change; a behaviour
chooses the day that is an hour shorter and the one that is longer. `Tooling` takes the steps of the two scripts one call at a time; a file
is its one text a visitor reads.

## 3. Runs

| Run | Instance | Shows | Size |
|---|---|---|---|
| `ingest_safety` | 1 machine, 2 connections, 1 DELETE, 2 reports, no failed statement | `TypeOK`; `DepartedIsOffline`: nobody is online without a coroutine that will mark it offline; `RegistrationIsComplete`: a machine appears only with the report that registers it; `AddressIsKept` | 804 000 states |
| `ingest_faults` | 1 machine, 2 connections, 2 DELETEs, 2 reports, failed statements, lost COMMIT answers, crashes | `NoOrphanMetrics`, `AckedIsKept`, and `ImplementsRegistry`: the committed tables behave as `HostRegistry` | 1 455 000 states |
| `ingest_progress` | 1 connection, 2 DELETEs, 2 reports, fair | `ConnectionIsReleased`, `DeleteIsAnswered` | 61 000 states |
| `broadcast_changes` | 1 dashboard, 2 writers and the loop, 2 changes, fair | `RegistryIsExact`, `Converges` | 128 000 states |
| `dashboard_page` | 1 page, 2 machines, 3 changes, 2 messages built and not sent, 1 on the wire, fair | `NothingLeftBehind`, `Reconnects`, `LiveView` | 822 000 states |
| `display_prefs` | a hosts page and a machines page, 2 machines, 1 card, 2 saves at a time | `CopyIsStored`, `PagesAreCurrent`, `FreshSaveLosesNothing` | 2 108 000 states |
| `processes` | `Startup`: the databases of every release, with and without TimescaleDB, 3 kills; `AgentReporter`: 2 late answers; `Broadcaster`: 2 dashboards and the loop; `ConnectionPool`: 2 ingest handlers, 2 jobs, 3 connections; `AddressCache`: 2 places, one field, 3 upsets; fair | `TypeOK`, `ServesDeclaredSchema`, `NoHalfSchema`, `OldDatabaseIsServed`, `BehindByTimeouts`, `KeepsReporting`, `WaitingEnds` | 21 800 states |
| `browser` | `Session`: 2 tabs, one of which makes other requests; `LoginForm`; `DetailDrawer`: 2 machines, 2 fetches; fair | `TypeOK`, `TokenKept`, `RedirectsDoNotNest`, `ShowsWhatIsThere`, `GetsIn`, `WidgetIsUsed`, `LetIn`, `RequestsEnd` | 43 000 states |
| `console` | `NetRates`, `AddressCache` with two fields, 3 addresses in 2 countries and 3 upsets, `OfflineShell`, `Tooling` and the twelve pages of the template | `TypeOK`, `KeysTellApart`, `ShowsWhatWasAsked`, `HoldsTogether`, `NothingIsStuck`, `ScriptsComplete`, `RateIsTraffic`, `EditsKept` | 580 000 states |
| `ingest_live_machine`, `ingest_rejoin`, `startup_empty_database` | see section 6 | something the documentation says and the code does not do | counterexample |

Why the bounds are enough. *One machine* in `IngestStore`: transactions of
different machines share no row and no lock, so machines only meet in the
broadcaster and in the pool. *Two connections* are the least that let an old and a new
connection of a machine overlap; a machine dials again when it has given up its
previous connection, so only the server's late notice makes them overlap. *Two
DELETEs* are the least that can race with each other, and a finished request's
slot is reused. *Two reports* give an insert followed by an update, an insert
each on two connections, and a re-registration after a removal. *One buffered frame*
gives reports that are read after the peer has gone. In `Broadcaster`, two
writers and the loop are three messages under way at once, with an update, a
removal of the same machine and a snapshot overtaking each other; two dashboards
are what it takes for one to hold up the other, and are run with the loop alone, since
the broadcasts of writers end by the same steps. Three connections for two
handlers and two jobs let everything meet at an empty pool. Three kills reach a
database that a start without alembic, an interrupted one and the image's have
all written to. In `DashboardPage`, `MaxFlight` is two messages the server
has built, an update and a snapshot, which it sends in either order, `MaxWire` a
third on the wire, and the initial fetch is one more source. In `DisplayPrefs`
two pages and two saves are an old copy that overwrites a newer row, and two
first inserts. In `Session` two tabs are what a shared token needs; `Callers` is one of
them, since the other's requests would only repeat a late 401. The pages of the
template have two of each thing that can be confused, and queues of two; the
sales period runs over two years of three short months. `AddressCache` is run with
two fields for `OneLookup`, which is about their mixture, and with one for
`AddressArrives`, which is about each of them. Three upsets (`MaxUpsets`: moves, failed
or incomplete lookups, lost connections, removals) are what the longest mixture
needs: a move within the country, a reconnect that leaves a report under way over
the old copy, and a move abroad.

`CHECK_DEADLOCK FALSE` stands where the system really stops: changes run out and no
dashboard is left, the agent has ended, the server serves, a page has all its
answers and nobody clicks. The ingest runs check for deadlock.
Symmetry (connections, DELETE requests, machines of the preferences) is used
with invariants and action properties only, never with a liveness property.

## 4. Fairness

* A ready coroutine is run (`WF` of `Handle`, `Delete`, `Progress`, `Main`,
  `Browser`, of a page's own steps): asyncio's and the browser's event loops are first in, first out, and no handler
  blocks its loop.
* A row lock is granted (`SF` of `AwaitLock`, `DelAwaitLock`): PostgreSQL queues the
  waiters of a row, and a lock that is free infinitely often reaches each.
  So does the pool with its connections (`SF` of `Take`): its queue is first in, first out.
* A dead peer is found (`WF` of `Detect`, `Keepalive`, and of the end of a stalled
  websocket): uvicorn's and the agent's websockets have a ping timeout. A
  stalled websocket is either read from again or given up.
* A send whose peer has room is woken (`SF` of `Sent`, `SnapshotSent`): room comes and
  goes, but the writer is notified each time.
* The periodic query succeeds now and then (`SF` of a successful `Build` of the loop); a
  database that never answers lets no dashboard converge.
* A machine that holds a connection of the pool reports again or is found gone,
  and transactions end (`WF` in `ConnectionPool`).
* In `AgentReporter` the server answers in the end while it is there; in
  `DashboardPage` the server sends what it has built and requests are answered or
  fail. In `AddressCache` lookups end, with or without an answer (they have a timeout of
  five seconds), and each connection's report is loaded, stored and refreshed, or lost.
* In `Session`, `LoginForm` and `DetailDrawer` requests end, the widget is solved, and a user who is
  shown the form fills it in; what must come in the end is asked only from a time
  on at which nothing fails any more: `calm` in `GetsIn` and `LetIn`, no upset `left` in
  `AddressArrives`, whose number is any in the initial states.
  Nothing is assumed about when dashboards connect, machines report or move,
  somebody deletes, clicks, leaves or signs out, a signal arrives or a process is killed.

## 5. Proofs

Every invariant and every action property of the passing runs is a theorem, and
so is that `IngestStore` implements `HostRegistry`: TLAPS proves it for all values of
the constants, with faults, crashes, restarts and lost answers
included where no assumption is named. The theorems rest on the `ASSUME`s of the modules and harnesses,
which TLC evaluates in every run that extends them. They say that sentinels are not members of
the sets they complement, that bounds are natural numbers and that names are told
apart, and beyond that only what the list below names; assumptions of other kinds are hypotheses of the theorems.

A theorem names the property of the run, so the modules with proofs extend the
harnesses. `Steps`, in each, says that a step of the harness is a step or a stutter of
every module in it; then each module has an invariant of its own
(`UInv`, `NInv`, ...), and `IInv` is their conjunction. Each theorem therefore holds of
a module whether or not it is the one under study.

`IngestStoreProofs`
* `Invariance`: `Spec => []IInv` with `IInv == TypeOK /\ SlotsInUse /\ LocksProtect /\
  NoOrphanMetrics`. `NoOrphanMetrics` alone is not inductive: that a DELETE leaves
  no sample behind needs that what it swept is still the whole history when it
  commits, and that a report that commits as an update still has its row. This
  is `LocksProtect`: a commit owns the row's lock, an object is cached exactly if
  the row exists, no two DELETEs have swept the same history. `SlotsInUse` says
  that a coroutine at work has a machine and a report.
* `TypeCorrect`, `LocksProtectTransactions`, `NoOrphans` follow from it.
* `Refinement`: `Spec => ImplementsRegistry`. `WriteMaps` shows that only commits and the
  clock change the mapped variables, and which abstract step each is; all other
  steps stutter. The proof that a DELETE maps to the abstract `Remove` uses the
  invariant: it is what makes "machine and history in one step" true.

`IngestPromiseProofs`, which rests on `IInv`
* `AcknowledgedIsKept`. Inductive is `KeptInv`: also the report between its commit and its answer is in the
  history, or was deleted from it.
* `RegistrationComplete`, `AddressKept`. `RowChanges` lists the steps
  that change a row; at an insert, `LocksProtect` says that there is neither row nor history.
* `NobodyOnlineForNothing`, from the assumption that statements and commits
  do not fail (`~FaultsPossible`: an offline mark that fails is not repeated).
  Inductive is `OweInv`: for a machine that is online there is a coroutine that has committed a report of it and has not
  yet marked it offline. Finding the coroutine again after each step is the proof.

`BroadcasterProofs`
* `Invariance`, with `IInv == TypeOK /\ RegistryIsExact /\ DeadAreClosed`. That a broadcast's clean-up never
  removes an open dashboard needs that its `dead` set contains closed websockets
  only, and stays so until the clean-up: a websocket does not reopen, and a new one
  is a new object.
* `TypeCorrect`, `ExactRegistry` follow.

`DashboardPageProofs`, for any finite set of machines
* `LeavesNothing`, `OneConnectionAtATime`, `TypeCorrect`. That a page left nothing behind is inductive together
  with the fact that a reconnect is scheduled only while there is no websocket.

`DisplayPrefsProofs`, for any tabs, machines, cards and number of saves under way
* `CopiesAreStored`. A copy carries the number of the change it was read at; inductive is `Good`: none is from
  the future, and one from the present is the row. Unread and edited copies have
  marks beyond every number the row can reach, which is `Counted`: changes and the saves that can
  still make one are bounded together.
* `PagesAreCurrentAlways`. `Pages` says what a page without an excuse waits for: its GET,
  or one save whose answer will be the row, or nothing. The work is in the
  steps of *other* pages (`StoreMoves`, `OverStep`): each of them excuses whom it makes old.
* `FreshSavesLoseNothing`, from `OnlyWhat`: what a save carries differs from the copy it was made
  from in the one switch, a fact about the save and not about the row.

`ProcessesProofs`
* `DeclaredSchemaServed`, `SchemaIsWhole`, for any set of databases in which a recorded revision was
  applied (`OriginsAreWhole`; it holds of all in `ReleaseDatabases`) and any number of kills. `UInv` says that neither the
  catalog nor the transaction records a revision without its effects, that the
  transaction only adds, what each place of the program has added so far
  (`UProgress`), and that the image's server gets to `init_db` with all revisions committed.
* `StaysBehind`, `DelayNeverShortens`, for any number of late answers but zero.
  An answer can only be owed on an open connection, and the bound always leaves
  room for the one to the report at hand.
* `RowIsOfOneLookup`. The cache and every report say what one lookup said, fields left out
  at most (`OfOne`), since the agent replaces its cache as a whole. A report with every
  field over a current copy makes the row exactly that; any other step that changes the
  row is recorded in `pieced`.
* `TypeCorrect`, which for the pool includes that no connection is lost or given twice
  (`Conserved`), for any finite set of users and any capacity. Each action is a sum of moves of one user in or
  out of the holders, and a move changes their number and `free` by one in opposite directions.

`BrowserProofs`, for any number of tabs, machines and fetches
* `RedirectsStayFlat`: each place of a tab comes with the address it is at (`Placed`).
* `ValidTokenKept`. Inductive is that a request that was refused and was sent with the token that is stored now
  was refused because that has expired (`Honest`).
* `WidgetUsed`. `LInv` follows the script through pages that come and go: the onload is
  hooked for a page that waits for the script, a page without a sitekey has neither
  widget nor timer, and a token that has been used up is being answered for, unless
  the answer was lost.
* `ShownIsThere`, which for the drawer needs that without overlap whatever is under way
  is for the machine shown.

`ConsoleProofs`, for any lengths of lists, tables and calendars
* The installed provers cannot use the library's induction theorems, so induction
  is over least counterexamples: `LeastNumber`, from the well-foundedness of <, and its consequences `UpTo`
  (induction to a bound) and `Recursion` (that there is the function a recursive definition describes).
* `RatesAreTraffic`: as long as there is a baseline, the seconds and bytes since it are
  those of the histories. The rate is a rounded quotient, which `RateStep` bounds from both
  sides with products only. `TwoPlacesAgree` has the unit of `fmtBytes` for every number (`PowerIs`).
* `RowsToldApart`. The rule table's keys are the length of the table when a row was
  made, and deleting never succeeds: rows are numbered downwards (`Numbered`).
  `FoundIs` says that a filter passes on the rows that match and no others, `SortedIs` that sorting
  finds them in order already, `PageIs` and `PageOf` that each row is on one page. The tasks
  of the mock have the first ids, one each (`FirstIds`); a key of the advanced form that
  has not been given has no row.
* `ShownWasAsked`, `EditsStay`. The request under way, or what is on show, is of what was asked
  last, unless there was one of the overlaps that the modules' `doubt` stands for. For the rule
  table an answer that has come and is not yet shown is what the server has, even after a
  failed GET: so the next answer ends the exception.
* `TwoPlacesAgree`, for the sales card: `FirstIs`, `MonthOfDay`, `MidnightIs`, `DayIs` and `SpanIs` give, for any
  lengths of months and any two changes of the clock, what the arithmetic on
  milliseconds of `getTimeDistance` comes to; the four buttons are
  `TodayIs` to `ThisYearIs`. Its assumptions are that the calendar is whole years, a day has two
  hours at least, a week is no longer than the last month.
* `ScriptsEndAlike`: what each step of a script has left behind as long as it has not
  been undone (`TextsStay`, `CutStays`). It assumes that no page is both kept and dropped.
* `NothingLeftWaiting`, `TypeCorrect`.

Model-checked only: the liveness properties (`ConnectionIsReleased`, `DeleteIsAnswered`, `Converges`, `Reconnects`,
`LiveView`, `OldDatabaseIsServed`, `KeepsReporting`, `WaitingEnds`, `GetsIn`, `LetIn`, `RequestsEnd`). The prover has no `ENABLED`, hence no
fairness; `WaitingEnds`, `KeepsReporting` and `LetIn` moreover need an argument over several processes.

## 6. What the documentation says and the code does not do

Three of these are runs:

* **A machine that reports can be shown offline** (`ingest_live_machine`). `config.py`
  defines offline as silence beyond the threshold. The end of an old connection
  marks the machine offline without looking whether it reports over a new one.
* **A machine deleted while its agent runs does not register with its next report**
  (`ingest_rejoin`), as the dialog of the hosts page says it does. The connection's session still holds
  the object, its UPDATE matches no row, the report is lost and the connection
  ends; the report after the reconnect registers the machine.
* **Docker Compose cannot start on an empty database** (`startup_empty_database`). The
  first revision alters a table that only `init_db`, which runs after it, creates.

The following came up while modelling, and are in the models as the code has them:

* Without TimescaleDB the failed CREATE EXTENSION aborts the transaction that
  `create_all` works in, and a server started without alembic serves without tables
  (`database.py` line 111; `README.md` line 75 says nothing is lost).
* When connections of a machine
  overlap, its row can mix columns of two reports, since an UPDATE carries only what
  differs from a stale copy: a machine may be shown with the address of one place and
  the country of another. A full report over a copy that is current sets it right
  (`OneLookup`; `models.py` line 3 calls the row the latest snapshot).
* A lookup that succeeds without a country leaves the country of an earlier
  place beside the new address (the other exception of `OneLookup`), and one that
  succeeds without an address empties the agent's cache, which a failed one does not.
* The agent's backoff is reset by
  the stop event only, so a short break after months with five failures costs 30
  seconds (`DelayFollowsRetries` states it).
* A failure of psutil in `prime()` (`main.py` line 71) ends the agent, since no `try` is around
  it; nothing in the program starts it again, `docker-compose.yml` line 73 does
  (`KeepsReporting` states the exception).
* A read of `/proc/net/snmp` that fails gives 0 retransmissions (`collector.py` line 60), which
  becomes the baseline, so the next `tcp_retrans_rate` counts all since the machine
  started.
* A GET of the rule table that fails leaves the rows of the page or search before it on
  show, with nothing under way (`ShowsServer` states the exception).
* A page ignores an empty snapshot, so the
  last machine to be removed stays on it (`LiveView` states the exception).
* With as many machines as pooled connections (thirty), a snapshot or a request
  may never get one (`WaitingEnds` has the condition).
* Two tabs' whole-row saves overwrite each other, and `handleDelete` saves what it captured
  before the DELETE (`StaleForAReason` and `FreshSaveLosesNothing` state what does hold);
  a display card can be hidden by a save that raced with a toggle (`hosts/index.tsx` 141).
* A 401 to a request with `skipErrorHandler` leaves the token where it is, and a late 401 to a request with
  an old token removes the new one (`TokenKept` states it). The test sitekey is also used
  when the sitekey cannot be fetched, and fails then if the server has a secret (`LetIn`).
* "Retry" of `ErrorBoundary` renders the page again, but `React.lazy` does not import a
  chunk again that failed.
* `fmtBytes` writes "undefined/s" for rates under one byte a second (`WrittenInAUnit`).
* `simple.js` removes `@ant-design/plots`, which `machines/index.tsx` line 2 imports, and names a directory `exception` that is not in its list
  of pages; `i18n-remove.js` leaves the names of nested routes in English.
* The rule table's sorter and filters never reach its servers, a level too deep
  in the request (`api.ts`, `table-list`); deleting never succeeds, and its keys are unique
  because of that (`KeysUnique`). The basic list's edit always adds, shows its
  result though the POST failed, and the mock forgets what was deleted.
* The articles page asks without its initial owner, "加载更多" fetches the same five, and the
  applications page sends no filters (`SearchList`). "Another transfer" resets a form
  that no step is given (`StepForm`).
* "This week" and "today" of the sales card are off by a day around the change to summer
  time (`RangeIsPeriod`), its second tab draws the data of the first, and the radar of the
  workplace is drawn empty while its data is loading (`DrawnWithData`).

## 7. Not modelled

* Queries that only read (`/agents`, `/metrics`, `/summary`): no state; the
  summary and the list appear where their answers race with the live updates,
  the history in `DetailDrawer`.
* Time beyond the offline threshold and the order of delays: intervals are
  nondeterministic. Retention and chunks of the hypertable.
* `Broadcaster` and `DashboardPage` on one wire. `Broadcaster` has the view of a page that reads
  whatever is written to it, `DashboardPage` a server that sends what it likes in any order; the
  second allows more than the first, so what holds of the page against it holds
  against the broadcaster. The end-to-end statement, that a page converges to the
  table, is the two liveness properties in sequence, not a theorem.
* Unrelated processes on the database, more than one server process: the repository runs one.
* How a token is signed, a password hashed, a challenge verified: conditions of `Session` and `LoginForm`.
* The agent's environment variables, read once; all metrics other than rates, which are
  read and sent; logging.
* Welcome, Admin, translations, the mock's fixed users, the worker's table of
  routes and the animation before the first page: nothing else depends on a state of theirs. Of the layout, only the user it
  shows and what signs out.
* Drawing, wording and layout of every page. What the chat library keeps of messages.

## 8. What is left

The plan this project began with is done: the tables and how changes reach the
pages, with their proofs; then the processes around them; then the browser; then the rest of the console. What
would be worth adding:

1. `Broadcaster` and `DashboardPage` composed on one wire, with the end-to-end convergence.
2. Time: the offline threshold as a duration, beside the keepalive's and the
   interval's, to say by how much a machine can be shown wrongly.
3. The safety core of the liveness properties as theorems: that once nothing changes any more, no message
   under way can take a dashboard away from the table, which with `WF` of the sends gives `Converges`
   and `LiveView`.
