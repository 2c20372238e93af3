# Specifications of the container stack's operations layer

The repository builds the container images of a small web stack: a reverse
proxy (Traefik), a web portal in two variants (a Go server for the exported
bundle, a Node server for the rendered one), a user management service
(Java/Spring), module services (Python) and a database (PostgreSQL).  The
programs inside are mostly taken from elsewhere; what the repository adds to
every image is an *operations layer*: a process or a thread group that checks
the component's health in the background, answers `/startupz`, `/livez`,
`/readyz` and `/metrics` from the cached result, drains on SIGTERM and ends
with an exit code that tells the truth.  In the database and the proxy image it
is also PID 1, starts the server as a child and, for the database, performs the
first initialization of the volume.

This directory models that layer in TLA+, checks it with TLC and proves the
central results with TLAPS.  Line numbers in comments and in `PROJECT.json`
refer to `src/` of the repository.

## The system

| Component | State it keeps | Operations | What makes it correct |
|---|---|---|---|
| DB: first initialization (`src/DB/supervisor/main.go`) | PGDATA with its init marker, the `initSignals` channel, the goroutine that waits on it | `needsInit`, `wipePgData`, `runInitdb`, `runInitScripts`, marker write and removal | a start that trusts PGDATA finds a complete cluster; a served cluster is never wiped; restarts recover |
| DB and Proxy: child supervision (both `main.go`) | child process, SIGCHLD channel, `childExited`, signal channel, drain latch | start, wait4 loop, the two nested selects of `main`, SIGINT/SIGTERM/SIGQUIT/SIGKILL to the child | no child's end goes unnoticed, no zombie stays, the exit code is the server's, a drain ends |
| DB and Proxy: health checker, admin endpoints | the snapshot, `started`, `draining`, `cycles`, the statistics | `checkerLoop`, `initHeartbeat`, the four handlers, the probe command | the snapshot is young while the loop runs, 200 of `/readyz` was true, last success and statistics agree with the check |
| DB: wire protocol, statistics (`pgwire.go`, `metrics.go`) | a connection and its deadline | dial, startup, authenticate, query, terminate | no message order of the server blocks or misleads the checker |
| Frontend Go server (`src/Frontend/server`) | snapshot, latches, connection and in-flight gauges | session handlers, relay, static files, `runCycle`, drain with `Shutdown` | every request is counted once, dependencies gate readiness only, the drain ends within its budget |
| Frontend-node (`src/Frontend-node/ops`) | the same in one event loop, the histograms | interval timer, wrapped server and fetch, drain | no overlapping cycle publishes old results, histograms are cumulative |
| Backend (`src/Backend/patches`) | health state, the deferred schema action, the breaker | `runCycle`, apply loop, stop and join, registration of the late check, module calls | startup is not latched early, stop never hangs or drops a schema it did not make, attempts are bounded |
| Modules (`src/Modules/patches`) | health state, in-flight guards, metrics | checker threads, request hooks, drain | a hanging check occupies one thread, and recovers |
| Chart, workflow, Containerfiles, loggers | none at run time | rendering | - |

How they interact: inside an image the parts share atomics (a snapshot that is
replaced whole, latches) and channels; `main` reaches the child by signals, and
the child reaches `main` by SIGCHLD and its wait status.  The Frontend calls the
Backend, the Backend the Modules services, both call the database; the kubelet
drives everything from outside by probes, SIGTERM, SIGKILL and restarts on the
same volume.

The hard parts are listed as hazards in `PROJECT.json`: kills between the steps
of the initialization, signals that arrive before anybody listens or after the
listener was taken away, two goroutines that touch PGDATA, coalesced SIGCHLD,
timers that race with the event they wait for, two loads of one atomic, two
timeouts in one cycle.

## Modules

| Module | What it is |
|---|---|
| `PgFirstInit` | first initialization of the database over any number of container restarts |
| `PgFirstInit_proofs` | its inductive invariant and four theorems |
| `SupervisedService` | the abstract promise of a supervised image: the container follows its server |
| `ChildSupervision` | the two supervisors as PID 1, with the refinement mapping to `SupervisedService` |
| `ChildSupervision_proofs` | types, no lost wake-up, when the reaper blocks, clean exit codes, progress of the shutdown, the safety part of the refinement |
| `CheckCycle` | the abstract promise of one cycle of `checkerLoop`, without time and without the wire |
| `CheckCycle_proofs` | what follows for every implementation of the cycle |
| `HealthCache` | the cached health check in time, and its readers, with the refinement mapping to `CheckCycle` |
| `HealthCache_proofs` | age bounds for every interval, timeout and factor, `/livez`, `/readyz`, the refinement |
| `DeferredSchema` | the Backend from the ready event to its exit: checker, schema action, closing |
| `DeferredSchema_proofs` | types, readiness after the schema action, tables left alone, wake-up and drop at closing |
| `PgWire` | the checker's connection: handshake, authentication, four queries, and the scrape of their results, with the refinement mapping to `CheckCycle` |
| `PgWire_proofs` | types, pairing of samples, whole scrapes, mutual authentication, closed sockets, the refinement |
| `EdgeRequests` | requests of the Go edge server: routes, handlers, the call to the backend, gauges and histogram |
| `EdgeServer` | the process around them: start, checker, probes, drain, load balancer; extends `EdgeRequests` |
| `EdgeServer_proofs` | types, exact gauges, honest outcomes, agreeing route tables, redirects that end, no refusal after a probe, progress of the drain |
| `MCEdgeServer` | a bundle, inputs and statuses for TLC |
| `NodeHistogram` | the hand-written histogram of the Node variant |
| `NodeHistogram_proofs` | what `observe` stores and when `render` writes it right, for any buckets and observations |

A module that a proof is about is written without RECURSIVE operators.
Definitions introduced by "Variant:" are mutations of the definition below
them; nothing uses them but the mutation runs, in which the property they are
listed with must fail.

### PgFirstInit

*State.*  `files` is the content of PGDATA as a set of numbers in the order of
`os.ReadDir`: dot names first (a dot file of the mount, then the marker), then
what initdb creates, `pg_hba.conf` last; `lost+found` is skipped by the code
everywhere and left out.  `work` is what the cluster in PGDATA has been given:
the `pg_hba.conf` rule and then each provisioning step.  Both survive a
restart.  `pc` is where `main` is; `watcher` and `watchList` are the goroutine
that waits on `initSignals` and the rest of its directory listing; `queued` is
the channel.  `served` and `blame` are history.

*Actions.*  One per step at which the process can be interrupted: each
`os.RemoveAll` of a wipe, each entry initdb creates, each provisioning step,
the write and the removal of the marker, `signal.Stop` with `close`.  `Term`
does what SIGTERM does at that point: it is queued while `initSignals` is
notified, ends the process by Go's default before and between, and starts a
drain in the serving supervisor, which for the volume is the end of the
process.  `Kill` stands for SIGKILL and for `os.Exit(1)` of the admin
listener's goroutine; the loss of the node is out of scope, because the marker
is not synced and its order on the disk is not the code's to say.  While the
goroutine wipes, a running child may recreate files under it.  A wipe may fall
short: `wipePgData` drops the errors of `os.ReadDir` and `os.RemoveAll`
(`main.go:314-316, 322`), so any part of its list may stay (`MainWipeFails`,
`WatcherWipeFails`; a listing that fails leaves all of it), and its callers exit
as after a full wipe.  If a visible entry of a failed initdb stays, the next
start trusts it: `AsIsIsComplete` and `Recovers` except this event
(`"wipeFails"`), and only this one of the ways in which a wipe falls short, as
the marker or a dot file that stays does no harm.

*Bounds.*  Two entries (one the wipe has passed, one it has yet to reach, and
`pg_hba.conf` different from the first), two provisioning steps, three faults:
the worst scenario known needs two (a fault that leaves something behind and
one in the recovery from it) and the third shows that nothing new happens.  The
number of restarts is not bounded.  The process ends only as a fault or as the
code's own exit, and a served container may run for ever, so deadlock is not
checked.

*Fairness.*  `Boot` (the orchestrator restarts the container), the steps of
`main`, of its children and of the goroutine, as four weak fairness conditions.
initdb, scripts and the provisioning server are assumed to end: the code
bounds each `psql` call by 60 s and the wait for readiness by 60 attempts; on
initdb and on the stop of the provisioning server it sets no limit.

### ChildSupervision and SupervisedService

*State.*  The process table of the children of PID 1 (`proc`, with `"srv"` the
server and a few orphans), the kernel's one pending SIGCHLD bit, the reaper
goroutine and its channel, `exited` (the `childExited` channel), where `main`
is, its signal channel, the drain latch, the last signal sent to the server,
the exit code.

*Actions.*  The server and orphans end at any moment; `DeliverChld` drops the
signal when nobody is notified or the channel is full; `Notify`, `Post` and
`Receive` are separate because a child may die between any two of them; `Reap`
is one `wait4` that returns a pid and `NothingToReap` the one that ends the
loop.  The selects of `main` take any ready branch.  A timer may fire at any
moment of its wait, so no property depends on the configured durations.
`image` chooses between the two escalations (the database: SIGINT, then SIGQUIT
and five more seconds; the proxy: SIGTERM, then SIGKILL at once).

The refinement maps the server's process state, its wait status as an exit code
and the place of `main` to the abstract `server`, `ending` and `phase`; SIGCHLD,
the reaper and the orphans are invisible.

*Bounds.*  Two orphans, two exit codes and one signal; with three processes the
pending bit can hide two deaths at once.  The reaper's channel holds two signals
here instead of the code's eight, so that three deaths are enough to fill it at
any point; the proofs cover every capacity.  The container ends, so deadlock is
not checked.

*A weakness of the code.*  If as many children die between `signal.Notify` and
the post after it (`main.go:497-498`) as the channel holds, the goroutine blocks
in a send that only it could receive (`Stuck`): nothing is reaped any more, and
the end of the server goes unnoticed.  Nothing in the code bounds the number of
those deaths; eight in so short a time are unlikely.  `ReaperBlocksOnlyOnBurst`
says that this is the only way for it to block, and `ZombiesReaped` and the
liveness in `ImplementsService` except it.

*Fairness.*  The delivery of a signal, the reaper and `main`.  Nothing is
assumed of the server: it may ignore every signal.

### CheckCycle, HealthCache

`CheckCycle` says what a cycle of `checkerLoop` promises its readers: one answer
of the check, published first; then, with a password, either a sampling behind a
passed check or the end of the statistics behind a failed one; and a heartbeat
that may overwrite the snapshot at any time.  Both detailed models of the loop
implement it, each with its own mapping of the place in the loop to the `phase`:
`HealthCache`, which has the time but only the outcome of a connection, and
`PgWire`, which has the connection but no time.  So the two agree on the order of
the stores they both model.

*State* of `HealthCache`.  Instants are kept as ages.  `loop` is where `checkerLoop` is; `waited`
is the age of the timeout that runs: of the dial, then of the deadline that is
set anew once the connection stands (`pgwire.go:46`); `cycle` is the age of
`cycleStart`.  `age`, `snapOk`, `snapLast` are the snapshot, `statsOk` and
`statsAge` the statistics.  `reader` is a `/readyz` request with what it has
loaded and, as history, what was true when it began.

*Time.*  `Tick` advances every age by one second and is enabled only when no
goroutine can run and no wait has reached its bound.  Steps therefore race
within a second in every order, and a wait may last any number of seconds up to
its timeout.  This is the assumption of the age properties: the process is
scheduled, and code between two waits takes no time worth counting.  The
derivation of the SCRAM key within a sampling is code whose length the server
chooses; here the server is the supervisor's own postgres, and `PgWire` shows
what another one could do.

*Bounds.*  Interval 3, timeout 2, stale factors 1 (the least the code accepts) and
3 (its default).  Ages are bounded by the properties themselves, and the proofs
cover every interval, timeout and factor.

### DeferredSchema

*State.*  `main` is the thread that delivers the ready event, at the step it
takes next; `registered`, `contextReady`, `started`, `draining` are the shared
fields of the checker and `HealthState`.  `loop`, `sawReady`, `current`,
`waiting`, `failed` are `runCycle` and its locals, cleared after their last use;
`snapshot` is the published set of results.  `worker` and `interrupted` are the
schema-action thread, `workerSet` the field that names it; `closer` is where
`sessionFactoryClosing` is; `initiated` and `hook` say that a signal was handled,
or came before `SignalShutdown.install` and started the JVM's shutdown hooks.

*Actions.*  One per volatile read or write that another thread can see: a check
is registered, the flag set, the field `worker` set and only then the thread
started; `contextReady` is read before the list of checks is copied; `stopped` is
tested, the thread interrupted, the drop read.  `join(2000)` may return at any
moment, because two seconds are no bound on a JDBC call.  `Database` takes the
database away or brings it back at any moment.

*External.*  `process` of Hibernate: connect, one statement per table, return or
throw, registration of the delayed drop last.  It may return without having
created every table, as Hibernate logs and skips a statement that fails unless
told to halt; no property claims a complete schema.  Spring closes a context
once, after its refresh.  A failed refresh, which exits with 1, is left out.

*Bounds.*  One table, which is there at the start or not, and the four actions
that differ: `create` is `create-drop` without the drop.  The proofs cover every
set of tables and actions.  Nothing else needs a bound.  The process ends, so
deadlock is not checked.

*Fairness.*  The thread of the ready event, the checker and the schema-action
thread run.  For the last this means that a JDBC call ends; a statement that
hangs for ever on a half-open connection is excluded.  Nothing is assumed of
signals, of closing or of the database.

### PgWire

*State.*  `at` is where `checkerLoop`, and what it calls in `pgwire.go` and
`metrics.go`, is.  `socket`, `expired`, `request` (`authCode`), `scram` and
`knows` belong to the connection; `asked`, `stream`, `rows` and `queryErr` to
the exchange of queries.  TCP keeps the order, so the messages of the server
are not queued: `stream` says which part of which answer the next read returns,
and what `query()` leaves unread stays for the next call.  `result` is the
sampling under way, `snapOk` and `stats` what is published, `scrape` one
`pgCollector.Collect` with its two loads; `calm` notes that the checker slept
at the first.

*Actions.*  During authentication the peer sends any request in any order, for
ever if it likes; afterwards it follows the simple-query protocol or breaks it in
a way the client detects, at which it gives up (`AuthFails`, `QueryFails`).  A
peer that answers a query with well-formed rows of another is out of scope: the
client has no means to tell.  `knows` decides whether the server signature of
SCRAM verifies.  `Deadline` may come at any moment of an open connection, and
every read and write fails from then on.  `DeriveKey` is `pbkdf2.Key` over the
number of iterations the peer asked for (`pgwire.go:236-240`), which has no upper
bound and which no deadline interrupts.  `Beat` is the heartbeat of the
initialization, which may store its snapshot once more, or more often, before it
sees that it is done.

*Bounds.*  None: four queries, one connection at a time, one scrape.

*Fairness.*  The dialer returns (it has a timeout of its own), the deadline
passes, a read or write on an expired connection fails, and the checker's own
steps are taken.  Nothing is assumed of the peer's answers, nor of the length of
the key derivation: `ConnectionEnds` excepts a checker that never leaves it.

### EdgeRequests and EdgeServer

*State.*  A path is the sequence of its segments with the form of the URL
(clean, with a trailing slash, or one the mux cleans first).  For each
connection, `at` is where its goroutine is and `req` the request with the
fields of its `responseRecorder` and the labels it is counted with.  `active`,
`clientActive`, `connections` are the gauges of `metrics.go`, `bodies` the
response bodies not yet closed.  `urlOk` says whether `API_URL` parses, of which
`loadConfig` checks the prefix only.  In `EdgeServer`, `main` is where `main()`
is or how the process ended, `passed` the checks of the last snapshot, `lb` what
the load balancer made of its last probe; `probed` and `refused` are history.

*Actions.*  A request arrives, is answered at once or makes a call, the call
fails or returns, the answer is written, `instrument` observes it and its defers
run.  `RouteClass`, `Handler`, the guards of the handlers and `BackendRoute` are
the four tables of the code, each translated by itself.  `Leads` joins the
redirects of the mux, of `handleStatic` and of `ServeFile`.  `EndsAs` ends the
process with what is in flight: a failed listener, a signal before `Notify`, an
exhausted budget or a finished `Shutdown`.  Connections come through the load
balancer or straight to the port.  `Refuse` is a connection of the load balancer
that finds no listener: before the port is bound, since the checker and the admin
listener run first and `/readyz` may already be 200 (`main.go:160-168`), in
`Shutdown`, and after the end.  `CloseIdle` is also what net/http's `Shutdown` does
to a connection that is new for five seconds or whose request it has not read.

*Bounds.*  Two connections, one with twelve requests that reach every handler,
every early answer and every kind of redirect, the other with two that relay: a
gauge shared by two requests, and one request in flight while the other ends.  Of a backend's
statuses, one success and one refusal; the proofs cover every finite set of
connections, any requests, bundle and statuses from 200 to 599.

*Fairness.*  `main()` takes the signal from its channel, and its two timers
fire.  Nothing is assumed of requests, of the backend or of peers.

### NodeHistogram

*State.*  The counts of each series, its count, and as history the numbered
values.  A value is the number of the first bucket that holds it.  `render` is
what is written, as a recursive function.  *Bounds.*  Two series, two buckets,
three observations each; one observation is enough for the counterexample.

## Runs

| Run | Shows |
|---|---|
| `first_init` | `AsIsIsComplete`, `ServedIsKept`, `Recovers`: an undetected partial cluster or a wiped one comes from the recorded events only, failed wipes among them, and restarts recover |
| `only_kill_leaves_partial` (violated) | SIGTERM alone, during initdb, leaves an undetected partial cluster |
| `initialized_started_as_is` (violated) | a marker that could not be removed makes the next start wipe a served cluster |
| `child_supervision` | `NoLostWakeup`, `ReaperBlocksOnlyOnBurst`, `ExitZeroIsClean`, `ZombiesReaped`, `AcceptedTermEnds`, `ImplementsService` for both images |
| `term_always_drains` (violated) | a signal between the start of the server and `signal.Notify` ends it without a drain |
| `health_cache` | `ReplacedInTime`, `StaysLive`, `ReadyIsHonest`, `LastSuccessKept`, `StatsFollowCheck`, `ImplementsCycle` |
| `pg_wire` | `SampleIsPaired`, `ScrapeIsWhole`, `ScrapeAgrees`, `ScramIsMutual`, `ConnectionEnds`, `ImplementsCycle`: for a peer that authenticates as it likes and then follows the protocol or breaks it detectably, answers stay with their queries, half a sampling is never shown, no connection is left open outside the key derivation |
| `edge_server` | `GaugesTrackRequests`, `CountedAsSent`, `ProxiedIsLabelled`, `RedirectsEnd`, `RefusedOnlyUnprobed`, `DrainEnds`: accounting on every path through the handlers, and the drain |
| `swap_changes_no_query` (violated) | the Node variant accumulates its buckets twice, so a bucket may exceed the count |
| `timeout_bounds_cycle` (violated) | a cycle takes up to twice `HEALTH_CHECK_TIMEOUT` |
| `deferred_schema` | `ReadyMeansApplied`, `CloseWakesWorker`, `NothingAfterDrop`, `AppliedTablesKept`, `AppliedInTimeIsDropped`, `StartsWithoutDatabase`, `ReadyWhenDatabaseStays` |
| `create_drop_drops_tables` (violated) | a schema action that outlasts the join is never dropped |

The violated properties state what `DB/CONTRACT.md`, `Backend/CONTRACT.md` and
`Frontend-node/CONTRACT.md` say; the findings in `PROJECT.json` quote the lines.
Remarks that are not findings:

* `ReadyIsHonest` tells what the two loads of `/readyz` (`main.go:635-637`) allow.
  With a stale factor that covers the waits of a check (3 always does) a snapshot
  is never stale; with a smaller one a 200 may combine stale passing results with
  the age of a snapshot published in between, which may even be one of a failed
  check.  The Frontend's `ready` loads in the other order and does not have this.
* `/livez` turns 503 for a factor below 3 while a check waits for its answer
  (`StaysLive`), although the loop runs: a probe may restart the container for a
  slow server.
* `LastSuccessKept`, `StatsFollowCheck` and `ScrapeAgrees` except the case that the
  heartbeat's last store lands after a passing snapshot (`close(heartbeatDone)`
  does not wait for it): until the next cycle the last success is forgotten, and
  `pg_stats_up` 1 may stand beside `pg_up` 0.
* The Go edge server may answer `/readyz` with 200 before it has bound its main
  port; `RefusedOnlyUnprobed` is about the time after.
* `ScramIsMutual` does not say that the peer is authenticated: one that asks for
  no password, a cleartext one or an MD5 hash gets what it asks for, as with
  libpq's defaults.
* `relayWithToken`, `handleMe` and `handleSignup` drop the error of `io.Copy`: a
  body of the backend that breaks off is ended as a complete one.  Bodies are
  left out of `EdgeRequests`, so no property is about this.
* `handleMe` does not check the error of `NewRequestWithContext`
  (`app.go:118`): with an `API_URL` that has the prefix but does not parse every
  `/api/me` panics.  `CountedAsSent` shows that it is answered and counted as 500.

## Proofs

Everything below holds for all values of the constants, from the named ASSUMEs
of the modules alone.

* **PgFirstInit** (`TypeCorrect`, `AsIsCorrect`, `ServedKept`, `ServedStarts`).
  `AsIsIsComplete` is about one place, and says nothing of how a volume gets there.
  The inductive invariant says for every place what the volume can look like:
  outside the window of initdb a PGDATA with visible entries and no marker is
  complete or excused, `work` matches the place, a wipe under way is remembered by
  its list, and the goroutine is off where nothing is queued for it.  `ServedKept`
  needs in addition that only an initialization wipes.  `ServedStarts` is what
  remains of the violated `InitializedIsStartedAsIs`: while the marker could be
  removed and no signal was left over, a served volume goes straight to postgres.
* **ChildSupervision** (`TypeCorrect`, `WakeupCorrect`, `ReaperCorrect`,
  `ExitZeroCorrect`, `ShutdownProgress`, `RefinesService`).  The invariant adds to
  `NoLostWakeup` that a code in the channel is the code of srv's end and that srv
  has been reaped: that is what makes `main`'s exit a `Follow` of the abstract
  module.  One lemma per abstract step, one for all invisible ones.  For
  `ReaperBlocksOnlyOnBurst` the signals in the channel and the pending one are
  counted against the zombies (`DeathsCounted`): until the post each stands for a
  death that nobody has reaped.  For
  `ExitZeroIsClean` the places of `main` are tied to the latch and the signals sent
  (`DrainInOrder`).  `ShutdownProgress` is the safety half of `AcceptedTermEnds`:
  every step of `main` lowers a rank that no other step raises.
* **CheckCycle** (`AgreeCorrect`) and its two implementations.  **HealthCache**
  (`TypeCorrect`, `ReplacedInTimeCorrect`, `LivezHolds`, `ReadyzHonest`,
  `SuccessKept`, `StatsFollow`, `CycleBounded`, `RefinesCycle`).  The age bound is
  inductive only with the age of the snapshot relative to the cycle at every place
  of the loop (`SnapshotAge`), and with how the two timeouts add up (`CycleAge`),
  from which `CycleBounded` reads off the bound that does hold where
  `TimeoutBoundsCycle` is violated: two timeouts, and one for the proxy.
  `SuccessKept` and `StatsFollow` need what a cycle carries from its start to its
  publication (`LastInv`, `SampleInv`).  `RefinesCycle` has one lemma per abstract
  step.
* **DeferredSchema** (`TypeCorrect`, `ReadyCorrect`, `CloseCorrect`, `DropCorrect`,
  `KeptCorrect`, `InTimeCorrect`, `DroppedAtExit`).  `ReadyMeansApplied` is about a
  published snapshot; the invariant `CycleKnows` follows the fact through a cycle:
  a cycle that saw the context ready has the schema check among its waiting or
  failed ones, or the action was applied, and one that did not has failed already.
  `CloseInv` adds that `stopped` is set before the interrupt and that a thread
  exists only once its field is set; `DropInv` that a registered drop means a
  finished thread.  The two action properties need that an applied action has
  registered its drop and left the thread no statement to run (`AppliedInv`).
  `DroppedAtExit` carries the obligation from the moment of application to the
  exit, by an invariant of the rest of the behaviour (`J` in its proof): only an
  action that finishes after the closing can violate `CreateDropDropsTables`.
* **PgWire** (`TypeCorrect`, `Paired`, `WholeOrNone`, `Agreement`, `Mutual`,
  `SocketIsClosed`, `RefinesCycle`).
  `SampleIsPaired` is about a stored result; the invariant says of every place of
  the exchange that the part of the answer to be read next belongs to the query
  that was asked last, so a call that returned has read its answer to the end,
  and that the parts of a result are filled up to the query before.  `Agreement`
  needs how `stats`, `snapOk` and `beaten` stand to each other at each place,
  `Mutual` that `scram` is never "begun" where `authenticate` reads on.
  `SocketIsClosed` is the safety half of `ConnectionEnds`: no path through the
  handshake, SCRAM or the queries leaves a socket behind.  `RefinesCycle` proves
  `ImplementsCycle` of this module: one lemma for the steps that are invisible and
  one for those of the cycle, the late heartbeat's among them.
* **EdgeServer** (`TypeCorrect`, `GaugesExact`, `HistogramHonest`, `LabelsAgree`,
  `BrowserSettles`, `ProbedIsNotRefused`, `DrainProgress`).  A step of a connection is
  described by what it does to the four sets the gauges count: one lemma for
  each change of place, with the facts on finite sets from the library, gives
  the gauges; that they never go negative follows.  `HistogramHonest` and
  `LabelsAgree` follow from an invariant about one request and its place
  (`Consistent`), preserved handler by handler.  `BrowserSettles` rests on a
  lemma about the operators alone: every path settles after at most four hops,
  with the one assumption that requests are well formed (`InputsAssumption`).
  `ProbedIsNotRefused` needs that a probe in the drain delay finds the latch set.
  `DrainProgress` gives `main` a rank, as for the supervisors: the delay and the
  budget lower it and nothing raises it.
* **NodeHistogram** (`StoredCumulative`, `RenderExact`).  The values of a series are
  numbered without gaps, so each observation adds one element to the history; the
  stored bucket is its cardinality up to the bound.  `RenderExact` gives the exact
  extent of the finding `SwapChangesNoQuery`: a series is written right if and only
  if none of its values belongs to a bucket before the last.  `render` is a
  recursive function; that the recursion has a solution, and what it sums to, is
  shown by the least bucket at which it would fail (`Least`, from the library's
  `WFMin`), because the induction theorems of the library take an operator as a
  parameter and cannot be instantiated with the provers at hand.

Only model-checked are liveness and fairness, which the prover does not reach:
`Recovers`, `ZombiesReaped`, `AcceptedTermEnds`, `StartsWithoutDatabase`,
`ReadyWhenDatabaseStays`, `ConnectionEnds`, `DrainEnds` and the liveness part of
`ImplementsService`.  Of `AcceptedTermEnds` (`ShutdownProgress`), `DrainEnds` (`DrainProgress`), `ZombiesReaped`
(`WakeupCorrect`, `ReaperCorrect`) and `ConnectionEnds` (`SocketIsClosed`) the
safety facts they rest on are proved.

## Plan

Done, in this order: `PgFirstInit`, `ChildSupervision` with `SupervisedService`,
`HealthCache`, `DeferredSchema`, `PgWire`, `EdgeRequests` with `EdgeServer`,
`NodeHistogram`, and `CheckCycle` with its two refinements.  What would come next, should the code change there: the
Python checker's in-flight guard, and the Node variant's drain, which differs
from `EdgeServer` only in that `server.close` has callbacks instead of a wait.

## Not modelled

* *Helm chart, workflow, Containerfiles, loggers, patches to the user interface*:
  no state at run time, formatting, or changes to programs whose source is not
  in the repository.
* *Proxy: `prepareAcmeStorage`*: one best-effort file creation before anything runs.
* *Probe commands and the reading of the environment*: a single HTTP request, and
  validation that ends the process before anything starts.
* *Wire protocol*: the bytes of a frame, the SCRAM arithmetic and the parsing of
  numbers; no property tells them apart beyond whether they succeed.
* *Go edge server*: the age of a snapshot (the rule of `HealthCache`); the
  goroutine of a check that timed out, whose late answer goes to a channel nobody
  reads; byte counters, request ids and the labels method and peer; bodies;
  redirects of the backend, which the client follows by itself; statuses below
  200, with which a handler would panic or answer twice; an `API_URL` with a base
  path, which makes every call UNKNOWN in the client metrics; the delay with
  which a load balancer acts on its probe.
* *Backend: module client*: one line of control, `call()`
  (`0001-module-assignment.patch:233`), which decorates a request with the retry
  and the retry with the breaker, so that an open breaker is not probed by
  retries; retry and breaker are resilience4j's, whose code is not in the
  repository.  The exit code, request metrics and rendering of the Backend's
  operations layer.
* *Modules (Python)*: the cached checker once more, in threads.  Its in-flight
  guard is listed as a hazard.
* *Frontend-node*, but for the histogram: the operations layer of the Go server in
  one event loop around a bundle that is not in the repository.  Its interval
  timer does not wait for a cycle, but a cycle is bounded by the timeout of its
  only waiting check, which the configuration keeps below the interval.
