# A TLA+ model of talisker

Talisker wraps a Python WSGI application in structured logging, metrics, error
reports and request contexts, and runs it under gunicorn. This directory holds
TLA+ specifications of the parts of it in which several actors meet or a call
may end in many ways, the TLC runs that check them, and TLAPS proofs about them.
Paths below are relative to `src/`.

## 1. The system

| component | state | operations | meets |
|---|---|---|---|
| Prometheus multi-process metrics (`talisker/prometheus.py`) | the metric files in `prometheus_multiproc_dir`, one multiprocessing lock shared by all processes | `collect_metrics`, `prometheus_cleanup_worker`, the lock context managers | the arbiter and every worker, through the lock and the files |
| gunicorn hooks (`talisker/gunicorn.py`) | `DEAD_WORKERS`, a synthetic signal in the arbiter's `SIG_QUEUE` | `gunicorn_child_exit`, `handle_custom`, `gunicorn_worker_abort`, `gunicorn_worker_exit` | signal handlers, the arbiter's main loop, `REQUESTS` |
| WSGI middleware (`talisker/wsgi.py`) | `REQUESTS`, one `TaliskerWSGIRequest` per request | `__call__`, `start_response`, `wrap_response`, `__next__`, `error`, `close`, `finish_request` | the application and the server, which both call it and are called by it |
| Contexts (`talisker/context.py`) | `CONTEXT_MAP`, the context variable `ContextId`; in a context a stack of log extras, counters, a deadline | `new`, `clear`, `current`, `track`, `deadline_timeout` | every task of a worker; requests, celery jobs, logging |
| requests session and adapter (`talisker/requests.py`) | a session per thread, in a thread local that a fork clears (`util.Local`); retry state on the request; metric names on the context | `get_session`, `configure`, `TaliskerAdapter.send`, `_send`, `request_wrapper` | the context's deadline, urllib3's `Retry`, `fork` |
| celery signals (`talisker/celery.py`) | attributes on task classes and instances | `task_prerun`, `task_postrun`, counters, publish | contexts |
| logging (`talisker/logs.py`) | global extras, the logger class, the handlers | `set_global_extra`, `makeRecord`, the formatters, `configure` | contexts, configuration, every log call |
| configuration (`talisker/config.py`) | the raw values, `CONFIG_CACHE`, `CONFIG_ERRORS` | `load_env_config`, `config_property`, `__setitem__` | environment and file; everything that reads a setting |
| sentry and statsd clients (`talisker/sentry.py`, `statsd.py`, `metrics.py`) | one client each per process | `get_client`, `set_client`, counters | start-up, Flask and Django, tests |
| start-up and utilities (`talisker/__init__.py`, `util.py`) | early logs, module caches | `initialise`, `early_log`, `flush_early_logs`, `module_cache`, `clear_globals` | all of the last three rows |
| testing (`talisker/testing.py`) | what a test has to put back | `TestContext.start`, `stop`, `clear_all` | the clients, the root logger, the caches |
| PostgreSQL (`talisker/postgresql.py`) | none of its own | `apply_timeout`, `execute` | the context's deadline |
| status endpoints (`talisker/endpoints.py`) | none | one handler per endpoint, `private`, `check` | the WSGI middleware outside, the application inside; `metrics` is the scrape |
| rendering (`talisker/render.py`) | none | `render_type`, `Table`, `Content` | the status endpoints and the error page |
| logstash filters, packaging, the build of the docs | | | not modelled |

What is hard here, and what has to hold:

- **Metrics.** Workers write their files without a lock, a scrape reads all files
  one after the other, and the arbiter merges and removes the files of the dead.
  The lock has a timeout, and is *not* released when the code inside it raises.
  A scrape must count each sample once; no failure may lose one; a dead worker
  must not be forgotten; nobody may hang.
- **A response.** The application may call `start_response` any number of times,
  before or in its iterator, raise or exit anywhere; the server may stop early.
  The client must get the error page when it still can, and the request must be
  logged once, truthfully, and then leave `REQUESTS`.
- **A worker's tables.** Tasks interleave between any two accesses to `REQUESTS`
  and `CONTEXT_MAP`; ids may be duplicates; an exit walks `REQUESTS` meanwhile.
  Requests must keep to their own contexts, the tables must not grow but by what
  was abandoned, and no request may be lost.
- **A call to another service.** Retries, pauses, redirects, two timeouts, a budget
  per hop and a deadline per request limit each other. No try may begin too late,
  none may be lost from the records, and the overrun must be bounded.
- **A deadline.** It comes from a header, the configuration or a decorator, goes on to the
  next service as text, and to PostgreSQL as a setting of the transaction, which
  outlives the statement. On the way it must not get longer, or lost.
- **Log extras.** A context has one stack of extras for all its tasks, cached in
  flattened form, and blocks that end in an exception do not pop theirs. Records
  must get the extras that are there, and colliding ones must not be lost.
- **The globals of a process.** `initialise()` may raise half-way and be called
  again, settings are parsed when they are first read, by whoever reads them, and
  tests replace the clients and clear the caches. Records must not double, invalid
  settings must be told of whatever was read before, and tests must not see each other.
- **Sessions.** The application is loaded before a fork, and threads race in the new
  process while one of them clears the storage of all. No connection of the parent
  or of another thread may be used, and no session lost but then.
- **The health check.** `/check` gives the application a `start_response` of its own.
  It must not call an application healthy that is not. The id of a report to sentry
  is in the headers before it is known whether there will be one.

`PROJECT.json` lists the hazards line by line with the properties for each.

## 2. Modules

| module | what it is |
|---|---|
| `MetricStore` | the promise of a metrics scrape: recorded samples, scrapes with a beginning and an answer |
| `PrometheusMultiproc` | workers, scrapes, the lock and the arbiter; implements `MetricStore` (`ImplementsStore`) |
| `MCPrometheusMultiproc` | adds the symmetry of the samples for TLC |
| `PrometheusMultiproc_proofs` | the theorems about it |
| `WsgiResponse` | one request in the middleware, with application and server as environment |
| `WsgiResponse_proofs` | the theorems about it |
| `WorkerRequests` | the requests, tasks, contexts and the exit of one worker |
| `MCWorkerRequests` | adds the symmetry of requests, tasks and ids |
| `WorkerRequests_proofs` | the theorems about it |
| `RequestsAdapter` | one call through a session with talisker's adapter, in discrete time |
| `LogContext` | the stack of log extras of a job, and how a record merges its extras |
| `Deadlines` | the deadline of a request through a chain of services, and into PostgreSQL |
| `Context_proofs` | the theorems about `LogContext` and `Deadlines`, the two parts of `context.py` |
| `CelerySignals` | publishing, runs, retries and counters in one process of a celery worker |
| `MCCelerySignals` | adds the symmetry of tasks, messages and ids |
| `CelerySignals_proofs` | the theorems about it |
| `ProcessGlobals` | configuration, early logs, handlers, statsd and sentry client, start-up and tests |
| `MCProcessGlobals` | the environments, files and changed settings that TLC tries |
| `ProcessGlobals_proofs` | the theorems about it |
| `Sessions` | the requests sessions of the threads of a process, down a line of forks, and metric names |
| `MCSessions` | adds the symmetry of threads and names |
| `Requests_proofs` | the theorems about `RequestsAdapter` and `Sessions`, the two parts of `requests.py` |
| `Rendering` | which rows of a page its text, html and json have: pure operators |
| `StatusEndpoints` | a request through both middlewares: routing, `private`, `/check`, debug, the announced report |
| `MCStatusEndpoints` | the requests and headers that TLC tries |
| `StatusEndpoints_proofs` | the theorems about it |

`Sessions` and `LogContext` have names of their own for their initial states, steps and
specifications (`SessionsSpec`, `LogSpec`), since a module of theorems extends them
together with the other part of the same file.

`WsgiResponse` is one request seen closely, `WorkerRequests` many requests seen
from the tables they share: there a request is in five phases, and everything
`WsgiResponse` tells of its response happens in the phase "running".

### PrometheusMultiproc

The file of kind `k` ("histogram" or "counter") of a worker or of the archive is
`data[k][o]`, the set of the increments it sums up: talisker merges mmapped sums
by adding them, and a sum is right exactly when each increment went into it once.
`present` is the directory listing, and has the live gauges too (they carry no
samples). One action is one system call or one step of the code that another
process can see: list the directory, read one file, rename one archive, unlink
one file. The arbiter's position is `mpc`; a scrape's is `spc[w]`.

- `ChildExit` is the SIGCHLD handler and may run between any two steps of the
  main loop (`DequeueSignal` ... `HandlerReturns`).
- `Sleep`, `Spawn` and `WorkersManaged` are the turn of the main loop that found no
  signal: gunicorn's `Arbiter.run` sleeps and then forks in `manage_workers`. Workers
  may be reaped in the sleep, so it forks with dead pids pending. A fork
  may reuse the pid of a worker reaped in an earlier turn. That the kernel comes
  round to a pid which is reaped in this very turn is ruled out: it counts through
  the whole range of pids first.
- `LockTimeout`: a blocking acquire fails only while the lock is taken; the
  polling one (`Async`) may also fail when the lock is free, since the deadline
  may pass in the sleep. A waiter enters "blocked" before it can time out.
- `Failures` says which steps may raise or die: the merge, a rename, an unlink, a
  scrape (the collector raises, or `gunicorn_worker_abort` raises
  `RequestTimeout` in it), and SIGKILL of a worker. In none of these is the lock
  given back; in all of them the arbiter goes on with the next pid.
- `since`, what was recorded when a scrape began, is a history variable.

### WsgiResponse

The variables above `appCloses` are the fields of `TaliskerWSGIRequest`, `REQUESTS`
and the log; those from `sent` on are the server's view and bounds. `iter` tells
apart what `self.iter` may be: the object the application returned ("app"),
another iterator made from it ("items"), the error page, or nothing, when the
server has its own file wrapper with a patched `close`. `pc` tells who runs.
A step of the application includes the code of `__next__` or `__call__` that
follows it up to the next point where application or server has control.
`start_response` may be given any exception as `exc_info`, one that the application
has caught among them, and that may be the `RequestTimeout` of the abort handler.
`WorkerExit` finishes what is in `REQUESTS` and puts no mark on the request. In a
synchronous worker the process ends then (`ProcessEnds`); beside other threads or greenlets
these may first go on, to the end of the request, which is a second record.
`raised` is a history variable. Bodies, headers, metrics and the sentry report
are left out; `Records` holds the fields of the log record the properties need.

### WorkerRequests

A context is named after what made it: a request, or the celery job of a task.
Every task has its own `ContextId`; a child task starts with a copy of it.
`Call` and `Register` are two steps because `__call__` tests `REQUESTS` and then
writes it, and `FinishLog` and `FinishPop` because `finish_request` logs first;
logging does I/O, where gevent, threads and asyncio switch. `main` is the task
that runs `gunicorn_worker_exit`: in a sync worker it serves the requests, in the
others it serves none and has no context. An eager job ends before its
request does (`task_postrun` runs in a `finally` of celery). `TaskEnds` is the end of the
greenlet or thread that served a request. One that was finished has cleared its
context; after `Abandon` the context stays in `CONTEXT_MAP` with no task to clear it, and
`orphans` (history) remembers it.

### RequestsAdapter

A call is a sequence of hops, the first request and its redirects, each of which
goes through `session.send` and `TaliskerAdapter.send` (`Send`), waits for a try
(`phase` "trying"), and sleeps between tries ("pausing"). `connect`, `read`,
`left`, `budget` and `start` are `kwargs['timeout']`, `request._retry`,
`request._read_timeout` and `request._start`. What leads up to a wait is one step
with the wait's beginning and takes no time; `Tick` is time passing in a wait. A
try waits once to connect and once for the response: a server that sends its
headers byte by byte could take longer, by restarting the read timeout.
`Parsed` is what `send()` makes of the forms of its timeout argument.

urllib3's `Retry` is a total and `raise_on_status`; whether it asks to retry a
response, and how long it sleeps, is open. Without a policy (`retry is None`) the
adapter behaves as with one that allows nothing and returns the last response.
`Deliver` is what comes after a response: the hook records it, and then `session.send` reads
the body. If that breaks off (`ChunkedEncodingError`) the same hop is recorded again, as
a failure. Otherwise the session returns the response, follows it as a redirect, with a
method that may be sent again or the one before, or gives up (`TooManyRedirects`,
`InvalidURL`). Since sessions follow redirects inside the first `session.send`, an
exception in a later hop is recorded for that hop and once more for the
first request (`Failures`). `tries` is a history variable.

### LogContext

The context of a celery job, whose tasks share it: `Push`, `Pop`, `Unwind` are the
methods of `ContextStack`, `Enter`, `Exit` and `Raise` the ways into and out of
`with Context.logging(...)`. A dict is a sequence of items, in insertion order,
and a name is a key with the number of underscores appended to it, so that
`user_` and a renamed `user` are the same name. `Record` is the merge of
`makeRecord`, a pure operator that `CollisionsKept` evaluates in each reachable
state for each extra a call may have. `blocks` and `pushed` are what the tasks
remember: the depths at which their blocks began and their pushes were.

`Clash` is a key that is no string and is taken: appending an underscore to it
raises, and the record has the extras of the call alone.

The tasks are the environment. A task pops no more often than it pushes, and unwinds
only when no block and no push of another task is above. This is no weaker than the
code: `unwind` inside a block makes the end of the block pop what is below it, and
nothing in talisker does it.

### Deadlines

A chain of services; the deepest one is at work and its caller waits. `Serve` is
the part of `__call__` that deadlines are in, `Decorate` a call of a function with
`request_timeout`, `Send` is `send_wrapper`. An instant in a header is a number with
the fact whether the text has a fraction: `isoformat()` leaves a zero fraction out, and
the `strptime` of the receiver wants one (`Isoformat`, `Received`). `execute()` takes the
time and sends `SET LOCAL` (`ApplyTimeout`), and then the statement (`Execute`); time may pass before
each. The connection of a service outlives its requests, and so may a
transaction. A `DeadlineExceeded`, or a `SET LOCAL` in a transaction that has failed,
changes nothing and is no step. `decorated`, `since` and `begun` are history variables.

The doc says that the header overrides the endpoint's deadline (`docs/timeouts.rst:30-32`);
in the code the decorator runs later and wins, as in the model.

### CelerySignals

One process of a worker's prefork pool (`runs` is its stack of runs), the messages on
the broker with their request id header, and publishers outside. Each signal handler
is an action with the celery step that sends it: `Prerun` and `EagerPrerun` for
`task_prerun`, `RunEnds` and `RunRetries` for the outcomes, `Postrun` for
`task_postrun`. `timestamp[t]` and `marked[t]` are the attributes that talisker puts on the task
object `t`. A run is known by its serial number, and `latency[n]` is how often run `n`
was measured. When a run retries, whether celery copies the headers of the old
message into the new one depends on its version and is open (`Header`). An eager run
may be of the same task, which is how celery 4 retries in eager mode.

### ProcessGlobals

One setting stands for each way of parsing: `DEVEL` (any value is on or off),
`TALISKER_COLOUR` (depends on `DEVEL`, has another name in the environment),
`TALISKER_REQUEST_TIMEOUT` (a number, or an error); the raw value is "unset",
"good" or "bad". `Merged` is the precedence of environment, alias and file. `Read(S)`
is an access to the settings in `S` through `config_property`: `cache` holds what was made of a value,
`errors` whose value was invalid. `SetSetting` is the assignment that forgets the
cached value only.

`handlers` counts the handlers of a kind, since `configure()` may be run again:
after it raised, or after the caches have been cleared. `cached` are those that `module_cache`
gives back, which the root logger takes once. `Initialise` is a call that returns,
`InitialiseRaisesInConfigure` and `InitialiseRaisesLate` are the two places in which
a DSN that sentry or statsd refuses ends it, with what came before it done.

A test is its serial number; `tests` is the stack of started ones with what each has to
put back, `statsd` and `remote` say to which test (0: none) the statistics and the
reports of a sentry client go. `ClearGlobals` is `clear_globals()`: the statsd client a
test has just put back goes with it, and so `StopTest` puts back the remote only.
`tampered` is a history variable: what happened that a test is not protected from.

### Sessions

A process is a number, `pid`; a fork goes on with the new process and the thread
that forked. An access to `STORAGE` checks the pid and then reads or writes the
thread local of its thread: this is one step, and `get_session` is `Begin`,
`SetSessions`, `Lookup`, `Create` or `AccessRaises`. A session is `<<pid, thread, number>>`,
where it was made. `Wrap` is `wrap()`, which reads the session when the application is
loaded and gives it to all requests. The metric names of a call are two attributes of the
context, set and deleted one by one: `Request` sets `metric_api_name`, `NameHost` sets
`metric_host_name`, `DeleteApi` and `DeleteHost` delete them. A call in a task that shares the
context (or in one without a context, which all get the same) may come
between any two of these. The `del` of an attribute that is gone raises, and then the
second is not deleted. `Label` is what `record_request` reads. `made`, `resets`, `clean` (the threads alone
in the context of their call) and `overlapped` (the contexts in which calls met, until one
that was alone has ended there) are history variables.

### StatusEndpoints and Rendering

One request, with the address it comes from and the path it goes to. `Receive` is what
`__call__` does before the application; `Route` and the actions that use it are the
endpoints; `AppStarts`, `AppReturns`, `AppRaises` and `Yield` are the application, in its call
and in its iterator, behind `/check` or not (`Checks`). A page is the sequence of
blocks it is rendered from (`PageOf`, `ErrorContent`), and `Rendering!Shown` says which of
their rows a format has. How many columns the tables in `PageOf` have is copied from the
endpoints by hand. `enabled` is `talisker.sentry.enabled`, that is whether raven is
installed; only `FinishRequest` asks, and the report it makes may fail. `AppExits` is a `SystemExit` of
the application, in its call or in its iterator. `Inspect` is an endpoint that may raise
itself. The history variables are those in the last line of the
declaration. Iterating to the end is assumed of the server; what happens when
it does not is `WsgiResponse`.

## 3. Runs

| run | result | what it shows |
|---|---|---|
| `multiproc_safety` | passes | all safety properties of the metrics, and the refinement of `MetricStore`, with every failure enabled |
| `multiproc_live` | passes | every dead worker is dealt with and every scrape ends, with a polling lock that may be lost for good |
| `wsgi_safety` | passes | logging, error answers and `start_response`, under anything the application does; and that the request is logged in the end |
| `worker_safety` | passes | contexts are kept apart, only abandoned requests leave one behind, requests are tracked until they are logged |
| `adapter_safety` | passes | tries, overruns, retries and records of a call, and that it ends, with retries, redirects, deadlines and every form of timeout |
| `log_safety` | passes | the cached extras are those on the stack, what identifies the job stays, collisions of two are kept apart |
| `deadline_safety` | passes | a deadline gets to the services that are called, and statements in a transaction end in time |
| `celery_safety` | passes | each run is measured once, request ids are handed on and never mixed up |
| `globals_safety` | passes | records come out once, invalid settings are told of, tests see their own statistics and reports and leave nothing behind |
| `sessions_safety` | passes | a session is used by the thread that made it, made once, lost at most once; a call alone in its context has its own metric names and leaves none |
| `status_safety` | passes | `/check` tells the truth, announced reports are sent and sent ones announced but in the cases listed, pages agree in all formats |
| `celery_success` | `SuccessesCounted` fails | only the first success of a task in a process is counted |

The failing run states what the documentation of celery's metrics says, which is
quoted under "findings" in `PROJECT.json`. Other places in which a comment or a document
says more than the code does are in the models as the code has them, and the
properties name them as exceptions:

- "only the final call will influence the response status and headers" (`talisker/wsgi.py:278-279`): a
  `start_response` call in the iterator that is not the first is not passed on; `ServerToldOnce` says what is.
- "so no data is lost" (`talisker/logs.py:244-245`): of three extras with the same name one
  is; `CollisionsKept` is about two.
- a deadline of less than a millisecond becomes `statement_timeout` 0, that is none
  (`talisker/postgresql.py:156`); `StatementsInTime` excepts what had less than that left.
- the header overrides the deadline of an endpoint (`docs/timeouts.rst:30-32`): the
  decorator runs later and wins, as in `Deadlines`.
- sessions are thread local (`docs/requests.rst`): all but the one in the environ
  (`talisker/wsgi.py:660`), which `OwnSession` excepts.
- "are we going to be sending a sentry report?" (`talisker/wsgi.py:211`): a soft timeout is
  not foreseen, and whether sentry is enabled is not asked, as `tests/test_wsgi.py:267` and
  `:285` have it; `ReportsAnnounced` lists this with the other exceptions.
- a test context has every metric "generated while it is active" (`docs/testing.rst:35-36`): not those
  after the caches were cleared in it, nor those of a client set in it; `TestsIsolated` excepts both.

Bounds and why they are enough:

- Metrics: two workers, one of which serves scrapes while it too may die, and two
  samples. A wrong count needs a file of a dead worker, the archive, and a
  scrape that reads them at different moments; a stale pid needs one worker to
  die twice or two to die in one pass of the loop. All of it fits. A sample is
  recorded once, which is what bounds the run. The liveness run has one sample, and
  a gauge. What is true for more workers and samples is proved, not extrapolated.
- Response: two application statuses, two `start_response` calls, two chunks: one
  chunk before and one after the headers are out, and one call on each side of the
  first chunk. `MaxCalls` and `MaxChunks` bound the application and nothing else.
- Worker: three requests in two tasks with two ids: a duplicate and a third
  request that reuses task and id. Each request runs once, and so there is no
  other bound.
- Adapter: two hops and up to two retries, with budgets of one to three, deadlines
  already over, inside the first hop and inside the second, and pauses of up to
  two, so that a pause can use up a budget or pass a deadline. `MaxHops` is one more
  than `session.max_redirects`, and `MaxPause` bounds what `Retry` may sleep; neither
  is a bound of talisker's own.
- Logging: two tasks, four keys of which talisker itself uses two and one is no string, up to three dicts
  on the stack (the job's and two above, so that blocks can end out of order) and one
  global extra. Longer extras collide in no other way than pairwise and threefold.
- Deadlines: two services, milliseconds of two ticks and seconds of three, so that instants
  are on and off a second, and what is left is below, at and above a millisecond; time
  ends at five, which leaves room for two requests over one connection. `MaxTime` is the only bound.
- Celery: two tasks, three messages, three runs: a chain of two retries, three runs
  inside each other, and messages of different requests one after the other. With
  more there is nothing new to meet, since all that outlives a run is on the two task objects.
  The failing run has no eager runs, to show that the loss does not come from them.
- Process globals: three environments and one file, by which settings are valid, invalid or
  unset, under either name, the environment overrides the file, and each client fails in one; two nested tests, and a
  third level would only repeat the second; two sentry clients, one failed start-up, `clear_all`
  before, in and after a test, two early logs and two settings set by hand.
  `MaxTests`, `MaxDepth` and the other bounds are on the callers. The proofs have none of these limits.
- Sessions: two threads, so that one forks and the other races it; two forks, so that a
  session is two processes old; three sessions per thread, of which the property says that
  at most two are made; one context, which the calls may share: what is in another
  context is not touched by them. The proof has any number of them.
- Status endpoints: each endpoint and a path of the application, called by clients
  with no address, a trusted, an untrusted and a malformed one, with and without a
  route; three calls of `start_response`, before and in the iterator; no headers, or some with a
  name twice; sentry enabled or not. A request is all there is, and so there is no other bound.

`CHECK_DEADLOCK FALSE` is in the runs of `WsgiResponse`, `WorkerRequests`,
`RequestsAdapter`, `Deadlines`, `CelerySignals` and `StatusEndpoints`, where a response ends, a worker exits, a
call is over, a request is answered, and messages run out; and in those of `ProcessGlobals` and `Sessions`,
which stop when their bounds are used up. There is always a next step in logging. The metrics system never stops.

Fairness:

- `PrometheusMultiproc!Fairness`: the arbiter's loop and a worker in a scrape keep
  running, each wait for the lock ending within its timeout of ten seconds (so the
  alternatives "acquire" and "time out" are together one fair step); SIGCHLD is
  delivered. Nothing is assumed of spawning, dying, increments or failures, and in
  particular not that a lock is ever released.
- `WsgiResponse!FairSpec`: the application goes on, since gunicorn aborts a worker
  that does not, and talisker turns that into `RequestTimeout` in the application;
  a WSGI server closes each response; an exiting worker gets to `worker_exit`. After
  that the process may end at any step, or not.
  The first of these is not given in workers whose heartbeat is another task.
- `RequestsAdapter!FairSpec`: time passes, and what a wait ends in happens: a
  socket keeps its timeouts and `time.sleep` returns.

## 4. Proofs

TLAPS proves these for every number of workers, samples, requests, threads, tests and
so on, and for every bound, from the assumptions on the constants that each module
states: that what stands for nothing is not one of the things, that bounds are
naturals, that statuses do not include the error status, and what is said below.

`PrometheusMultiproc_proofs`: `TypeCorrect`, `MutualExclusion`, `WakeupNotLost`,
`SamplesCountedOnce`, `NoSampleLost`, `ScrapesAreExact`, and
`Refinement`, that the specification implements `MetricStore`. The inductive
invariant is `Inv`:

- `TypeInv` and `CriticalSections`: who is in a critical section has the lock. The
  leak of the lock is no threat to this, only to progress.
- `QueueInv`: a pid in `DEAD_WORKERS` implies a queued signal, or a main loop
  that still has to look; and a pending pid is that of a dead worker, which the
  assumption on the kernel gives and the argument about samples needs.
- `SampleInv`: what the temporary files hold in each phase of a cleanup, and
  which two files may share samples in it: only the archive and the files of the
  pid in work, and only between the first rename and the last unlink.

`ScrapeInv` is proved on top of `Inv`: a scrape that reads has read every
sample of the files it is done with once and has the others still to read, and the
archive and dead workers' files stand still because it has the lock. Refinement
follows: a scrape takes effect in the abstract store when it releases the lock.

`WsgiResponse_proofs`: `TypeCorrect`, `LoggedByItsEnd`, `ErrorsAreAnswered`,
`LogIsTruthful`, `ResponseClosedOnce`, `ServerIsToldOnce`. The inductive
invariant `IInv` adds to the types what is known at each point: which iterator the
response can have (`Standing`), what has been switched after an exception
(`Switched`), how the status sent relates to the status kept (`Told`), and what the
records say (`Truth`; `Reported` for the one of the request's own end, `ReportedExit` for that of the
exit). What counts the records is `OwnRecords` in `Standing`: those that the request's own end
has written, beside the one of the exit.

`Requests_proofs`, first of `RequestsAdapter`: `TypeCorrect`, `NoLateTry`, `OverrunBounded`,
`RetriesCounted`, for all timeouts, policies, deadlines and pauses, from
`AdapterAssumption` (timeouts are positive, the rest is natural). The inductive
invariant `IInv` says that a hop's timeouts are within what the call was given
(`WithinCall`), that a try ends within the budget plus one time to connect
(`WithinBudget`), and that each try but the first has cost a retry (`Counted`).
`CallsAreRecorded` rests on `RecordInv`: before a call is over the hops before the present one
are recorded, in their order, as answered (`AnswersRecorded`). When it is over there are up to three more records
behind them, of the last hop and of the first request (`Ending`), from
which the number of times each is there is counted (`CoveredTimes`).

`WorkerRequests_proofs`: `TypeCorrect`, `ContextsAreOwn`, `LeaksAreOfAbandoned`, `LogsAreOwn`,
`RequestsAreTracked`. `TaskInv` says who may work in which task: a task serves one
request at a time and a child task none, and what has not begun has no id. `ContextInv`
says whose context a task can have: its request's, that of its job, or none, and that
what is in `CONTEXT_MAP` is current in the task it was made in, or an orphan, and orphans are of abandoned
requests. `TrackInv` says that an entry of
`REQUESTS` is under its own id, and that what the exit loop has not logged is still
in its list. None of the properties is inductive alone: that the next `new()` deletes
nobody else's context needs `ContextInv`, and that needs `TaskInv`.

`Requests_proofs`, then of `Sessions`: `SessionsTypeCorrect`, `SessionIsOwn`,
`SessionsAreKept`, `NamesAreOwn`. The point of `OwnInv` is that a stored session was made in the process whose pid is stored
beside it (`StoredInv`), which may be an older one until the check. `StayInv` says that at most one
thread has an old pid (the one that forked, until it asks), and that it has made no
session yet; so there can be one reset. `NamesInv` says of a call that was alone which of
its names are on the context at its stage (`AloneInv`), and of a context that it has a name for the api only
while a call has yet to delete it, and none at all when the last call was alone (`ContextInv`).

`ProcessGlobals_proofs`: `SettingsAreReported`, `RecordsAreOnce`, `TestsAreIsolated`,
`TestsAreForgotten`, from `GlobalsAssumption`. `ErrorsInv` says that without settings set by hand the errors
are those of the invalid settings that have been read, in spite of the caches, and that
the request timeout, which is computed from nothing else, has its error in any case. `EarlyInv` and
`HandlersInv` strengthen the two halves of `RecordsOnce` by what has been flushed and cached.
`TestsInv` is the chain of nested tests: they have one sentry client in common, each has to put back
the transport of the one before it (`ChainInv`), and a client sends to a test only
as long as some test has to put it back (`RemoteInv`).

`CelerySignals_proofs`: `TypeCorrect`, `EachRunMeasured`, `IdsAreOwn`,
`IdsAreHandedOn`, from `CeleryAssumption` (None is no message, id or number). `IInv`
says what is on the stack: only the first run has a message, which is taken and so is
not published again (`StackInv`), and a timestamp is that of a task with a run on the
stack (`TimestampInv`), hence none when the next message comes. `Measured` says
`MeasuredOnce` run by run, and adds that runs to come have not been measured; `IdInv` is
`IdIsOwn` with an empty context between messages. `IdHandedOn` is inductive beside it.

`Context_proofs`, first of `Deadlines`: `TypeCorrect`, `StatementsEndInTime`, `DeadlineHandedOn`, from
`DeadlinesAssumption` (the units are positive, timeouts natural). `HeaderInv` says
that a request on its way has the deadline of its sender, `StatementInv` that the
timeout set for a statement is within what was left when the time was taken;
`DeadlineTravels` is inductive beside them, service by service (`Handed`).

`Context_proofs`, then of `LogContext`: `ContextInvariance`, `FlatStaysCurrent`, `JobIsKept`,
`NothingIsLost`, for any keys, values, tasks and depths, from `LogAssumption`.
There are two arguments.

- What `Assign`, `Update`, `Merge` and `Flatten` make of dicts: these are folds, so a fact about
  them is an induction over the items. `Induction` is one about a *set* of numbers, from
  the least number of a set (`LeastNumber`), since a formula cannot be a parameter here; and
  `FoldExists` says that the function a fold stands for exists. From these come the steps that a
  fold makes (`UpdateFold`, `MergeFold`, `FlattenFold`) and then what it does: `UpdateFacts` (what
  `d.update(e)` has of `d` and of `e`), `FlattenFacts` (each name once, with the
  value nearest to the top), `RenamedPlain` (renaming makes no two plain names the same). `DictInv`
  is what a state has to have for them: dicts with each name once, and a cache that is empty or
  of the present stack. `NothingIsLost` then follows each item through renaming and the two
  updates: a name with an underscore can be taken only by the context's item of
  the same plain name, and that needs three dicts with it.
- What stays on the stack: `StackInv`. `JobStays` is not inductive, since `pop` takes whatever is on
  top, and so does the end of a block; the dict need not be the one that was pushed. What holds is a
  count: above the job there is a dict for each block and push that is open (`Slots`). `unwind` takes
  more than one dict, and keeps the count because what is open when it runs has begun below its
  depth; so the second half of `Covered` counts for each push what has begun
  below it (`Below`), which is no more than its depth. That number only grows with what begins below
  that depth, when the stack itself is not as deep.

`StatusEndpoints_proofs`: `TypeCorrect`, `ChecksAreTruthful`, `ReportsAreAnnounced`, `PagesDoAgree`, for
any requests and headers and any number of calls of `start_response`, from `StatusAssumption`
(headers are pairs of strings; what stands for nothing is no status, address or answer). `BeforeInv` says what
is not yet there at each stage, `CheckInv` that what `nagios_start` keeps is what the application said,
and `ReportInv` that an id is in the headers as soon as there would be a report. `PagesDoAgree` is
about the pages themselves: a page agrees when each of its blocks does (`PageAgrees`), and a table does
when it is empty, has two columns, or has a heading for each cell (`TableAgrees`); each table of the
endpoints is one of these, and so is that of the response headers of an error, whatever they are.

The types, `CriticalSections`, `ClosedOnce` and `LogInv` are proved and are in no run.

Only model-checked: the liveness properties `DeadWorkersHandled`, `ScrapesEnd`,
`EventuallyLogged` and `CallEnds` (fairness and ENABLED are out of reach of the
prover). `SuccessesCounted` is refuted by its run. Every other property of a run is proved.

## 5. What the models leave out

- Gauges of other kinds and summaries, which talisker never merges.
- The names of temporary files, which are left behind after a failed cleanup.
- The time of anything but a call of the adapter and a deadline. Elsewhere a timeout may come at
  any moment the code allows it.
- In the adapter: the rotation of backends, proxies and headers, which no property tells apart.
- The counters of a context, the patches for gevent and eventlet, and the fields of a log
  record one by one.
- How the formatters lay a record out, what raven puts in a report, the breadcrumbs and
  the summary of SQL, what the tables of the status endpoints hold, and how a page is
  laid out: text, with no state that outlives the call.
- The detection of the revision, which runs other programs; `run()`, which runs a script and
  exits; the command lines and the configuration of gunicorn, which parse arguments; the names of metrics.
- In testing: the search in logs, and server processes that tests start.
- In `ProcessGlobals`: threads, since start-up and tests are in one; a setting with an
  invalid value other than the kinds named; parameters of `configure()` that choose the formatter.
- In `Sessions`: forks by a thread that is itself in `get_session` or in a call; a second class of
  sessions; contexts that end. What a call leaves on a context when calls overlapped is in the model
  and excepted from `NamesOwn`, but for `metric_api_name`.
- In `StatusEndpoints`: servers that stop iterating; the figures of memory and threads; `/info/logtree`;
  what an application does after `/check` has closed it. `PagesAgree` excepts the rows of a dictionary that a
  row with the same first cell overwrites. The trusted networks are one kind of address, loopback another.
- In `PrometheusMultiproc`: a pid that the kernel hands out again in the turn of the main loop in which
  its last worker was reaped. It would be cleaned up as dead while it is alive.
- In `WsgiResponse`: a signal inside `finish_request` itself; and the exit loop reaching
  a request while its own end is in `finish_request`, which is in `WorkerRequests`.
- In the adapter: limits of a `Retry` other than its total, such as `Retry(5, read=1)`; the time it takes
  to read a body, which requests bounds per read and `HangBounded` does not count.
- In the log extras: threads that share a context and preempt each other inside a method of
  `ContextStack`; and what a formatter says of keys that it cannot use.
- Live gauges are removed outside the lock; a scrape that has listed them then raises
  and keeps the lock. This is in the model (`MarkProcessDead`, `ScrapeMissingFile`), and
  no property forbids it. Nor does one forbid that a plain number as timeout of a
  call is dropped for the adapter's time to connect (`Parsed`).
- In `Deadlines`: connections in autocommit mode, where `SET LOCAL` has no effect; a rollback to a savepoint
  undoing `SET LOCAL`; a header with another name than the default,
  which would be sent and not read; soft timeouts; contexts without a request.
- What a context holds. A record with a context stands for a record with the
  request id, the counters and the extras of that context.
- In `WorkerRequests`, a second record for a request whose finish is in progress
  when the exit loop reaches it is allowed, as in the code. In a sync worker the exit may log an abandoned
  request with the context of a later one, and in another worker without any:
  `LogsOwnContext` is about the records that `finish_request` writes as a request
  ends, not about those of the exit. A request whose id is a duplicate removes the
  entry of the other; `TrackedUntilLogged` is about requests with ids of their own. An entry that goes
  while the exit loop walks the list is a `KeyError` that ends the loop: this is in the model
  (`exit = "failed"`), and `TrackedUntilLogged` says of such an exit only that what is not logged is still in
  `REQUESTS`.
- In `LogContext`: the `trailer` of a record, and the record of a merge that raises
  (it has the extras of the call only). That an exception leaves the extras of its
  block on the stack is in the model, and nothing says it should not.
- In `CelerySignals`: the enqueue and queue latencies and the count of publications,
  which are recorded and not kept; pools of threads or greenlets, in which the runs of a task
  share its timestamp; and a failure that celery's parent process announces for
  a killed one.
- A cleanup whose wait for the lock times out is not tried again, and a response
  object that is not its own iterator is never closed: both are in the models, and
  no property forbids them.
- A worker's own start-up and the code that runs once before the fork.

- Logstash filters, packaging and the build of the documentation, which are no part of a running process.

## 6. Plan

What was most worth it came first: what can lose or corrupt data that outlives a
request (metrics), then what every request goes through, then what requests share,
then calls to other services, whose limits interact the most of the rest, and then
the globals of a process and the endpoints. What is left:

1. A worker whose celery pool runs tasks in threads or greenlets, in which the runs of a
   task share its timestamp (the hazard that no property covers).
2. The rotation of backends in the adapter, which each try of a call takes one further.
