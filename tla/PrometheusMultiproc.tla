------------------------ MODULE PrometheusMultiproc ------------------------
(***************************************************************************)
(* Prometheus metrics of a multi-process gunicorn server, as talisker runs *)
(* them (talisker/prometheus.py, talisker/gunicorn.py and the metrics      *)
(* endpoint): every worker process keeps its samples in files of its own,  *)
(* a scrape served by any worker adds up all the files, and the arbiter    *)
(* (gunicorn's master) merges the files of a dead worker into the archive. *)
(* Arbiter and scrapes meet at one multiprocessing lock, taken with a      *)
(* timeout and not released when the code between raises.                  *)
(*                                                                         *)
(* A sample is one increment.  A file of mmapped sums is the set of the    *)
(* increments it sums up: merging is union, and a sample that reaches an   *)
(* answer from two files is counted twice.                                 *)
(***************************************************************************)
EXTENDS Naturals, Sequences

CONSTANTS Workers,   \* the process ids a worker may have
          Samples,   \* the increments of one metric family
          Master,    \* the arbiter process
          Archive,   \* the owner of histogram_archive.db and counter_archive.db
          NoOne,     \* no process
          Async,     \* TRUE: the lock is polled (gevent, eventlet workers)
          Scrapers,  \* the workers the scrapes may be sent to
          Gauges,    \* the workers whose application sets a live gauge
          Failures   \* which of the steps that may raise or die do so

FailureModes == {"merge", "rename", "unlink", "raise", "kill"}

ASSUME ConstantsAssumption ==
  /\ Master \notin Workers
  /\ Archive \notin Workers
  /\ NoOne \notin Workers
  /\ NoOne # Master
  /\ Async \in BOOLEAN
  /\ Scrapers \subseteq Workers
  /\ Gauges \subseteq Workers
  /\ Failures \subseteq FailureModes

Kinds == {"histogram", "counter"}
Owners == Workers \cup {Archive}
SampleFiles == Kinds \X Owners
GaugeFiles == {"gauge"} \X Workers   \* gauge_live*_<pid>.db
Files == SampleFiles \cup GaugeFiles

VARIABLES
  wstate,       \* wstate[w]: what the kernel and the arbiter know of pid w
  present,      \* the files in prometheus_multiproc_dir
  data,         \* data[k][o]: the samples in the file of kind k of owner o
  lock,         \* who holds the multiprocessing lock
  sigQueue,     \* arbiter.SIG_QUEUE, talisker's synthetic signal only
  deadWorkers,  \* DEAD_WORKERS
  mpc,          \* where the arbiter's main loop is
  mPid,         \* the pid prometheus_cleanup_worker was called with
  mPaths,       \* its paths: the kinds of the files still to be unlinked
  mTemp,        \* mTemp[k]: the merged samples in its temporary files
  spc,          \* spc[w]: where worker w's scrape is
  todo,         \* todo[w]: the files w's scrape has listed and not read yet
  got,          \* got[w][k][s]: how often w's scrape has read sample s
  since         \* since[w][k]: (history) what was recorded when it began

arbiterVars == <<sigQueue, deadWorkers, mpc, mPid, mPaths, mTemp>>
scrapeVars == <<spc, todo, got, since>>
fileVars == <<present, data>>
vars == <<wstate, fileVars, lock, arbiterVars, scrapeVars>>

ArbiterPCs == {"loop", "manage", "while", "mark_dead", "filter", "merge", "acquire", "blocked",
               "rename_histogram", "rename_counter", "unlink", "clear"}
ScrapePCs == {"idle", "acquire", "blocked", "list", "read", "answered"}

NoSamples == [k \in Kinds |-> {}]
NothingRead == [k \in Kinds |-> [s \in Samples |-> 0]]

\* Everything the files hold: what a scrape should report.
Recorded(k) == UNION {data[k][o] : o \in Owners}
AllRecorded == [k \in Kinds |-> Recorded(k)]

\* The pids whose files the arbiter is cleaning up or still has to.
Pending == {deadWorkers[i] : i \in DOMAIN deadWorkers} \cup ({mPid} \ {NoOne})

TypeOK ==
  /\ wstate \in [Workers -> {"none", "alive", "zombie", "dead"}]
  /\ present \subseteq Files
  /\ data \in [Kinds -> [Owners -> SUBSET Samples]]
  /\ lock \in Workers \cup {Master, NoOne}
  /\ sigQueue \subseteq {"SIGCUSTOM"}
  /\ deadWorkers \in Seq(Workers)
  /\ mpc \in ArbiterPCs
  /\ mPid \in Workers \cup {NoOne}
  /\ mPaths \subseteq Kinds
  /\ mTemp \in [Kinds -> SUBSET Samples]
  /\ spc \in [Workers -> ScrapePCs]
  /\ todo \in [Workers -> SUBSET Files]
  /\ got \in [Workers -> [Kinds -> [Samples -> Nat]]]
  /\ since \in [Workers -> [Kinds -> SUBSET Samples]]

Init ==
  /\ wstate = [w \in Workers |-> "none"]
  /\ present = {}
  /\ data = [k \in Kinds |-> [o \in Owners |-> {}]]
  /\ lock = NoOne
  /\ sigQueue = {}
  /\ deadWorkers = <<>>
  /\ mpc = "loop"
  /\ mPid = NoOne
  /\ mPaths = {}
  /\ mTemp = NoSamples
  /\ spc = [w \in Workers |-> "idle"]
  /\ todo = [w \in Workers |-> {}]
  /\ got = [w \in Workers |-> NothingRead]
  /\ since = [w \in Workers |-> NoSamples]

-----------------------------------------------------------------------------
(* The worker processes and what the kernel does to them.                  *)

\* The arbiter forks a worker, in the turn of its main loop that it has slept in,
\* where workers may have been reaped.  The kernel may hand out the pid of a worker
\* reaped earlier, but it does not come round to one again within the turn.
Spawn(w) ==
  /\ mpc = "manage"
  /\ wstate[w] \in {"none", "dead"} /\ w \notin Pending
  /\ wstate' = [wstate EXCEPT ![w] = "alive"]
  /\ UNCHANGED <<fileVars, lock, arbiterVars, scrapeVars>>

\* prometheus_client adds an increment to the worker's own file, which it
\* opens, keeping what is there, or creates.  No lock is taken.
Inc(w, k, s) ==
  /\ wstate[w] = "alive"
  /\ s \notin Recorded(k)
  /\ data' = [data EXCEPT ![k][w] = @ \cup {s}]
  /\ present' = present \cup {<<k, w>>}
  /\ UNCHANGED <<wstate, lock, arbiterVars, scrapeVars>>

\* The application sets a gauge that lives as long as its worker.
SetGauge(w) ==
  /\ w \in Gauges /\ wstate[w] = "alive"
  /\ <<"gauge", w>> \notin present
  /\ present' = present \cup {<<"gauge", w>>}
  /\ UNCHANGED <<wstate, data, lock, arbiterVars, scrapeVars>>

ForgetScrape(w) ==
  /\ spc' = [spc EXCEPT ![w] = "idle"]
  /\ todo' = [todo EXCEPT ![w] = {}]
  /\ got' = [got EXCEPT ![w] = NothingRead]
  /\ since' = [since EXCEPT ![w] = NoSamples]

\* A worker that serves no scrape exits.
Exit(w) ==
  /\ wstate[w] = "alive" /\ spc[w] = "idle"
  /\ wstate' = [wstate EXCEPT ![w] = "zombie"]
  /\ UNCHANGED <<fileVars, lock, arbiterVars, scrapeVars>>

\* A worker is killed in the middle of a scrape; the semaphore under the lock
\* is not given back.
Kill(w) ==
  /\ "kill" \in Failures
  /\ wstate[w] = "alive" /\ spc[w] # "idle"
  /\ wstate' = [wstate EXCEPT ![w] = "zombie"]
  /\ ForgetScrape(w)
  /\ UNCHANGED <<fileVars, lock, arbiterVars>>

-----------------------------------------------------------------------------
(* try_prometheus_lock, for the arbiter and for the scrapes.               *)

AcquireLock(p) ==
  /\ lock = NoOne
  /\ lock' = p

\* A blocking acquire gives up while the lock is taken; a polling one gives
\* up when the deadline passes in the sleep that follows a failed poll.
LockTimeout ==
  /\ Async \/ lock # NoOne
  /\ UNCHANGED lock

-----------------------------------------------------------------------------
(* A scrape: Endpoints.metrics and collect_metrics in worker w.            *)

ScrapeBegin(w) ==
  /\ w \in Scrapers /\ wstate[w] = "alive" /\ spc[w] = "idle"
  /\ spc' = [spc EXCEPT ![w] = "acquire"]
  /\ since' = [since EXCEPT ![w] = AllRecorded]
  /\ UNCHANGED <<wstate, fileVars, lock, arbiterVars, todo, got>>

ScrapeAcquire(w) ==
  /\ spc[w] \in {"acquire", "blocked"}
  /\ AcquireLock(w)
  /\ spc' = [spc EXCEPT ![w] = "list"]
  /\ UNCHANGED <<wstate, fileVars, arbiterVars, todo, got, since>>

ScrapeBlocked(w) ==
  /\ spc[w] = "acquire" /\ lock # NoOne
  /\ spc' = [spc EXCEPT ![w] = "blocked"]
  /\ UNCHANGED <<wstate, fileVars, lock, arbiterVars, todo, got, since>>

\* Mutant: the wait for the lock starts over instead of raising.
ScrapeRetries(w) ==
  /\ spc[w] = "blocked"
  /\ LockTimeout
  /\ spc' = [spc EXCEPT ![w] = "acquire"]
  /\ UNCHANGED <<wstate, fileVars, arbiterVars, todo, got, since>>

\* PrometheusLockTimeout: the endpoint answers 500.
ScrapeTimeout(w) ==
  /\ spc[w] = "blocked"
  /\ LockTimeout
  /\ ForgetScrape(w)
  /\ UNCHANGED <<wstate, fileVars, arbiterVars>>

\* MultiProcessCollector.collect globs the directory...
ScrapeList(w) ==
  /\ spc[w] = "list"
  /\ spc' = [spc EXCEPT ![w] = "read"]
  /\ todo' = [todo EXCEPT ![w] = present]
  /\ UNCHANGED <<wstate, fileVars, lock, arbiterVars, got, since>>

\* ...and reads one file after the other.
ScrapeRead(w, f) ==
  /\ spc[w] = "read" /\ f \in todo[w] /\ f \in present
  /\ todo' = [todo EXCEPT ![w] = @ \ {f}]
  /\ got' = IF f \in GaugeFiles
            THEN got
            ELSE [got EXCEPT ![w][f[1]] =
                    [s \in Samples |-> @[s] + (IF s \in data[f[1]][f[2]] THEN 1 ELSE 0)]]
  /\ UNCHANGED <<wstate, fileVars, lock, arbiterVars, spc, since>>

\* A listed file is gone: open() raises out of the with block, which does not
\* release the lock.
ScrapeMissingFile(w, f) ==
  /\ spc[w] = "read" /\ f \in todo[w] /\ f \notin present
  /\ ForgetScrape(w)
  /\ UNCHANGED <<wstate, fileVars, lock, arbiterVars>>

\* The collector raises, or SIGABRT makes gunicorn_worker_abort raise
\* RequestTimeout: again the lock, if held, is not released.
ScrapeRaises(w) ==
  /\ "raise" \in Failures
  /\ spc[w] \in {"acquire", "blocked", "list", "read"}
  /\ ForgetScrape(w)
  /\ UNCHANGED <<wstate, fileVars, lock, arbiterVars>>

\* The end of the with block.
ScrapeRelease(w) ==
  /\ spc[w] = "read" /\ todo[w] = {}
  /\ lock' = NoOne
  /\ spc' = [spc EXCEPT ![w] = "answered"]
  /\ UNCHANGED <<wstate, fileVars, arbiterVars, todo, got, since>>

ScrapeRespond(w) ==
  /\ spc[w] = "answered"
  /\ ForgetScrape(w)
  /\ UNCHANGED <<wstate, fileVars, lock, arbiterVars>>

-----------------------------------------------------------------------------
(* The arbiter: gunicorn_child_exit in the SIGCHLD handler, then           *)
(* handle_custom and prometheus_cleanup_worker in the main loop.           *)

\* The signal handler runs to its end between two steps of the main loop.
ChildExit(w) ==
  /\ wstate[w] = "zombie"
  /\ wstate' = [wstate EXCEPT ![w] = "dead"]
  /\ deadWorkers' = Append(deadWorkers, w)
  /\ sigQueue' = sigQueue \cup {"SIGCUSTOM"}
  /\ UNCHANGED <<fileVars, lock, mpc, mPid, mPaths, mTemp, scrapeVars>>

\* Arbiter.run with no signal queued: sleep(), then manage_workers().
Sleep ==
  /\ mpc = "loop" /\ sigQueue = {}
  /\ mpc' = "manage"
  /\ UNCHANGED <<wstate, fileVars, lock, sigQueue, deadWorkers, mPid, mPaths, mTemp, scrapeVars>>

WorkersManaged ==
  /\ mpc = "manage"
  /\ mpc' = "loop"
  /\ UNCHANGED <<wstate, fileVars, lock, sigQueue, deadWorkers, mPid, mPaths, mTemp, scrapeVars>>

\* The main loop takes SIGCUSTOM off the queue and calls handle_custom.
DequeueSignal ==
  /\ mpc = "loop" /\ "SIGCUSTOM" \in sigQueue
  /\ sigQueue' = sigQueue \ {"SIGCUSTOM"}
  /\ mpc' = "while"
  /\ UNCHANGED <<wstate, fileVars, lock, deadWorkers, mPid, mPaths, mTemp, scrapeVars>>

PopDeadWorker ==
  /\ mpc = "while" /\ deadWorkers # <<>>
  /\ mPid' = Head(deadWorkers)
  /\ deadWorkers' = Tail(deadWorkers)
  /\ mpc' = "mark_dead"
  /\ UNCHANGED <<wstate, fileVars, lock, sigQueue, mPaths, mTemp, scrapeVars>>

\* mark_process_dead removes the dead worker's live gauges, outside the lock.
MarkProcessDead ==
  /\ mpc = "mark_dead"
  /\ present' = present \ {<<"gauge", mPid>>}
  /\ mpc' = "filter"
  /\ UNCHANGED <<wstate, data, lock, sigQueue, deadWorkers, mPid, mPaths, mTemp, scrapeVars>>

\* Mutant: one dead worker per signal.
CleanupOverOnce ==
  /\ mpc' = "clear"
  /\ mPid' = NoOne
  /\ mPaths' = {}
  /\ mTemp' = NoSamples

\* prometheus_cleanup_worker is over, by return or by an exception that
\* handle_custom logs: on to the next dead worker.  Not a step of its own.
CleanupOver ==
  /\ mpc' = "while"
  /\ mPid' = NoOne
  /\ mPaths' = {}
  /\ mTemp' = NoSamples

FilterExists ==
  LET paths == {k \in Kinds : <<k, mPid>> \in present} IN
  /\ mpc = "filter"
  /\ IF paths = {}
     THEN CleanupOver
     ELSE /\ mPaths' = paths
          /\ mpc' = "merge"
          /\ UNCHANGED <<mPid, mTemp>>
  /\ UNCHANGED <<wstate, fileVars, lock, sigQueue, deadWorkers, scrapeVars>>

\* Mutant: the old archive is not merged in.
MergeWorkerOnly ==
  /\ mpc = "merge"
  /\ mTemp' = [k \in Kinds |-> IF k \in mPaths THEN data[k][mPid] ELSE {}]
  /\ mpc' = "acquire"
  /\ UNCHANGED <<wstate, fileVars, lock, sigQueue, deadWorkers, mPid, mPaths, scrapeVars>>

\* The worker's files and the archive are merged into two temporary files.
Merge ==
  /\ mpc = "merge"
  /\ mTemp' = [k \in Kinds |-> data[k][Archive] \cup
                               (IF k \in mPaths THEN data[k][mPid] ELSE {})]
  /\ mpc' = "acquire"
  /\ UNCHANGED <<wstate, fileVars, lock, sigQueue, deadWorkers, mPid, mPaths, scrapeVars>>

\* Mutant: try_prometheus_lock_noop where the lock is needed.
CleanupAcquireNoop ==
  /\ mpc \in {"acquire", "blocked"}
  /\ mpc' = "rename_histogram"
  /\ UNCHANGED <<wstate, fileVars, lock, sigQueue, deadWorkers, mPid, mPaths, mTemp, scrapeVars>>

CleanupAcquire ==
  /\ mpc \in {"acquire", "blocked"}
  /\ AcquireLock(Master)
  /\ mpc' = "rename_histogram"
  /\ UNCHANGED <<wstate, fileVars, sigQueue, deadWorkers, mPid, mPaths, mTemp, scrapeVars>>

CleanupBlocked ==
  /\ mpc = "acquire" /\ lock # NoOne
  /\ mpc' = "blocked"
  /\ UNCHANGED <<wstate, fileVars, lock, sigQueue, deadWorkers, mPid, mPaths, mTemp, scrapeVars>>

\* Mutant: a cleanup without the lock unlinks what it has not merged.
CleanupTimeoutUnlinks ==
  /\ mpc = "blocked"
  /\ LockTimeout
  /\ data' = [k \in Kinds |-> [data[k] EXCEPT ![mPid] = {}]]
  /\ present' = present \ {<<k, mPid>> : k \in Kinds}
  /\ CleanupOver
  /\ UNCHANGED <<wstate, sigQueue, deadWorkers, scrapeVars>>

\* PrometheusLockTimeout is logged; the pid is not queued again.
CleanupTimeout ==
  /\ mpc = "blocked"
  /\ LockTimeout
  /\ CleanupOver
  /\ UNCHANGED <<wstate, fileVars, sigQueue, deadWorkers, scrapeVars>>

RenameArchive(k) ==
  /\ data' = [data EXCEPT ![k][Archive] = mTemp[k]]
  /\ present' = present \cup {<<k, Archive>>}
  /\ UNCHANGED <<wstate, lock, sigQueue, deadWorkers, mPid, mPaths, mTemp, scrapeVars>>

RenameHistogram ==
  /\ mpc = "rename_histogram"
  /\ mpc' = "rename_counter"
  /\ RenameArchive("histogram")

RenameCounter ==
  /\ mpc = "rename_counter"
  /\ mpc' = "unlink"
  /\ RenameArchive("counter")

\* for path in paths: os.unlink(path), the histogram first
Unlink(k) ==
  /\ mpc = "unlink" /\ k \in mPaths
  /\ k = "counter" => "histogram" \notin mPaths
  /\ data' = [data EXCEPT ![k][mPid] = {}]
  /\ present' = present \ {<<k, mPid>>}
  /\ mPaths' = mPaths \ {k}
  /\ UNCHANGED <<wstate, lock, sigQueue, deadWorkers, mpc, mPid, mTemp, scrapeVars>>

CleanupRelease ==
  /\ mpc = "unlink" /\ mPaths = {}
  /\ lock' = NoOne
  /\ CleanupOver
  /\ UNCHANGED <<wstate, fileVars, sigQueue, deadWorkers, scrapeVars>>

\* Mutant: the lock is released in a finally clause and nothing is undone.
CleanupRaisesFinally ==
  /\ \/ mpc \in {"rename_histogram", "rename_counter"} /\ "rename" \in Failures
     \/ mpc = "unlink" /\ mPaths # {} /\ "unlink" \in Failures
  /\ lock' = NoOne
  /\ CleanupOver
  /\ UNCHANGED <<wstate, fileVars, sigQueue, deadWorkers, scrapeVars>>

\* merge, os.rename or os.unlink raises.  handle_custom logs the exception;
\* if the lock is held it stays so.
CleanupRaises ==
  /\ \/ mpc = "merge" /\ "merge" \in Failures
     \/ mpc \in {"rename_histogram", "rename_counter"} /\ "rename" \in Failures
     \/ mpc = "unlink" /\ mPaths # {} /\ "unlink" \in Failures
  /\ CleanupOver
  /\ UNCHANGED <<wstate, fileVars, lock, sigQueue, deadWorkers, scrapeVars>>

\* while DEAD_WORKERS finds none, then talisker.clear_context() and return
QueueEmpty ==
  /\ mpc = "while" /\ deadWorkers = <<>>
  /\ mpc' = "clear"
  /\ UNCHANGED <<wstate, fileVars, lock, sigQueue, deadWorkers, mPid, mPaths, mTemp, scrapeVars>>

\* Mutant: SIGCUSTOM is taken off the queue when the handler is done.
HandlerClearsQueue ==
  /\ mpc = "clear"
  /\ mpc' = "loop"
  /\ sigQueue' = {}
  /\ UNCHANGED <<wstate, fileVars, lock, deadWorkers, mPid, mPaths, mTemp, scrapeVars>>

HandlerReturns ==
  /\ mpc = "clear"
  /\ mpc' = "loop"
  /\ UNCHANGED <<wstate, fileVars, lock, sigQueue, deadWorkers, mPid, mPaths, mTemp, scrapeVars>>

-----------------------------------------------------------------------------
WorkerStep(w) ==
  \/ Spawn(w)
  \/ \E k \in Kinds, s \in Samples : Inc(w, k, s)
  \/ SetGauge(w)
  \/ Exit(w)
  \/ Kill(w)

ScrapeProgress(w) ==
  \/ ScrapeAcquire(w)
  \/ ScrapeBlocked(w)
  \/ ScrapeTimeout(w)
  \/ ScrapeList(w)
  \/ \E f \in Files : ScrapeRead(w, f) \/ ScrapeMissingFile(w, f)
  \/ ScrapeRelease(w)
  \/ ScrapeRespond(w)

ArbiterStep ==
  \/ Sleep
  \/ WorkersManaged
  \/ DequeueSignal
  \/ PopDeadWorker
  \/ MarkProcessDead
  \/ FilterExists
  \/ Merge
  \/ CleanupAcquire
  \/ CleanupBlocked
  \/ CleanupTimeout
  \/ RenameHistogram
  \/ RenameCounter
  \/ \E k \in Kinds : Unlink(k)
  \/ CleanupRelease
  \/ CleanupRaises
  \/ QueueEmpty
  \/ HandlerReturns

Next ==
  \/ ArbiterStep
  \/ \E w \in Workers :
        WorkerStep(w) \/ ScrapeBegin(w) \/ ScrapeProgress(w) \/ ScrapeRaises(w) \/ ChildExit(w)

Spec == Init /\ [][Next]_vars

\* The arbiter's loop and a worker serving a scrape keep running (a lock wait
\* ends within its timeout), and the kernel delivers SIGCHLD.
Fairness ==
  /\ WF_vars(ArbiterStep)
  /\ \A w \in Workers : WF_vars(ScrapeProgress(w)) /\ WF_vars(ChildExit(w))

FairSpec == Spec /\ Fairness
-----------------------------------------------------------------------------
(* Properties.                                                             *)

\* A reaped worker never waits unnoticed: whenever DEAD_WORKERS is not empty
\* and the main loop is not about to look at it, SIGCUSTOM is queued
\* (gunicorn.py, gunicorn_child_exit against handle_custom).
NoLostWakeup ==
  deadWorkers # <<>> /\ mpc \in {"loop", "manage", "clear"} => "SIGCUSTOM" \in sigQueue

\* No scrape reads while the arbiter swaps the archive and unlinks, whatever
\* raised or died before (the two with blocks of prometheus.py).
CriticalSections ==
  /\ \A w \in Workers : spc[w] \in {"list", "read"} => lock = w
  /\ mpc \in {"rename_histogram", "rename_counter", "unlink"} => lock = Master

\* As long as the arbiter does not hold the lock, no sample is in two files,
\* even after a cleanup that failed half way.
NoSampleTwice ==
  lock # Master =>
    \A k \in Kinds : \A o1, o2 \in Owners :
      o1 # o2 => data[k][o1] \cap data[k][o2] = {}

\* A scrape that answers counts every sample recorded before it began exactly
\* once, and nothing twice, although workers write, die and are merged into
\* the archive meanwhile (collect_metrics).
ScrapeExact ==
  \A w \in Workers : spc[w] = "answered" =>
    \A k \in Kinds, s \in Samples :
      /\ s \in since[w][k] => got[w][k][s] = 1
      /\ got[w][k][s] > 0 => got[w][k][s] = 1 /\ s \in Recorded(k)

\* No step, failing ones included, loses a sample (prometheus_cleanup_worker).
SamplesNeverLost == [][\A k \in Kinds : Recorded(k) \subseteq Recorded(k)']_vars

\* The scrapes in progress, and the answers that wait to be sent.
Asking == {w \in Workers : spc[w] # "idle"}
Answers == [w \in Workers |-> IF spc[w] = "answered" THEN got[w] ELSE NothingRead]

Store == INSTANCE MetricStore WITH
  Scrapers <- Workers, recorded <- AllRecorded, asking <- Asking, answer <- Answers

\* Every scrape is a scrape of the abstract store.
ImplementsStore == Store!Spec

\* The arbiter deals with every dead worker, whatever fails on the way ("we
\* should never fail at cleaning up", handle_custom).
DeadWorkersHandled ==
  \A w \in Workers : wstate[w] = "zombie" ~> wstate[w] = "dead" /\ w \notin Pending

\* A scrape is answered or fails; it does not hang on the lock.
ScrapesEnd == \A w \in Workers : spc[w] = "acquire" ~> spc[w] = "idle"

=============================================================================
