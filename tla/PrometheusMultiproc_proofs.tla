--------------------- MODULE PrometheusMultiproc_proofs ---------------------
(***************************************************************************)
(* Proofs about PrometheusMultiproc, for any set of workers, samples,      *)
(* scrapers and failing steps.                                             *)
(***************************************************************************)
EXTENDS PrometheusMultiproc, TLAPS

-----------------------------------------------------------------------------
(* Typing.                                                                 *)

\* The arbiter is inside prometheus_cleanup_worker.
Cleaning == {"mark_dead", "filter", "merge", "acquire", "blocked",
             "rename_histogram", "rename_counter", "unlink"}

\* It is there with a pid, and has none elsewhere.
PidOfCleanup == mPid \in Workers <=> mpc \in Cleaning

TypeInv == TypeOK /\ PidOfCleanup

\* Every step keeps the variables in their types.
LEMMA TypeStep == TypeInv /\ [Next]_vars => TypeInv'
  <1> SUFFICES ASSUME TypeInv, [Next]_vars PROVE TypeInv'
    OBVIOUS
  <1> USE ConstantsAssumption
  <1> USE DEF TypeInv, PidOfCleanup, Cleaning, TypeOK, Files, SampleFiles, GaugeFiles, Owners, Kinds, ArbiterPCs, ScrapePCs,
              fileVars, arbiterVars, scrapeVars
  <1>1. ASSUME NEW w \in Workers, WorkerStep(w) PROVE TypeInv'
    <2>1. CASE Spawn(w)
      BY <2>1 DEF Spawn
    <2>2. ASSUME NEW k \in Kinds, NEW s \in Samples, Inc(w, k, s) PROVE TypeInv'
      BY <2>2 DEF Inc
    <2>3. CASE SetGauge(w)
      BY <2>3 DEF SetGauge
    <2>4. CASE Exit(w)
      BY <2>4 DEF Exit
    <2>5. CASE Kill(w)
      BY <2>5 DEF Kill, ForgetScrape, NothingRead, NoSamples
    <2> QED
      BY <1>1, <2>1, <2>2, <2>3, <2>4, <2>5 DEF WorkerStep
  <1>2. ASSUME NEW w \in Workers, ScrapeProgress(w) PROVE TypeInv'
    <2>1. CASE ScrapeAcquire(w)
      BY <2>1 DEF ScrapeAcquire, AcquireLock
    <2>2. CASE ScrapeBlocked(w)
      BY <2>2 DEF ScrapeBlocked
    <2>3. CASE ScrapeTimeout(w)
      BY <2>3 DEF ScrapeTimeout, LockTimeout, ForgetScrape, NothingRead, NoSamples
    <2>4. CASE ScrapeList(w)
      BY <2>4 DEF ScrapeList
    <2>5. ASSUME NEW f \in Files, ScrapeRead(w, f) PROVE TypeInv'
      <3>1. CASE f \in GaugeFiles
        BY <2>5, <3>1 DEF ScrapeRead
      <3>2. CASE f \in SampleFiles
        <4>1. f[1] \in Kinds /\ f[2] \in Owners /\ f \notin GaugeFiles
          BY <3>2
        <4>2. got' \in [Workers -> [Kinds -> [Samples -> Nat]]]
          BY <2>5, <4>1 DEF ScrapeRead
        <4> QED
          BY <2>5, <4>2 DEF ScrapeRead
      <3> QED
        BY <3>1, <3>2
    <2>6. ASSUME NEW f \in Files, ScrapeMissingFile(w, f) PROVE TypeInv'
      BY <2>6 DEF ScrapeMissingFile, ForgetScrape, NothingRead, NoSamples
    <2>7. CASE ScrapeRelease(w)
      BY <2>7 DEF ScrapeRelease
    <2>8. CASE ScrapeRespond(w)
      BY <2>8 DEF ScrapeRespond, ForgetScrape, NothingRead, NoSamples
    <2> QED
      BY <1>2, <2>1, <2>2, <2>3, <2>4, <2>5, <2>6, <2>7, <2>8 DEF ScrapeProgress
  <1>3. ASSUME NEW w \in Workers, ScrapeBegin(w) PROVE TypeInv'
    BY <1>3 DEF ScrapeBegin, AllRecorded, Recorded
  <1>4. ASSUME NEW w \in Workers, ScrapeRaises(w) PROVE TypeInv'
    BY <1>4 DEF ScrapeRaises, ForgetScrape, NothingRead, NoSamples
  <1>5. ASSUME NEW w \in Workers, ChildExit(w) PROVE TypeInv'
    BY <1>5 DEF ChildExit
  <1>6. CASE ArbiterStep
    <2> USE DEF CleanupOver, NoSamples
    <2>1. CASE DequeueSignal
      BY <2>1 DEF DequeueSignal
    <2>2. CASE PopDeadWorker
      BY <2>2 DEF PopDeadWorker
    <2>3. CASE MarkProcessDead
      BY <2>3 DEF MarkProcessDead
    <2>4. CASE FilterExists
      BY <2>4 DEF FilterExists
    <2>5. CASE Merge
      BY <2>5 DEF Merge
    <2>6. CASE CleanupAcquire
      BY <2>6 DEF CleanupAcquire, AcquireLock
    <2>7. CASE CleanupBlocked
      BY <2>7 DEF CleanupBlocked
    <2>8. CASE CleanupTimeout
      BY <2>8 DEF CleanupTimeout, LockTimeout
    <2>9. CASE RenameHistogram
      BY <2>9 DEF RenameHistogram, RenameArchive
    <2>10. CASE RenameCounter
      BY <2>10 DEF RenameCounter, RenameArchive
    <2>11. ASSUME NEW k \in Kinds, Unlink(k) PROVE TypeInv'
      BY <2>11 DEF Unlink
    <2>12. CASE CleanupRelease
      BY <2>12 DEF CleanupRelease
    <2>13. CASE CleanupRaises
      BY <2>13 DEF CleanupRaises
    <2>14. CASE QueueEmpty
      BY <2>14 DEF QueueEmpty
    <2>15. CASE HandlerReturns \/ Sleep \/ WorkersManaged
      BY <2>15 DEF HandlerReturns, Sleep, WorkersManaged
    <2> QED
      BY <1>6, <2>1, <2>2, <2>3, <2>4, <2>5, <2>6, <2>7, <2>8, <2>9, <2>10, <2>11, <2>12,
         <2>13, <2>14, <2>15 DEF ArbiterStep
  <1>7. CASE UNCHANGED vars
    BY <1>7 DEF vars
  <1> QED
    BY <1>1, <1>2, <1>3, <1>4, <1>5, <1>6, <1>7 DEF Next

\* The initial state is typed.
LEMMA TypeInit == Init => TypeInv
  BY ConstantsAssumption
  DEF Init, TypeInv, PidOfCleanup, Cleaning, TypeOK, ArbiterPCs, ScrapePCs, NothingRead,
      NoSamples, Files, Owners

\* Every variable keeps to its type: TypeOK is an invariant.
THEOREM TypeCorrect == Spec => []TypeOK
  <1>1. TypeInv => TypeOK
    BY DEF TypeInv
  <1> QED
    BY <1>1, TypeInit, TypeStep, PTL DEF Spec
-----------------------------------------------------------------------------
(* Mutual exclusion.                                                       *)

\* Every step keeps the lock with the one process that works under it.
LEMMA LockStep == TypeInv /\ CriticalSections /\ [Next]_vars => CriticalSections'
  <1> SUFFICES ASSUME TypeInv, CriticalSections, [Next]_vars PROVE CriticalSections'
    OBVIOUS
  <1> USE ConstantsAssumption
  <1> USE DEF TypeInv, TypeOK, CriticalSections, fileVars, arbiterVars, scrapeVars
  <1>1. ASSUME NEW w \in Workers, WorkerStep(w) PROVE CriticalSections'
    BY <1>1 DEF WorkerStep, Spawn, Inc, SetGauge, Exit, Kill, ForgetScrape
  <1>2. ASSUME NEW w \in Workers, ScrapeProgress(w) PROVE CriticalSections'
    <2>1. CASE ScrapeAcquire(w)
      BY <2>1 DEF ScrapeAcquire, AcquireLock
    <2>2. CASE ScrapeBlocked(w)
      BY <2>2 DEF ScrapeBlocked
    <2>3. CASE ScrapeTimeout(w)
      BY <2>3 DEF ScrapeTimeout, LockTimeout, ForgetScrape
    <2>4. CASE ScrapeList(w)
      BY <2>4 DEF ScrapeList
    <2>5. ASSUME NEW f \in Files, ScrapeRead(w, f) \/ ScrapeMissingFile(w, f)
          PROVE CriticalSections'
      BY <2>5 DEF ScrapeRead, ScrapeMissingFile, ForgetScrape
    <2>6. CASE ScrapeRelease(w)
      BY <2>6 DEF ScrapeRelease
    <2>7. CASE ScrapeRespond(w)
      BY <2>7 DEF ScrapeRespond, ForgetScrape
    <2> QED
      BY <1>2, <2>1, <2>2, <2>3, <2>4, <2>5, <2>6, <2>7 DEF ScrapeProgress
  <1>3. ASSUME NEW w \in Workers, ScrapeBegin(w) PROVE CriticalSections'
    BY <1>3 DEF ScrapeBegin
  <1>4. ASSUME NEW w \in Workers, ScrapeRaises(w) PROVE CriticalSections'
    BY <1>4 DEF ScrapeRaises, ForgetScrape
  <1>5. ASSUME NEW w \in Workers, ChildExit(w) PROVE CriticalSections'
    BY <1>5 DEF ChildExit
  <1>6. CASE ArbiterStep
    <2>1. CASE CleanupAcquire
      BY <2>1 DEF CleanupAcquire, AcquireLock
    <2>2. CASE CleanupRelease
      BY <2>2 DEF CleanupRelease, CleanupOver
    <2>3. CASE DequeueSignal \/ PopDeadWorker \/ MarkProcessDead \/ FilterExists \/ Merge
      BY <2>3 DEF DequeueSignal, PopDeadWorker, MarkProcessDead, FilterExists, Merge, CleanupOver
    <2>4. CASE CleanupBlocked \/ CleanupTimeout \/ CleanupRaises \/ QueueEmpty \/ HandlerReturns \/ Sleep \/ WorkersManaged
      BY <2>4 DEF CleanupBlocked, CleanupTimeout, LockTimeout, CleanupRaises, QueueEmpty,
                  HandlerReturns, Sleep, WorkersManaged, CleanupOver
    <2>5. CASE RenameHistogram \/ RenameCounter
      BY <2>5 DEF RenameHistogram, RenameCounter, RenameArchive
    <2>6. ASSUME NEW k \in Kinds, Unlink(k) PROVE CriticalSections'
      BY <2>6 DEF Unlink
    <2> QED
      BY <1>6, <2>1, <2>2, <2>3, <2>4, <2>5, <2>6 DEF ArbiterStep
  <1>7. CASE UNCHANGED vars
    BY <1>7 DEF vars
  <1> QED
    BY <1>1, <1>2, <1>3, <1>4, <1>5, <1>6, <1>7 DEF Next

\* A scrape reads and the arbiter swaps files only while holding the lock, so
\* never both: an exception between acquire and release leaves the lock taken.
THEOREM MutualExclusion == Spec => []CriticalSections
  <1>1. Init => TypeInv /\ CriticalSections
    <2>1. Init => CriticalSections
      BY DEF Init, CriticalSections
    <2> QED
      BY <2>1, TypeInit
  <1> QED
    BY <1>1, TypeStep, LockStep, PTL DEF Spec

-----------------------------------------------------------------------------
(* The arbiter's queue of dead workers.                                    *)

\* DEAD_WORKERS, and the worker being cleaned up, are dead.
QueueInv ==
  /\ \A i \in DOMAIN deadWorkers : wstate[deadWorkers[i]] = "dead"
  /\ mPid \in Workers => wstate[mPid] = "dead"
  /\ NoLostWakeup

\* Every step keeps a wake-up queued while dead workers are, and those dead.
LEMMA QueueStep == TypeInv /\ QueueInv /\ [Next]_vars => QueueInv'
  <1> SUFFICES ASSUME TypeInv, QueueInv, [Next]_vars PROVE QueueInv'
    OBVIOUS
  <1> USE ConstantsAssumption
  <1> USE DEF TypeInv, TypeOK, PidOfCleanup, Cleaning, QueueInv, NoLostWakeup,
              fileVars, arbiterVars, scrapeVars
  <1>1. ASSUME NEW w \in Workers, WorkerStep(w) PROVE QueueInv'
    <2>1. CASE Spawn(w)
      <3>1. w \notin {deadWorkers[i] : i \in DOMAIN deadWorkers} /\ mPid # w
        BY <2>1 DEF Spawn, Pending
      <3> QED
        BY <2>1, <3>1 DEF Spawn
    <2>2. CASE ~Spawn(w)
      BY <1>1, <2>2 DEF WorkerStep, Inc, SetGauge, Exit, Kill, ForgetScrape
    <2> QED
      BY <2>1, <2>2
  <1>2. ASSUME NEW w \in Workers, ScrapeProgress(w) \/ ScrapeBegin(w) \/ ScrapeRaises(w)
        PROVE QueueInv'
    BY <1>2 DEF ScrapeProgress, ScrapeAcquire, ScrapeBlocked, ScrapeTimeout, ScrapeList,
                ScrapeRead, ScrapeMissingFile, ScrapeRelease, ScrapeRespond, ScrapeBegin,
                ScrapeRaises
  <1>3. ASSUME NEW w \in Workers, ChildExit(w) PROVE QueueInv'
    BY <1>3 DEF ChildExit
  <1>4. CASE ArbiterStep
    <2>1. CASE DequeueSignal
      BY <2>1 DEF DequeueSignal
    <2>2. CASE PopDeadWorker
      BY <2>2 DEF PopDeadWorker
    <2>3. CASE MarkProcessDead \/ FilterExists \/ Merge \/ CleanupAcquire \/ CleanupBlocked
      BY <2>3 DEF MarkProcessDead, FilterExists, Merge, CleanupAcquire, CleanupBlocked,
                  CleanupOver
    <2>4. CASE CleanupTimeout \/ CleanupRelease \/ CleanupRaises \/ QueueEmpty \/ HandlerReturns \/ Sleep \/ WorkersManaged
      BY <2>4 DEF CleanupTimeout, CleanupRelease, CleanupRaises, QueueEmpty, HandlerReturns, Sleep, WorkersManaged,
                  CleanupOver
    <2>5. CASE RenameHistogram \/ RenameCounter
      BY <2>5 DEF RenameHistogram, RenameCounter, RenameArchive
    <2>6. ASSUME NEW k \in Kinds, Unlink(k) PROVE QueueInv'
      BY <2>6 DEF Unlink
    <2> QED
      BY <1>4, <2>1, <2>2, <2>3, <2>4, <2>5, <2>6 DEF ArbiterStep
  <1>5. CASE UNCHANGED vars
    BY <1>5 DEF vars
  <1> QED
    BY <1>1, <1>2, <1>3, <1>4, <1>5 DEF Next

\* SIGCUSTOM is queued whenever DEAD_WORKERS holds a pid that the main loop is
\* not about to see.
THEOREM WakeupNotLost == Spec => []NoLostWakeup
  <1>1. Init => QueueInv
    BY ConstantsAssumption DEF Init, QueueInv, NoLostWakeup
  <1>2. QueueInv => NoLostWakeup
    BY DEF QueueInv
  <1> QED
    BY <1>1, <1>2, TypeInit, TypeStep, QueueStep, PTL DEF Spec

-----------------------------------------------------------------------------
(* Where the samples are.                                                  *)

\* A file that holds samples exists.
FilesPresent == \A k \in Kinds, o \in Owners : data[k][o] # {} => <<k, o>> \in present

\* The cleanup knows every file of its worker that holds samples.
PathsComplete ==
  mpc \in {"merge", "acquire", "blocked", "rename_histogram", "rename_counter", "unlink"} =>
    \A k \in Kinds : k \notin mPaths => data[k][mPid] = {}

\* What is to become the archive holds the archive and the worker's samples.
MergeComplete ==
  /\ mpc \in {"acquire", "blocked", "rename_histogram"} =>
       mTemp["histogram"] = data["histogram"][Archive] \cup data["histogram"][mPid]
  /\ mpc \in {"acquire", "blocked", "rename_histogram", "rename_counter"} =>
       mTemp["counter"] = data["counter"][Archive] \cup data["counter"][mPid]

\* A file is unlinked when its samples are in the archive.
ArchivedBeforeUnlink ==
  /\ mpc \in {"rename_counter", "unlink"} =>
       data["histogram"][mPid] \subseteq data["histogram"][Archive]
  /\ mpc = "unlink" => data["counter"][mPid] \subseteq data["counter"][Archive]

\* The archive and the file of the worker being cleaned up.
CleanedPair(o1, o2) == <<o1, o2>> \in {<<Archive, mPid>>, <<mPid, Archive>>}

\* Two files may share samples only while the arbiter has the lock, and until
\* a step of it raises these are the archive and the worker's file.
SharingAllowed(o1, o2) ==
  /\ lock = Master
  /\ mpc # "rename_histogram"
  /\ mpc \in {"rename_counter", "unlink"} => CleanedPair(o1, o2)

SharedSamples ==
  \A k \in Kinds, s \in Samples : \A o1, o2 \in Owners :
    o1 # o2 /\ s \in data[k][o1] /\ s \in data[k][o2] => SharingAllowed(o1, o2)

SampleInv ==
  FilesPresent /\ PathsComplete /\ MergeComplete /\ ArchivedBeforeUnlink /\ SharedSamples

Inv == TypeInv /\ CriticalSections /\ QueueInv /\ SampleInv

\* No sample is anywhere in the initial state.
LEMMA SampleInit == Init => SampleInv
  BY DEF Init, SampleInv, FilesPresent, PathsComplete, MergeComplete, ArchivedBeforeUnlink,
         SharedSamples

\* A live worker adds a new sample to its own file.
LEMMA IncStep ==
  ASSUME Inv, NEW w \in Workers, NEW k \in Kinds, NEW s \in Samples, Inc(w, k, s)
  PROVE  SampleInv'
  <1> USE ConstantsAssumption
  <1> USE DEF Inv, TypeInv, TypeOK, PidOfCleanup, Cleaning, Owners, Kinds
  <1>1. mPid # w /\ Archive # w
    BY DEF QueueInv, Inc
  <1>2. \A j \in Kinds, o \in Owners :
          data'[j][o] = IF j = k /\ o = w THEN data[k][w] \cup {s} ELSE data[j][o]
    BY DEF Inc
  <1>3. \A j \in Kinds : data'[j][Archive] = data[j][Archive]
                         /\ (mPid \in Workers => data'[j][mPid] = data[j][mPid])
    BY <1>1, <1>2
  <1>4. UNCHANGED <<lock, mpc, mPid, mPaths, mTemp>>
    BY DEF Inc, arbiterVars
  <1>5. \A o \in Owners : s \notin data[k][o]
    BY DEF Inc, Recorded
  <1>6. FilesPresent'
    BY <1>2 DEF Inc, SampleInv, FilesPresent
  <1>7. PathsComplete' /\ MergeComplete' /\ ArchivedBeforeUnlink'
    BY <1>3, <1>4 DEF SampleInv, PathsComplete, MergeComplete, ArchivedBeforeUnlink
  <1>8. SharedSamples'
    <2> SUFFICES ASSUME NEW j \in Kinds, NEW r \in Samples,
                        NEW o1 \in Owners, NEW o2 \in Owners, o1 # o2,
                        r \in data'[j][o1], r \in data'[j][o2]
                 PROVE  SharingAllowed(o1, o2)'
      BY DEF SharedSamples
    <2>1. r \in data[j][o1] /\ r \in data[j][o2]
      <3> HIDE DEF Inv, TypeInv, TypeOK, Owners, Kinds
      <3>1. CASE j = k /\ o1 = w
        BY <1>2, <1>5, <3>1
      <3>2. CASE j = k /\ o2 = w
        BY <1>2, <1>5, <3>2
      <3>3. CASE j # k \/ (o1 # w /\ o2 # w)
        BY <1>2, <3>3
      <3> QED
        BY <3>1, <3>2, <3>3
    <2>2. SharingAllowed(o1, o2)
      BY <2>1 DEF SampleInv, SharedSamples
    <2> QED
      BY <1>4, <2>2 DEF SharingAllowed, CleanedPair
  <1> QED
    BY <1>6, <1>7, <1>8 DEF SampleInv

\* Renaming a temporary file over the archive.
LEMMA RenameStep ==
  ASSUME Inv, RenameHistogram \/ RenameCounter
  PROVE  SampleInv'
  <1> USE ConstantsAssumption
  <1> USE DEF Inv, TypeInv, TypeOK, PidOfCleanup, Cleaning, Owners, Kinds
  <1>1. mPid \in Workers /\ mPid # Archive /\ lock = Master
    BY DEF RenameHistogram, RenameCounter, CriticalSections
  <1>2. UNCHANGED <<lock, mPid, mPaths, mTemp>>
    BY DEF RenameHistogram, RenameCounter, RenameArchive
  <1>3. CASE RenameHistogram
    <2>1. \A j \in Kinds, o \in Owners :
            data'[j][o] = IF j = "histogram" /\ o = Archive
                          THEN data["histogram"][Archive] \cup data["histogram"][mPid]
                          ELSE data[j][o]
      BY <1>3 DEF RenameHistogram, RenameArchive, SampleInv, MergeComplete
    <2>2. mpc = "rename_histogram" /\ mpc' = "rename_counter"
      BY <1>3 DEF RenameHistogram
    <2>3. FilesPresent'
      BY <1>3, <2>1 DEF RenameHistogram, RenameArchive, SampleInv, FilesPresent
    <2>4. PathsComplete' /\ MergeComplete' /\ ArchivedBeforeUnlink'
      BY <1>1, <1>2, <2>1, <2>2
      DEF SampleInv, PathsComplete, MergeComplete, ArchivedBeforeUnlink
    <2>5. \A j \in Kinds, r \in Samples : \A o1, o2 \in Owners :
            o1 # o2 => ~(r \in data[j][o1] /\ r \in data[j][o2])
      BY <2>2 DEF SampleInv, SharedSamples, SharingAllowed
    <2>6. SharedSamples'
      <3> SUFFICES ASSUME NEW j \in Kinds, NEW r \in Samples,
                          NEW o1 \in Owners, NEW o2 \in Owners, o1 # o2,
                          r \in data'[j][o1], r \in data'[j][o2],
                          ~CleanedPair(o1, o2)
                   PROVE  FALSE
        BY <1>1, <1>2, <2>2 DEF SharedSamples, SharingAllowed, CleanedPair
      <3> HIDE DEF Inv, TypeInv, TypeOK, Owners, Kinds
      <3>0. Archive \in Owners /\ mPid \in Owners
        BY <1>1 DEF Owners
      <3>1. CASE o1 = Archive
        <4>1. o2 # mPid
          BY <1>1, <3>1 DEF CleanedPair
        <4> QED
          BY <1>1, <2>1, <2>5, <3>0, <3>1, <4>1
      <3>2. CASE o2 = Archive
        <4>1. o1 # mPid
          BY <1>1, <3>2 DEF CleanedPair
        <4> QED
          BY <1>1, <2>1, <2>5, <3>0, <3>2, <4>1
      <3>3. CASE o1 # Archive /\ o2 # Archive
        BY <2>1, <2>5, <3>3
      <3> QED
        BY <3>1, <3>2, <3>3
    <2> QED
      BY <2>3, <2>4, <2>6 DEF SampleInv
  <1>4. CASE RenameCounter
    <2>1. \A j \in Kinds, o \in Owners :
            data'[j][o] = IF j = "counter" /\ o = Archive
                          THEN data["counter"][Archive] \cup data["counter"][mPid]
                          ELSE data[j][o]
      BY <1>4 DEF RenameCounter, RenameArchive, SampleInv, MergeComplete
    <2>2. mpc = "rename_counter" /\ mpc' = "unlink"
      BY <1>4 DEF RenameCounter
    <2>3. FilesPresent'
      BY <1>4, <2>1 DEF RenameCounter, RenameArchive, SampleInv, FilesPresent
    <2>4. PathsComplete' /\ MergeComplete' /\ ArchivedBeforeUnlink'
      BY <1>1, <1>2, <2>1, <2>2
      DEF SampleInv, PathsComplete, MergeComplete, ArchivedBeforeUnlink
    <2>5. \A j \in Kinds, r \in Samples : \A o1, o2 \in Owners :
            o1 # o2 /\ ~CleanedPair(o1, o2) => ~(r \in data[j][o1] /\ r \in data[j][o2])
      BY <2>2 DEF SampleInv, SharedSamples, SharingAllowed
    <2>6. SharedSamples'
      <3> SUFFICES ASSUME NEW j \in Kinds, NEW r \in Samples,
                          NEW o1 \in Owners, NEW o2 \in Owners, o1 # o2,
                          r \in data'[j][o1], r \in data'[j][o2],
                          ~CleanedPair(o1, o2)
                   PROVE  FALSE
        BY <1>1, <1>2, <2>2 DEF SharedSamples, SharingAllowed, CleanedPair
      <3> HIDE DEF Inv, TypeInv, TypeOK, Owners, Kinds
      <3>0. Archive \in Owners /\ mPid \in Owners
        BY <1>1 DEF Owners
      <3>1. CASE o1 = Archive
        <4>1. o2 # mPid /\ ~CleanedPair(mPid, o2)
          BY <1>1, <3>1 DEF CleanedPair
        <4> QED
          BY <1>1, <2>1, <2>5, <3>0, <3>1, <4>1
      <3>2. CASE o2 = Archive
        <4>1. o1 # mPid /\ ~CleanedPair(o1, mPid)
          BY <1>1, <3>2 DEF CleanedPair
        <4> QED
          BY <1>1, <2>1, <2>5, <3>0, <3>2, <4>1
      <3>3. CASE o1 # Archive /\ o2 # Archive
        BY <2>1, <2>5, <3>3
      <3> QED
        BY <3>1, <3>2, <3>3
    <2> QED
      BY <2>3, <2>4, <2>6 DEF SampleInv
  <1> QED
    BY <1>3, <1>4

\* Unlinking a file of the dead worker.
LEMMA UnlinkStep ==
  ASSUME Inv, NEW k \in Kinds, Unlink(k)
  PROVE  SampleInv'
  <1> USE ConstantsAssumption
  <1> USE DEF Inv, TypeInv, TypeOK, PidOfCleanup, Cleaning, Owners, Kinds
  <1>1. mPid \in Workers /\ mPid # Archive /\ lock = Master
    BY DEF Unlink, CriticalSections
  <1>2. \A j \in Kinds, o \in Owners :
          data'[j][o] = IF j = k /\ o = mPid THEN {} ELSE data[j][o]
    BY <1>1 DEF Unlink
  <1>3. mpc = "unlink" /\ UNCHANGED <<lock, mpc, mPid, mTemp>>
    BY DEF Unlink
  <1>4. FilesPresent'
    BY <1>1, <1>2 DEF Unlink, SampleInv, FilesPresent
  <1>5. PathsComplete'
    BY <1>1, <1>2 DEF Unlink, SampleInv, PathsComplete
  <1>6. MergeComplete' /\ ArchivedBeforeUnlink'
    BY <1>1, <1>2, <1>3 DEF SampleInv, MergeComplete, ArchivedBeforeUnlink
  <1>7. SharedSamples'
    <2> SUFFICES ASSUME NEW j \in Kinds, NEW r \in Samples,
                        NEW o1 \in Owners, NEW o2 \in Owners, o1 # o2,
                        r \in data'[j][o1], r \in data'[j][o2]
                 PROVE  SharingAllowed(o1, o2)'
      BY DEF SharedSamples
    <2>1. r \in data[j][o1] /\ r \in data[j][o2]
      BY <1>2
    <2>2. SharingAllowed(o1, o2)
      BY <2>1 DEF SampleInv, SharedSamples
    <2> QED
      BY <1>3, <2>2 DEF SharingAllowed, CleanedPair
  <1> QED
    BY <1>4, <1>5, <1>6, <1>7 DEF SampleInv

\* The steps that move no sample.
LEMMA SampleStep == Inv /\ [Next]_vars => SampleInv'
  <1> SUFFICES ASSUME Inv, [Next]_vars PROVE SampleInv'
    OBVIOUS
  <1> USE ConstantsAssumption
  <1> USE DEF SampleInv, FilesPresent, PathsComplete, MergeComplete, ArchivedBeforeUnlink,
              SharedSamples, SharingAllowed, CleanedPair, fileVars, arbiterVars, scrapeVars
  <1>1. ASSUME NEW w \in Workers, WorkerStep(w) PROVE SampleInv'
    <2>1. ASSUME NEW k \in Kinds, NEW s \in Samples, Inc(w, k, s) PROVE SampleInv'
      BY <2>1, IncStep
    <2>2. CASE Spawn(w) \/ SetGauge(w) \/ Exit(w) \/ Kill(w)
      BY <2>2 DEF Spawn, SetGauge, Exit, Kill, Inv
    <2> QED
      BY <1>1, <2>1, <2>2 DEF WorkerStep
  <1>2. ASSUME NEW w \in Workers, ScrapeProgress(w) PROVE SampleInv'
    <2> USE DEF Inv
    <2>1. CASE ScrapeAcquire(w)
      BY <2>1 DEF ScrapeAcquire, AcquireLock
    <2>2. CASE ScrapeRelease(w)
      BY <2>2 DEF ScrapeRelease, CriticalSections, TypeInv, TypeOK
    <2>3. CASE ScrapeBlocked(w) \/ ScrapeTimeout(w) \/ ScrapeList(w) \/ ScrapeRespond(w)
      BY <2>3 DEF ScrapeBlocked, ScrapeTimeout, LockTimeout, ScrapeList, ScrapeRespond
    <2>4. ASSUME NEW f \in Files, ScrapeRead(w, f) \/ ScrapeMissingFile(w, f)
          PROVE SampleInv'
      BY <2>4 DEF ScrapeRead, ScrapeMissingFile
    <2> QED
      BY <1>2, <2>1, <2>2, <2>3, <2>4 DEF ScrapeProgress
  <1>3. ASSUME NEW w \in Workers, ScrapeBegin(w) \/ ScrapeRaises(w) \/ ChildExit(w)
        PROVE SampleInv'
    BY <1>3 DEF ScrapeBegin, ScrapeRaises, ChildExit, Inv
  <1>4. CASE ArbiterStep
    <2> USE DEF Inv, TypeInv, TypeOK, PidOfCleanup, Cleaning
    <2>1. CASE DequeueSignal \/ PopDeadWorker \/ QueueEmpty \/ HandlerReturns \/ Sleep \/ WorkersManaged
      BY <2>1 DEF DequeueSignal, PopDeadWorker, QueueEmpty, HandlerReturns, Sleep, WorkersManaged
    <2>2. CASE MarkProcessDead
      BY <2>2 DEF MarkProcessDead, Kinds
    <2>3. CASE FilterExists
      <3>1. mPid \in Owners
        BY <2>3 DEF FilterExists, Owners
      <3> QED
        BY <2>3, <3>1 DEF FilterExists, CleanupOver
    <2>4. CASE Merge
      <3>1. mTemp' = [k \in Kinds |-> data[k][Archive] \cup data[k][mPid]]
        BY <2>4 DEF Merge
      <3> QED
        BY <2>4, <3>1 DEF Merge, Kinds
    <2>5. CASE CleanupAcquire
      BY <2>5 DEF CleanupAcquire, AcquireLock
    <2>6. CASE CleanupBlocked \/ CleanupTimeout \/ CleanupRaises
      BY <2>6 DEF CleanupBlocked, CleanupTimeout, LockTimeout, CleanupRaises, CleanupOver
    <2>7. CASE RenameHistogram \/ RenameCounter
      BY <2>7, RenameStep
    <2>8. ASSUME NEW k \in Kinds, Unlink(k) PROVE SampleInv'
      BY <2>8, UnlinkStep
    <2>9. CASE CleanupRelease
      <3>1. \A k \in Kinds : data[k][mPid] = {}
        BY <2>9 DEF CleanupRelease
      <3>2. \A k \in Kinds, s \in Samples : \A o1, o2 \in Owners :
              o1 # o2 => ~(s \in data[k][o1] /\ s \in data[k][o2])
        <4> SUFFICES ASSUME NEW k \in Kinds, NEW s \in Samples,
                            NEW o1 \in Owners, NEW o2 \in Owners, o1 # o2,
                            s \in data[k][o1], s \in data[k][o2]
                     PROVE  FALSE
          OBVIOUS
        <4>1. CleanedPair(o1, o2)
          BY <2>9 DEF CleanupRelease
        <4> QED
          BY <3>1, <4>1 DEF CleanedPair
      <3> QED
        BY <2>9, <3>2 DEF CleanupRelease, CleanupOver
    <2> QED
      BY <1>4, <2>1, <2>2, <2>3, <2>4, <2>5, <2>6, <2>7, <2>8, <2>9 DEF ArbiterStep
  <1>5. CASE UNCHANGED vars
    BY <1>5 DEF vars, Inv
  <1> QED
    BY <1>1, <1>2, <1>3, <1>4, <1>5 DEF Next

\* The inductive invariant holds at every moment.
LEMMA Invariance == Spec => []Inv
  <1>1. Init => Inv
    <2>1. Init => CriticalSections
      BY DEF Init, CriticalSections
    <2>2. Init => QueueInv
      BY ConstantsAssumption DEF Init, QueueInv, NoLostWakeup
    <2> QED
      BY <2>1, <2>2, TypeInit, SampleInit DEF Inv
  <1>2. Inv /\ [Next]_vars => Inv'
    BY TypeStep, LockStep, QueueStep, SampleStep DEF Inv
  <1> QED
    BY <1>1, <1>2, PTL DEF Spec

\* Unless the arbiter holds the lock no sample is in two files: a scrape, which
\* holds it, cannot count one twice, even after a cleanup that raised half way.
THEOREM SamplesCountedOnce == Spec => []NoSampleTwice
  <1>1. Inv => NoSampleTwice
    BY DEF Inv, TypeInv, TypeOK, SampleInv, SharedSamples, SharingAllowed, NoSampleTwice
  <1> QED
    BY <1>1, Invariance, PTL

\* No step takes a sample out of the files of either kind.
LEMMA RecordedGrows ==
  ASSUME Inv, [Next]_vars, NEW k \in Kinds
  PROVE  Recorded(k) \subseteq Recorded(k)'
  <1> USE ConstantsAssumption
  <1> USE DEF Inv, TypeInv, TypeOK, PidOfCleanup, Cleaning, Owners, Kinds
  <1>1. CASE UNCHANGED data
    BY <1>1 DEF Recorded
  <1>2. ASSUME NEW w \in Workers, NEW j \in Kinds, NEW s \in Samples, Inc(w, j, s)
        PROVE  Recorded(k) \subseteq Recorded(k)'
    <2>1. \A o \in Owners : data[k][o] \subseteq data'[k][o]
      BY <1>2 DEF Inc
    <2> QED
      BY <2>1 DEF Recorded
  <1>3. CASE RenameHistogram \/ RenameCounter
    <2>1. \A o \in Owners : data[k][o] \subseteq data'[k][o]
      BY <1>3 DEF RenameHistogram, RenameCounter, RenameArchive, SampleInv, MergeComplete
    <2> QED
      BY <2>1 DEF Recorded
  <1>4. ASSUME NEW j \in Kinds, Unlink(j) PROVE Recorded(k) \subseteq Recorded(k)'
    <2>1. mPid \in Workers /\ mPid # Archive
      BY <1>4 DEF Unlink
    <2>2. \A o \in Owners : data[k][o] \subseteq data'[k][o] \cup data'[k][Archive]
      BY <1>4, <2>1 DEF Unlink, SampleInv, ArchivedBeforeUnlink
    <2>3. ASSUME NEW s, s \in Recorded(k) PROVE s \in Recorded(k)'
      <3>1. PICK o \in Owners : s \in data[k][o]
        BY <2>3 DEF Recorded
      <3>2. s \in data'[k][o] \/ s \in data'[k][Archive]
        BY <2>2, <3>1
      <3> QED
        BY <3>2 DEF Recorded
    <2> QED
      BY <2>3
  <1> QED
    <2> USE DEF fileVars, arbiterVars, scrapeVars
    <2>1. ASSUME NEW w \in Workers, WorkerStep(w) PROVE Recorded(k) \subseteq Recorded(k)'
      BY <1>1, <1>2, <2>1 DEF WorkerStep, Spawn, SetGauge, Exit, Kill
    <2>2. ASSUME NEW w \in Workers,
                 ScrapeProgress(w) \/ ScrapeBegin(w) \/ ScrapeRaises(w) \/ ChildExit(w)
          PROVE  UNCHANGED data
      BY <2>2 DEF ScrapeProgress, ScrapeAcquire, ScrapeBlocked, ScrapeTimeout, ScrapeList,
                  ScrapeRead, ScrapeMissingFile, ScrapeRelease, ScrapeRespond, ScrapeBegin,
                  ScrapeRaises, ChildExit
    <2>3. CASE ArbiterStep
      <3>1. CASE \/ DequeueSignal \/ PopDeadWorker \/ MarkProcessDead \/ FilterExists
                 \/ Merge \/ CleanupAcquire \/ CleanupBlocked \/ CleanupTimeout
                 \/ CleanupRelease \/ CleanupRaises \/ QueueEmpty \/ HandlerReturns \/ Sleep \/ WorkersManaged
        BY <1>1, <3>1 DEF DequeueSignal, PopDeadWorker, MarkProcessDead, FilterExists, Merge,
              CleanupAcquire, CleanupBlocked, CleanupTimeout, CleanupRelease, CleanupRaises,
              QueueEmpty, HandlerReturns, Sleep, WorkersManaged
      <3> QED
        BY <1>3, <1>4, <2>3, <3>1 DEF ArbiterStep
    <2>4. CASE UNCHANGED vars
      BY <1>1, <2>4 DEF vars
    <2> QED
      BY <1>1, <2>1, <2>2, <2>3, <2>4 DEF Next

\* Merging, renaming, unlinking, failing and dying lose no sample.
THEOREM NoSampleLost == Spec => SamplesNeverLost
  <1>1. Inv /\ [Next]_vars => [\A k \in Kinds : Recorded(k) \subseteq Recorded(k)']_vars
    BY RecordedGrows
  <1> QED
    BY <1>1, Invariance, PTL DEF Spec, SamplesNeverLost
-----------------------------------------------------------------------------
(* What a scrape has read.                                                 *)

\* Sample s is in a file that w's scrape still has to read.
InTodo(w, k, s) == \E o \in Owners : <<k, o>> \in todo[w] /\ s \in data[k][o]

\* For each sample: read once and in no file still to be read, or, if it was
\* there from the beginning, in one of them.
ScrapeOf(w, k, s) ==
  /\ spc[w] # "idle" /\ s \in since[w][k] => s \in Recorded(k)
  /\ spc[w] \notin {"read", "answered"} => got[w][k][s] = 0
  /\ spc[w] \in {"read", "answered"} =>
       /\ got[w][k][s] \in {0, 1}
       /\ got[w][k][s] = 1 => s \in Recorded(k)
  /\ spc[w] = "read" =>
       /\ got[w][k][s] = 1 => ~InTodo(w, k, s)
       /\ got[w][k][s] = 0 /\ s \in since[w][k] => InTodo(w, k, s)
  /\ spc[w] = "answered" /\ s \in since[w][k] => got[w][k][s] = 1

ScrapeInv == \A w \in Workers, k \in Kinds, s \in Samples : ScrapeOf(w, k, s)

\* The steps of other processes: they leave w's scrape alone and touch no file
\* while it reads, except to add a sample that is new.
LEMMA OtherStep ==
  ASSUME Inv, NEW w \in Workers, NEW k \in Kinds, NEW s \in Samples, ScrapeOf(w, k, s),
         Recorded(k) \subseteq Recorded(k)',
         UNCHANGED <<spc[w], todo[w], got[w], since[w]>>,
         spc[w] = "read" /\ s \in Recorded(k) => UNCHANGED InTodo(w, k, s)
  PROVE  ScrapeOf(w, k, s)'
  BY DEF ScrapeOf

\* Reading one more file.
LEMMA ReadStep ==
  ASSUME Inv, NEW w \in Workers, NEW k \in Kinds, NEW s \in Samples, ScrapeOf(w, k, s),
         NEW f \in Files, ScrapeRead(w, f)
  PROVE  ScrapeOf(w, k, s)'
  <1> USE DEF Inv, TypeInv, TypeOK
  <1>1. spc[w] = "read" /\ lock = w /\ f \in todo[w]
    BY DEF ScrapeRead, CriticalSections
  <1>2. UNCHANGED <<data, since, spc>> /\ Recorded(k)' = Recorded(k)
    BY DEF ScrapeRead, fileVars, Recorded
  <1>3. \A g \in Files : g \in todo'[w] <=> g \in todo[w] /\ g # f
    BY DEF ScrapeRead
  <1>4. ASSUME NEW o \in Owners, f = <<k, o>>, s \in data[k][o]
        PROVE  ScrapeOf(w, k, s)'
    <2>1. InTodo(w, k, s) /\ got[w][k][s] = 0 /\ s \in Recorded(k)
      BY <1>1, <1>4 DEF ScrapeOf, InTodo, Recorded
    <2>2. f \notin GaugeFiles /\ f[1] = k /\ f[2] = o
      BY <1>4 DEF GaugeFiles, Kinds
    <2>3. got'[w][k][s] = 1
      BY <1>4, <2>1, <2>2 DEF ScrapeRead
    <2>4. ~InTodo(w, k, s)'
      <3> SUFFICES ASSUME NEW p \in Owners, <<k, p>> \in todo'[w], s \in data'[k][p]
                   PROVE  FALSE
        BY DEF InTodo
      <3>1. <<k, p>> \in Files
        BY DEF Files, SampleFiles
      <3>2. p # o /\ s \in data[k][p]
        BY <1>2, <1>3, <1>4, <3>1
      <3>3. lock = Master
        BY <1>4, <3>2 DEF SampleInv, SharedSamples, SharingAllowed
      <3> QED
        BY <1>1, <3>3, ConstantsAssumption
    <2> QED
      BY <1>1, <1>2, <2>1, <2>3, <2>4 DEF ScrapeOf
  <1>5. ASSUME \A o \in Owners : f = <<k, o>> => s \notin data[k][o]
        PROVE  ScrapeOf(w, k, s)'
    <2>1. got'[w][k][s] = got[w][k][s]
      <3>1. CASE f \in GaugeFiles
        BY <3>1 DEF ScrapeRead
      <3>2. CASE f \in SampleFiles
        <4>1. PICK j \in Kinds, o \in Owners : f = <<j, o>>
          BY <3>2 DEF SampleFiles
        <4>2. f \notin GaugeFiles
          BY <4>1 DEF GaugeFiles, Kinds
        <4>3. j = k => s \notin data[j][o]
          BY <1>5, <4>1
        <4> QED
          BY <4>1, <4>2, <4>3 DEF ScrapeRead
      <3> QED
        BY <3>1, <3>2 DEF Files
    <2>2. InTodo(w, k, s)' = InTodo(w, k, s)
      <3>1. \A o \in Owners : <<k, o>> \in Files
        BY DEF Files, SampleFiles
      <3>2. \A o \in Owners :
              <<k, o>> \in todo'[w] /\ s \in data'[k][o] <=> <<k, o>> \in todo[w] /\ s \in data[k][o]
        BY <1>2, <1>3, <1>5, <3>1
      <3> QED
        BY <3>2 DEF InTodo
    <2> QED
      BY <1>1, <1>2, <2>1, <2>2 DEF ScrapeOf
  <1> QED
    BY <1>4, <1>5

\* The other steps of a scrape itself.
LEMMA OwnStep ==
  ASSUME Inv, NEW w \in Workers, NEW k \in Kinds, NEW s \in Samples, ScrapeOf(w, k, s),
         \/ ScrapeBegin(w) \/ ScrapeAcquire(w) \/ ScrapeBlocked(w)
         \/ ScrapeList(w) \/ ScrapeRelease(w)
  PROVE  ScrapeOf(w, k, s)'
  <1> USE DEF Inv, TypeInv, TypeOK
  <1>1. UNCHANGED data /\ Recorded(k)' = Recorded(k)
    BY DEF ScrapeBegin, ScrapeAcquire, ScrapeBlocked, ScrapeList, ScrapeRelease, fileVars,
           Recorded
  <1>2. CASE ScrapeBegin(w)
    BY <1>1, <1>2 DEF ScrapeBegin, ScrapeOf, AllRecorded
  <1>3. CASE ScrapeAcquire(w) \/ ScrapeBlocked(w)
    BY <1>1, <1>3 DEF ScrapeAcquire, ScrapeBlocked, ScrapeOf
  <1>4. CASE ScrapeList(w)
    <2>1. s \in since[w][k] => InTodo(w, k, s)'
      <3> SUFFICES ASSUME s \in since[w][k] PROVE InTodo(w, k, s)'
        OBVIOUS
      <3>1. PICK o \in Owners : s \in data[k][o]
        BY <1>4 DEF ScrapeList, ScrapeOf, Recorded
      <3>2. <<k, o>> \in present
        BY <3>1 DEF SampleInv, FilesPresent
      <3> QED
        BY <1>1, <1>4, <3>1, <3>2 DEF ScrapeList, InTodo
    <2> QED
      BY <1>1, <1>4, <2>1 DEF ScrapeList, ScrapeOf
  <1>5. CASE ScrapeRelease(w)
    BY <1>1, <1>5 DEF ScrapeRelease, ScrapeOf, InTodo
  <1> QED
    BY <1>2, <1>3, <1>4, <1>5

\* A scrape that is over has read nothing.
LEMMA ForgetStep ==
  ASSUME Inv, NEW w \in Workers, NEW k \in Kinds, NEW s \in Samples, ForgetScrape(w)
  PROVE  ScrapeOf(w, k, s)'
  BY DEF Inv, TypeInv, TypeOK, ForgetScrape, NothingRead, ScrapeOf
\* Every step keeps what a scrape in progress has read and is yet to read.
LEMMA ScrapeStep == Inv /\ ScrapeInv /\ [Next]_vars => ScrapeInv'
  <1> SUFFICES ASSUME Inv, ScrapeInv, [Next]_vars,
                      NEW w \in Workers, NEW k \in Kinds, NEW s \in Samples
               PROVE  ScrapeOf(w, k, s)'
    BY DEF ScrapeInv
  <1>1. ScrapeOf(w, k, s) /\ Recorded(k) \subseteq Recorded(k)'
    BY RecordedGrows DEF ScrapeInv
  <1>2. ASSUME UNCHANGED <<spc[w], todo[w], got[w], since[w]>>, UNCHANGED data
        PROVE  ScrapeOf(w, k, s)'
    BY <1>1, <1>2, OtherStep DEF InTodo
  <1>3. ASSUME ForgetScrape(w) PROVE ScrapeOf(w, k, s)'
    BY <1>3, ForgetStep
  <1> USE DEF fileVars, arbiterVars, scrapeVars
  <1>4. ASSUME NEW v \in Workers, v # w, ForgetScrape(v)
        PROVE  UNCHANGED <<spc[w], todo[w], got[w], since[w]>>
    BY <1>4 DEF ForgetScrape, Inv, TypeInv, TypeOK
  <1>5. ASSUME NEW v \in Workers, WorkerStep(v) PROVE ScrapeOf(w, k, s)'
    <2>1. ASSUME NEW j \in Kinds, NEW r \in Samples, Inc(v, j, r) PROVE ScrapeOf(w, k, s)'
      <3>1. s \in Recorded(k) => UNCHANGED InTodo(w, k, s)
        <4> SUFFICES ASSUME s \in Recorded(k) PROVE UNCHANGED InTodo(w, k, s)
          OBVIOUS
        <4>1. j # k \/ r # s
          BY <2>1 DEF Inc
        <4>2. \A o \in Owners : s \in data'[k][o] <=> s \in data[k][o]
          BY <2>1, <4>1 DEF Inc, Inv, TypeInv, TypeOK
        <4>3. todo'[w] = todo[w]
          BY <2>1 DEF Inc
        <4> QED
          BY <4>2, <4>3 DEF InTodo
      <3> QED
        BY <1>1, <2>1, <3>1, OtherStep DEF Inc
    <2>2. CASE Spawn(v) \/ SetGauge(v) \/ Exit(v)
      BY <1>2, <2>2 DEF Spawn, SetGauge, Exit
    <2>3. CASE Kill(v)
      BY <1>2, <1>3, <1>4, <2>3 DEF Kill
    <2> QED
      BY <1>5, <2>1, <2>2, <2>3 DEF WorkerStep
  <1>6. ASSUME NEW v \in Workers, ScrapeBegin(v) \/ ScrapeProgress(v) \/ ScrapeRaises(v)
        PROVE  ScrapeOf(w, k, s)'
    <2>1. CASE \/ ScrapeTimeout(v) \/ ScrapeRespond(v) \/ ScrapeRaises(v)
               \/ \E f \in Files : ScrapeMissingFile(v, f)
      BY <1>2, <1>3, <1>4, <2>1
      DEF ScrapeTimeout, ScrapeRespond, ScrapeRaises, ScrapeMissingFile
    <2>2. CASE \/ ScrapeBegin(v) \/ ScrapeAcquire(v) \/ ScrapeBlocked(v)
               \/ ScrapeList(v) \/ ScrapeRelease(v)
      <3>1. CASE v = w
        BY <1>1, <2>2, <3>1, OwnStep
      <3>2. CASE v # w
        <4>1. UNCHANGED <<spc[w], todo[w], got[w], since[w]>> /\ UNCHANGED data
          BY <2>2, <3>2 DEF ScrapeBegin, ScrapeAcquire, ScrapeBlocked, ScrapeList,
             ScrapeRelease, Inv, TypeInv, TypeOK
        <4> QED
          BY <1>2, <4>1
      <3> QED
        BY <3>1, <3>2
    <2>3. ASSUME NEW f \in Files, ScrapeRead(v, f) PROVE ScrapeOf(w, k, s)'
      <3>1. CASE v = w
        BY <1>1, <2>3, <3>1, ReadStep
      <3>2. CASE v # w
        <4>1. UNCHANGED <<spc[w], todo[w], got[w], since[w]>> /\ UNCHANGED data
          BY <2>3, <3>2 DEF ScrapeRead, Inv, TypeInv, TypeOK
        <4> QED
          BY <1>2, <4>1
      <3> QED
        BY <3>1, <3>2
    <2> QED
      BY <1>6, <2>1, <2>2, <2>3 DEF ScrapeProgress
  <1>7. ASSUME NEW v \in Workers, ChildExit(v) PROVE ScrapeOf(w, k, s)'
    BY <1>2, <1>7 DEF ChildExit
  <1>8. CASE ArbiterStep
    <2>1. UNCHANGED <<spc[w], todo[w], got[w], since[w]>>
      BY <1>8 DEF ArbiterStep, DequeueSignal, PopDeadWorker, MarkProcessDead, FilterExists,
         Merge, CleanupAcquire, CleanupBlocked, CleanupTimeout, RenameHistogram, RenameCounter,
         RenameArchive, Unlink, CleanupRelease, CleanupRaises, QueueEmpty, HandlerReturns, Sleep, WorkersManaged
    <2>2. CASE \/ DequeueSignal \/ PopDeadWorker \/ MarkProcessDead \/ FilterExists
               \/ Merge \/ CleanupAcquire \/ CleanupBlocked \/ CleanupTimeout
               \/ CleanupRelease \/ CleanupRaises \/ QueueEmpty \/ HandlerReturns \/ Sleep \/ WorkersManaged
      BY <1>2, <2>1, <2>2 DEF DequeueSignal, PopDeadWorker, MarkProcessDead, FilterExists,
         Merge, CleanupAcquire, CleanupBlocked, CleanupTimeout, CleanupRelease, CleanupRaises,
         QueueEmpty, HandlerReturns, Sleep, WorkersManaged
    <2>3. CASE RenameHistogram \/ RenameCounter \/ \E j \in Kinds : Unlink(j)
      <3>1. spc[w] # "read"
        BY <2>3, ConstantsAssumption DEF RenameHistogram, RenameCounter, Unlink, Inv,
           CriticalSections
      <3> QED
        BY <1>1, <2>1, <3>1, OtherStep
    <2> QED
      BY <1>8, <2>2, <2>3 DEF ArbiterStep
  <1>9. CASE UNCHANGED vars
    BY <1>2, <1>9 DEF vars
  <1> QED
    BY <1>5, <1>6, <1>7, <1>8, <1>9 DEF Next

\* The invariant of the scrapes holds at every moment, with the other one.
LEMMA ScrapeInvariance == Spec => [](Inv /\ ScrapeInv)
  <1>1. Init => ScrapeInv
    BY DEF Init, ScrapeInv, ScrapeOf, NothingRead
  <1>2. ScrapeInv /\ Inv /\ [Next]_vars => ScrapeInv'
    BY ScrapeStep
  <1> QED
    BY <1>1, <1>2, Invariance, PTL DEF Spec

\* The answer of a scrape counts every sample recorded before it began exactly
\* once and no sample twice, with any number of workers writing, dying and
\* being merged meanwhile, and whatever step raises.
THEOREM ScrapesAreExact == Spec => []ScrapeExact
  <1>1. Inv /\ ScrapeInv => ScrapeExact
    BY DEF Inv, TypeInv, TypeOK, ScrapeInv, ScrapeOf, ScrapeExact
  <1> QED
    BY <1>1, ScrapeInvariance, PTL
-----------------------------------------------------------------------------
(* Refinement of MetricStore.                                              *)

\* A step that changes neither samples nor scrapes is no step of the store.
LEMMA StoreStutter ==
  ASSUME UNCHANGED data, UNCHANGED <<spc, got, since>>
  PROVE  UNCHANGED Store!vars
  BY DEF Store!vars, AllRecorded, Recorded, Asking, Answers

\* A step that leaves the samples and the scrapes alone stutters in the store.
LEMMA StoreUnchanged ==
  ASSUME UNCHANGED data
  PROVE  UNCHANGED AllRecorded
  BY DEF AllRecorded, Recorded

\* Renaming and unlinking move samples between files, nothing more.
LEMMA ArchiveStutter ==
  ASSUME Inv, RenameHistogram \/ RenameCounter \/ \E k \in Kinds : Unlink(k)
  PROVE  UNCHANGED Store!vars
  <1>1. [Next]_vars
    BY DEF Next, ArbiterStep
  <1>2. ASSUME NEW k \in Kinds PROVE Recorded(k)' = Recorded(k)
    <2>1. Recorded(k) \subseteq Recorded(k)'
      BY <1>1, <1>2, RecordedGrows
    <2> USE DEF Inv, TypeInv, TypeOK, PidOfCleanup, Cleaning, Owners, Kinds
    <2>2. mPid \in Workers /\ Archive \in Owners /\ mPid \in Owners
      BY DEF RenameHistogram, RenameCounter, Unlink
    <2>3. \A o \in Owners :
            data'[k][o] \subseteq data[k][o] \cup data[k][Archive] \cup data[k][mPid]
      <3>1. CASE RenameHistogram \/ RenameCounter
        BY <2>2, <3>1 DEF RenameHistogram, RenameCounter, RenameArchive, SampleInv, MergeComplete
      <3>2. CASE \E j \in Kinds : Unlink(j)
        BY <2>2, <3>2 DEF Unlink
      <3> QED
        BY <3>1, <3>2
    <2>4. ASSUME NEW s, s \in Recorded(k)' PROVE s \in Recorded(k)
      <3>1. PICK o \in Owners : s \in data'[k][o]
        BY <2>4 DEF Recorded
      <3>2. s \in data[k][o] \/ s \in data[k][Archive] \/ s \in data[k][mPid]
        BY <2>3, <3>1
      <3> QED
        BY <2>2, <3>2 DEF Recorded
    <2> QED
      BY <2>1, <2>4
  <1>3. UNCHANGED <<spc, got, since>>
    BY DEF RenameHistogram, RenameCounter, RenameArchive, Unlink, scrapeVars
  <1> QED
    BY <1>2, <1>3 DEF Store!vars, AllRecorded, Asking, Answers

\* A sample that is recorded is recorded in the store.
LEMMA StoreRecord ==
  ASSUME Inv, NEW w \in Workers, NEW k \in Kinds, NEW s \in Samples, Inc(w, k, s)
  PROVE  Store!Record(k, s)
  <1> USE DEF Inv, TypeInv, TypeOK
  <1>1. \A j \in Kinds, o \in Owners :
          data'[j][o] = IF j = k /\ o = w THEN data[k][w] \cup {s} ELSE data[j][o]
    BY DEF Inc, Owners
  <1>2. ASSUME NEW j \in Kinds, j # k PROVE Recorded(j)' = Recorded(j)
    <2>1. \A r : r \in Recorded(j)' <=> \E o \in Owners : r \in data'[j][o]
      BY DEF Recorded
    <2>2. \A r : r \in Recorded(j) <=> \E o \in Owners : r \in data[j][o]
      BY DEF Recorded
    <2> QED
      BY <1>1, <1>2, <2>1, <2>2
  <1>3. Recorded(k)' = Recorded(k) \cup {s}
    <2>1. w \in Owners
      BY DEF Owners
    <2>2. \A r : r \in Recorded(k)' <=> \E o \in Owners : r \in data'[k][o]
      BY DEF Recorded
    <2>3. \A r : r \in Recorded(k) <=> \E o \in Owners : r \in data[k][o]
      BY DEF Recorded
    <2> QED
      BY <1>1, <2>1, <2>2, <2>3
  <1>4. AllRecorded' = [AllRecorded EXCEPT ![k] = @ \cup {s}]
    BY <1>2, <1>3 DEF AllRecorded
  <1>5. s \notin AllRecorded[k]
    BY DEF Inc, AllRecorded
  <1> QED
    BY <1>4, <1>5 DEF Store!Record, Inc, scrapeVars, Asking, Answers

\* A scrape that is over, or whose worker is, finishes in the store.
LEMMA StoreFinish ==
  ASSUME Inv, NEW w \in Workers, spc[w] # "idle", ForgetScrape(w), UNCHANGED data
  PROVE  Store!Finish(w)
  <1> USE DEF Inv, TypeInv, TypeOK, ForgetScrape
  <1>1. w \in Asking /\ Asking' = Asking \ {w}
    BY DEF Asking
  <1>2. Answers' = [Answers EXCEPT ![w] = NothingRead]
    BY DEF Answers
  <1>3. since' = [since EXCEPT ![w] = NoSamples]
    OBVIOUS
  <1> QED
    BY <1>1, <1>2, <1>3, StoreUnchanged
    DEF Store!Finish, Store!NoAnswer, Store!NoSamples, NothingRead, NoSamples

\* The lock released, the scrape has the answer the store allows.
LEMMA StoreAnswer ==
  ASSUME Inv, ScrapeInv, NEW w \in Workers, ScrapeRelease(w)
  PROVE  Store!Answer(w)
  <1> DEFINE body == [k \in Kinds |-> {s \in Samples : got[w][k][s] = 1}]
  <1> USE DEF Inv, TypeInv, TypeOK
  <1>1. w \in Asking /\ Answers[w] = NothingRead
    BY DEF ScrapeRelease, Asking, Answers
  <1>2. ASSUME NEW k \in Kinds
        PROVE  since[w][k] \subseteq body[k] /\ body[k] \subseteq AllRecorded[k]
    <2>1. ASSUME NEW s \in Samples, s \in since[w][k] PROVE got[w][k][s] = 1
      <3>1. spc[w] = "read" /\ ~InTodo(w, k, s)
        BY DEF ScrapeRelease, InTodo
      <3> QED
        BY <2>1, <3>1 DEF ScrapeInv, ScrapeOf
    <2>2. ASSUME NEW s \in Samples, got[w][k][s] = 1 PROVE s \in Recorded(k)
      BY <2>2 DEF ScrapeInv, ScrapeOf, ScrapeRelease
    <2> QED
      BY <2>1, <2>2 DEF AllRecorded
  <1>3. got[w] = Store!CountOnce(body)
    BY DEF ScrapeInv, ScrapeOf, ScrapeRelease, Store!CountOnce
  <1>4. Answers' = [Answers EXCEPT ![w] = Store!CountOnce(body)]
    BY <1>3 DEF ScrapeRelease, Answers
  <1>5. body \in [Kinds -> SUBSET Samples]
    OBVIOUS
  <1>6. UNCHANGED <<AllRecorded, Asking, since>>
    BY StoreUnchanged DEF ScrapeRelease, fileVars, Asking
  <1> HIDE DEF body
  <1> QED
    BY <1>1, <1>2, <1>4, <1>5, <1>6 DEF Store!Answer, Store!NoAnswer, NothingRead

\* Every step is a step of the store or stutters there.
LEMMA StoreStep ==
  ASSUME Inv, ScrapeInv, [Next]_vars
  PROVE  [Store!Next]_Store!vars
  <1> USE DEF fileVars, arbiterVars, scrapeVars
  <1>1. ASSUME NEW w \in Workers, WorkerStep(w) PROVE [Store!Next]_Store!vars
    <2>1. ASSUME NEW k \in Kinds, NEW s \in Samples, Inc(w, k, s) PROVE Store!Next
      BY <2>1, StoreRecord DEF Store!Next
    <2>2. CASE Spawn(w) \/ SetGauge(w) \/ Exit(w)
      BY <2>2, StoreStutter DEF Spawn, SetGauge, Exit
    <2>3. CASE Kill(w)
      BY <2>3, StoreFinish DEF Kill, Store!Next
    <2> QED
      BY <1>1, <2>1, <2>2, <2>3 DEF WorkerStep
  <1>2. ASSUME NEW w \in Workers, ScrapeBegin(w) PROVE Store!Ask(w)
    <2>1. w \notin Asking /\ Asking' = Asking \cup {w}
      BY <1>2 DEF ScrapeBegin, Asking, Inv, TypeInv, TypeOK
    <2>2. Answers' = Answers
      BY <1>2 DEF ScrapeBegin, Answers, Inv, TypeInv, TypeOK
    <2> QED
      BY <1>2, <2>1, <2>2, StoreUnchanged DEF ScrapeBegin, Store!Ask
  <1>3. ASSUME NEW w \in Workers, ScrapeProgress(w) \/ ScrapeRaises(w)
        PROVE  [Store!Next]_Store!vars
    <2>1. CASE ScrapeRelease(w)
      BY <2>1, StoreAnswer DEF Store!Next
    <2>2. CASE \/ ScrapeTimeout(w) \/ ScrapeRespond(w) \/ ScrapeRaises(w)
               \/ \E f \in Files : ScrapeMissingFile(w, f)
      BY <2>2, StoreFinish
      DEF ScrapeTimeout, ScrapeRespond, ScrapeRaises, ScrapeMissingFile, Store!Next
    <2>3. CASE \/ ScrapeAcquire(w) \/ ScrapeBlocked(w) \/ ScrapeList(w)
               \/ \E f \in Files : ScrapeRead(w, f)
      <3>1. Asking' = Asking /\ Answers' = Answers /\ UNCHANGED <<data, since>>
        <4>1. \A v \in Workers : /\ (spc'[v] = "idle") <=> (spc[v] = "idle")
                                 /\ (spc'[v] = "answered") <=> (spc[v] = "answered")
                                 /\ spc[v] = "answered" => got'[v] = got[v]
          BY <2>3 DEF ScrapeAcquire, ScrapeBlocked, ScrapeList, ScrapeRead, Inv, TypeInv, TypeOK
        <4> QED
          BY <2>3, <4>1 DEF ScrapeAcquire, ScrapeBlocked, ScrapeList, ScrapeRead, Asking, Answers
      <3> QED
        BY <3>1, StoreUnchanged DEF Store!vars
    <2> QED
      BY <1>3, <2>1, <2>2, <2>3 DEF ScrapeProgress
  <1>4. ASSUME NEW w \in Workers, ChildExit(w) PROVE UNCHANGED Store!vars
    BY <1>4, StoreStutter DEF ChildExit
  <1>5. CASE ArbiterStep
    <2>1. CASE \/ DequeueSignal \/ PopDeadWorker \/ MarkProcessDead \/ FilterExists
               \/ Merge \/ CleanupAcquire \/ CleanupBlocked \/ CleanupTimeout
               \/ CleanupRelease \/ CleanupRaises \/ QueueEmpty \/ HandlerReturns \/ Sleep \/ WorkersManaged
      BY <2>1, StoreStutter DEF DequeueSignal, PopDeadWorker, MarkProcessDead, FilterExists,
         Merge, CleanupAcquire, CleanupBlocked, CleanupTimeout, CleanupRelease, CleanupRaises,
         QueueEmpty, HandlerReturns, Sleep, WorkersManaged
    <2>2. CASE RenameHistogram \/ RenameCounter \/ \E k \in Kinds : Unlink(k)
      BY <2>2, ArchiveStutter
    <2> QED
      BY <1>5, <2>1, <2>2 DEF ArbiterStep
  <1>6. CASE UNCHANGED vars
    BY <1>6, StoreStutter DEF vars
  <1> QED
    BY <1>1, <1>2, <1>3, <1>4, <1>5, <1>6 DEF Next, Store!Next

\* The multi-process metrics implement the store: the answer to a scrape counts
\* every sample recorded before it once, and later ones at most once.
THEOREM Refinement == Spec => ImplementsStore
  <1>1. Init => Store!Init
    BY DEF Init, Store!Init, Store!NoSamples, Store!NoAnswer, AllRecorded, Recorded, Asking,
           Answers, NothingRead, NoSamples
  <1>2. Inv /\ ScrapeInv /\ [Next]_vars => [Store!Next]_Store!vars
    BY StoreStep
  <1> QED
    BY <1>1, <1>2, ScrapeInvariance, PTL DEF Spec, ImplementsStore, Store!Spec
=============================================================================
