------------------------------ MODULE JobQueue ------------------------------
(***************************************************************************)
(* exo::JobQueue: a bounded queue of decoding jobs and a few worker        *)
(* threads that prepare (init) and play (run) them.  Three mutexes are     *)
(* passed hand over hand: a worker waits for a job under waitingJob_,      *)
(* prepares it under initJob_ and plays it under runningJob_, and takes    *)
(* the next mutex before it gives up the previous one.                     *)
(*                                                                         *)
(* The RingBuffer the jobs wait in is taken here as the bounded FIFO it    *)
(* implements (module RingBuffer): get() returns the oldest job, or        *)
(* nothing once the buffer is closed and drained.                          *)
(***************************************************************************)
EXTENDS Naturals, Sequences

CONSTANTS Workers,      \* the worker threads start() created
          Jobs,         \* the jobs the command reader can create
          QueueSize,    \* the capacity of jobs_ (JOB_QUEUE_SIZE)
          MaxJobs,      \* bound: how many jobs the reader creates
          NoJob,        \* an empty job pointer
          NoWorker      \* the owner of a free mutex

ASSUME WorkersAssumption   == Workers # {}
ASSUME QueueSizeAssumption == QueueSize \in Nat \ {0}
ASSUME NoJobAssumption     == NoJob \notin Jobs
ASSUME NoWorkerAssumption  == NoWorker \notin Workers

VARIABLES
  jobs,           \* the jobs waiting in jobs_, oldest first
  closed,         \* jobs_ has been closed
  terminating,    \* !shouldRun(): an exit signal came
  reader,         \* the command reader: "reading", or "done" after a quit
  joined,         \* stop() has returned
  waitingJob, initJob, runningJob,   \* the owner of each mutex
  pc, job,        \* per worker: where it is in runJobs(), the job it holds
  accepted, inited, played   \* history: jobs queued, prepared, played

queueVars   == <<jobs, closed, accepted>>
mutexVars   == <<waitingJob, initJob, runningJob>>
historyVars == <<inited, played>>
mainVars    == <<terminating, reader, joined>>
vars == <<queueVars, mutexVars, historyVars, mainVars, pc, job>>

Locations == {"test", "lockWaiting", "get", "retest", "lockInit", "handInit",
              "init", "lockRunning", "handRunning", "run", "exited"}

Init ==
  /\ jobs = <<>> /\ closed = FALSE /\ accepted = <<>>
  /\ terminating = FALSE /\ reader = "reading" /\ joined = FALSE
  /\ waitingJob = NoWorker /\ initJob = NoWorker /\ runningJob = NoWorker
  /\ pc = [w \in Workers |-> "test"]
  /\ job = [w \in Workers |-> NoJob]
  /\ inited = <<>> /\ played = <<>>

-----------------------------------------------------------------------------
(* The command reader and the main thread.                                 *)

\* addJob(): blocks while the queue is full and open.
AddJob(j) ==
  /\ reader = "reading"
  /\ Len(accepted) < MaxJobs
  /\ ~closed
  /\ Len(jobs) < QueueSize
  /\ jobs' = Append(jobs, j)
  /\ accepted' = Append(accepted, j)
  /\ UNCHANGED <<closed, mutexVars, historyVars, mainVars, pc, job>>

\* The quit command: the reader stops and the server begins a graceful exit.
ReaderQuit ==
  /\ reader = "reading"
  /\ reader' = "done"
  /\ UNCHANGED <<queueVars, mutexVars, historyVars, terminating, joined, pc, job>>

\* The signal handler.
Signal ==
  /\ ~terminating
  /\ terminating' = TRUE
  /\ UNCHANGED <<queueVars, mutexVars, historyVars, reader, joined, pc, job>>

\* close(): the main thread, after a quit or a signal.  A job that the reader
\* offers from now on is discarded, so the queue does not change any more.
Close ==
  /\ reader = "done" \/ terminating
  /\ ~closed
  /\ closed' = TRUE
  /\ UNCHANGED <<jobs, accepted, mutexVars, historyVars, mainVars, pc, job>>

\* stop() returns once every worker has been joined.
StopReturns ==
  /\ closed
  /\ ~joined
  /\ \A w \in Workers : pc[w] = "exited"
  /\ joined' = TRUE
  /\ UNCHANGED <<queueVars, mutexVars, historyVars, terminating, reader, pc, job>>

-----------------------------------------------------------------------------
(* A worker, in the order of runJobs().                                    *)

GoTo(w, l) == pc' = [pc EXCEPT ![w] = l]

At(w, l) == pc[w] = l

\* Seeded fault: the loop ends as soon as the queue is closed.
Test_Closed(w) ==
  /\ At(w, "test")
  /\ GoTo(w, IF terminating \/ closed THEN "exited" ELSE "lockWaiting")
  /\ UNCHANGED <<queueVars, mutexVars, historyVars, mainVars, job>>

\* while (exo::shouldRun())
Test(w) ==
  /\ At(w, "test")
  /\ GoTo(w, IF terminating THEN "exited" ELSE "lockWaiting")
  /\ UNCHANGED <<queueVars, mutexVars, historyVars, mainVars, job>>

LockWaiting(w) ==
  /\ At(w, "lockWaiting")
  /\ waitingJob = NoWorker
  /\ waitingJob' = w
  /\ GoTo(w, "get")
  /\ UNCHANGED <<queueVars, initJob, runningJob, historyVars, mainVars, job>>

\* Seeded fault: waitingLock is given up as soon as get() returns.
Get_Unlocks(w) ==
  /\ At(w, "get")
  /\ jobs # <<>>
  /\ job' = [job EXCEPT ![w] = Head(jobs)]
  /\ jobs' = Tail(jobs)
  /\ waitingJob' = NoWorker
  /\ GoTo(w, "lockInit")
  /\ UNCHANGED <<closed, accepted, initJob, runningJob, historyVars, mainVars>>

\* jobs_.get() returns a job.
Get(w) ==
  /\ At(w, "get")
  /\ jobs # <<>>
  /\ job' = [job EXCEPT ![w] = Head(jobs)]
  /\ jobs' = Tail(jobs)
  /\ GoTo(w, "lockInit")
  /\ UNCHANGED <<closed, accepted, mutexVars, historyVars, mainVars>>

\* jobs_.get() returns nothing: waitingLock is given up.
GetNothing(w) ==
  /\ At(w, "get")
  /\ closed /\ jobs = <<>>
  /\ waitingJob' = NoWorker
  /\ GoTo(w, "retest")
  /\ UNCHANGED <<queueVars, initJob, runningJob, historyVars, mainVars, job>>

\* Seeded fault: the return is forgotten.
Retest_NoReturn(w) ==
  /\ At(w, "retest")
  /\ GoTo(w, "test")
  /\ UNCHANGED <<queueVars, mutexVars, historyVars, mainVars, job>>

\* if (jobs_.closed()) return; else continue;
Retest(w) ==
  /\ At(w, "retest")
  /\ GoTo(w, IF closed /\ jobs = <<>> THEN "exited" ELSE "test")
  /\ UNCHANGED <<queueVars, mutexVars, historyVars, mainVars, job>>

LockInit(w) ==
  /\ At(w, "lockInit")
  /\ initJob = NoWorker
  /\ initJob' = w
  /\ GoTo(w, "handInit")
  /\ UNCHANGED <<queueVars, waitingJob, runningJob, historyVars, mainVars, job>>

\* waitingLock is given up and job->init() begins.
BeginInit(w) ==
  /\ At(w, "handInit")
  /\ waitingJob' = NoWorker
  /\ inited' = Append(inited, job[w])
  /\ GoTo(w, "init")
  /\ UNCHANGED <<queueVars, initJob, runningJob, played, mainVars, job>>

EndInit(w) ==
  /\ At(w, "init")
  /\ GoTo(w, "lockRunning")
  /\ UNCHANGED <<queueVars, mutexVars, historyVars, mainVars, job>>

\* Seeded fault: runningJob_ does not exclude anyone.
LockRunning_Shared(w) ==
  /\ At(w, "lockRunning")
  /\ runningJob' = w
  /\ GoTo(w, "handRunning")
  /\ UNCHANGED <<queueVars, waitingJob, initJob, historyVars, mainVars, job>>

LockRunning(w) ==
  /\ At(w, "lockRunning")
  /\ runningJob = NoWorker
  /\ runningJob' = w
  /\ GoTo(w, "handRunning")
  /\ UNCHANGED <<queueVars, waitingJob, initJob, historyVars, mainVars, job>>

\* initLock is given up and job->run() begins.
BeginRun(w) ==
  /\ At(w, "handRunning")
  /\ initJob' = NoWorker
  /\ played' = Append(played, job[w])
  /\ GoTo(w, "run")
  /\ UNCHANGED <<queueVars, waitingJob, runningJob, inited, mainVars, job>>

\* job->run() returns, runningLock is given up and the job is destroyed.
EndRun(w) ==
  /\ At(w, "run")
  /\ runningJob' = NoWorker
  /\ job' = [job EXCEPT ![w] = NoJob]
  /\ GoTo(w, "test")
  /\ UNCHANGED <<queueVars, waitingJob, initJob, historyVars, mainVars>>

Worker(w) ==
  \/ Test(w) \/ LockWaiting(w) \/ Get(w) \/ GetNothing(w) \/ Retest(w)
  \/ LockInit(w) \/ BeginInit(w) \/ EndInit(w)
  \/ LockRunning(w) \/ BeginRun(w) \/ EndRun(w)

\* The program is over: stuttering here is not a deadlock.
Finished == joined /\ UNCHANGED vars

Next ==
  \/ \E j \in Jobs : AddJob(j)
  \/ ReaderQuit
  \/ Signal
  \/ Close
  \/ StopReturns
  \/ \E w \in Workers : Worker(w)
  \/ Finished

\* Threads are scheduled: each worker keeps running, and so does the main
\* thread.  Commands and signals may never come.
Fairness ==
  /\ \A w \in Workers : WF_vars(Worker(w))
  /\ WF_vars(Close)
  /\ WF_vars(StopReturns)

Spec == Init /\ [][Next]_vars /\ Fairness

-----------------------------------------------------------------------------
(* Properties.                                                             *)

\* The queue never holds more jobs than its size, the mutexes have at most one
\* owner and every worker is at a step of the loop.
TypeOK ==
  /\ jobs \in Seq(Jobs) /\ accepted \in Seq(Jobs)
  /\ inited \in Seq(Jobs) /\ played \in Seq(Jobs)
  /\ closed \in BOOLEAN /\ terminating \in BOOLEAN /\ joined \in BOOLEAN
  /\ reader \in {"reading", "done"}
  /\ waitingJob \in Workers \cup {NoWorker}
  /\ initJob \in Workers \cup {NoWorker}
  /\ runningJob \in Workers \cup {NoWorker}
  /\ pc \in [Workers -> Locations]
  /\ job \in [Workers -> Jobs \cup {NoJob}]
  /\ Len(jobs) <= QueueSize

\* s repeats t from its start and does not go past its end.
Follows(s, t) ==
  /\ Len(s) <= Len(t)
  /\ \A i \in 1 .. Len(s) : s[i] = t[i]

\* Jobs are prepared, and played, in the order the queue accepted them, and
\* preparation is never more than one job ahead of playing, whichever worker
\* picked up which job.
PlayedInOrder ==
  /\ TypeOK
  /\ Follows(inited, accepted)
  /\ Follows(played, inited)
  /\ Len(inited) <= Len(played) + 1

\* stop() returns on a graceful exit only after every accepted job was played:
\* nothing is left in the queue or in the hands of a worker that has exited.
JoinedAfterLastJob ==
  joined /\ ~terminating => played = accepted

\* The promise of the abstract pipeline: one job at a time, in order.
Pipeline == INSTANCE JobPipeline
              WITH playing <- \E w \in Workers : At(w, "run")
PipelineSpec == Pipeline!Spec

\* After close() every accepted job is eventually played, unless a signal
\* intervenes, and stop() returns.
DrainsAndStops ==
  closed ~> joined /\ (terminating \/ played = accepted)

=============================================================================
