--------------------------- MODULE JobQueueProofs ---------------------------
(***************************************************************************)
(* Proofs about JobQueue, for any set of workers, any jobs and any         *)
(* capacity.  The order of the jobs rests on two things: the hand-over-    *)
(* hand mutexes let at most one worker stand in each stage (Owners), and   *)
(* the job in each stage is the next one of the history (Stages, Waiting). *)
(***************************************************************************)
EXTENDS JobQueue, TLAPS

\* Each mutex is owned exactly by the worker whose place says so.
Owners ==
  \A w \in Workers :
    /\ waitingJob = w <=> pc[w] \in {"get", "lockInit", "handInit"}
    /\ initJob = w <=> pc[w] \in {"handInit", "init", "lockRunning", "handRunning"}
    /\ runningJob = w <=> pc[w] \in {"handRunning", "run"}

\* A worker past get() holds a job.
Holds ==
  \A w \in Workers :
    pc[w] \in {"lockInit", "handInit", "init", "lockRunning", "handRunning", "run"}
      => job[w] \in Jobs

HasTaken(w) == pc[w] \in {"lockInit", "handInit"}
HasInited(w) == pc[w] \in {"init", "lockRunning", "handRunning"}

\* The job a worker holds is the next one to be prepared, or the last one
\* that was.
Stages ==
  /\ \A w \in Workers :
       /\ HasTaken(w) => /\ Len(inited) < Len(accepted)
                         /\ job[w] = accepted[Len(inited) + 1]
       /\ HasInited(w) => /\ Len(inited) = Len(played) + 1
                          /\ job[w] = inited[Len(inited)]
  /\ (\A w \in Workers : ~HasInited(w)) => Len(inited) = Len(played)

\* How many jobs left the queue.
Taken == Len(inited) + (IF \E w \in Workers : HasTaken(w) THEN 1 ELSE 0)

\* The queue holds the accepted jobs that were not taken out of it, in order.
Waiting ==
  /\ Len(accepted) = Taken + Len(jobs)
  /\ \A i \in 1 .. Len(jobs) : jobs[i] = accepted[Taken + i]

InOrder ==
  /\ Follows(inited, accepted)
  /\ Follows(played, inited)

\* A worker only leaves for good on a signal, or when the closed queue is dry.
Leaving ==
  /\ \A w \in Workers :
       pc[w] \in {"retest", "exited"} => terminating \/ (closed /\ jobs = <<>>)
  /\ joined => \A w \in Workers : pc[w] = "exited"

IInv == TypeOK /\ Holds /\ Owners /\ Stages /\ Waiting /\ InOrder /\ Leaving

-----------------------------------------------------------------------------
(* Facts about sequences that the steps share.                             *)

LEMMA AppendFacts ==
  ASSUME NEW S, NEW s \in Seq(S), NEW e \in S
  PROVE  /\ Append(s, e) \in Seq(S)
         /\ Len(Append(s, e)) = Len(s) + 1
         /\ \A i \in 1 .. Len(s) : Append(s, e)[i] = s[i]
         /\ Append(s, e)[Len(s) + 1] = e
         /\ Len(s) \in Nat
  OBVIOUS

LEMMA TailFacts ==
  ASSUME NEW S, NEW s \in Seq(S), s # <<>>
  PROVE  /\ Head(s) \in S
         /\ Head(s) = s[1]
         /\ Tail(s) \in Seq(S)
         /\ Len(s) \in Nat \ {0}
         /\ Len(Tail(s)) = Len(s) - 1
         /\ \A i \in 1 .. Len(Tail(s)) : Tail(s)[i] = s[i + 1]
  OBVIOUS

LEMMA InitIInv == Init => IInv
<1> SUFFICES ASSUME Init PROVE IInv
  OBVIOUS
<1> USE DEF Init
<1>1. TypeOK
  <2>1. <<>> \in Seq(Jobs) /\ Len(<<>>) <= QueueSize
    BY QueueSizeAssumption
  <2>2. /\ pc \in [Workers -> Locations]
        /\ job \in [Workers -> Jobs \cup {NoJob}]
    BY DEF Locations
  <2> QED
    BY <2>1, <2>2 DEF TypeOK
<1>2. Holds /\ Owners /\ Stages
  BY NoWorkerAssumption DEF Holds, Owners, Stages, HasTaken, HasInited
<1>3. Taken = 0
  BY DEF Taken, HasTaken
<1>4. Waiting /\ InOrder /\ Leaving
  BY <1>3 DEF Waiting, InOrder, Leaving, Follows
<1> QED
  BY <1>1, <1>2, <1>4 DEF IInv

LEMMA TypeStep == TypeOK /\ Holds /\ [Next]_vars => TypeOK' /\ Holds'
<1> SUFFICES ASSUME TypeOK, Holds, [Next]_vars PROVE TypeOK' /\ Holds'
  OBVIOUS
<1> USE DEF TypeOK, Holds, Locations, GoTo, At
<1>1. ASSUME NEW j \in Jobs, AddJob(j) PROVE TypeOK' /\ Holds'
  BY <1>1, QueueSizeAssumption, AppendFacts DEF AddJob, mutexVars, historyVars, mainVars
<1>2. CASE ReaderQuit
  BY <1>2 DEF ReaderQuit, queueVars, mutexVars, historyVars
<1>3. CASE Signal
  BY <1>3 DEF Signal, queueVars, mutexVars, historyVars
<1>4. CASE Close
  BY <1>4 DEF Close, mutexVars, historyVars, mainVars
<1>5. CASE StopReturns
  BY <1>5 DEF StopReturns, queueVars, mutexVars, historyVars
<1>6. ASSUME NEW w \in Workers, Worker(w) PROVE TypeOK' /\ Holds'
  <2> USE DEF queueVars, mutexVars, historyVars, mainVars
  <2>1. CASE Test(w)         BY <2>1 DEF Test
  <2>2. CASE LockWaiting(w)  BY <2>2 DEF LockWaiting
  <2>3. CASE Get(w)
    <3>1. /\ Head(jobs) \in Jobs
          /\ Tail(jobs) \in Seq(Jobs)
          /\ Len(Tail(jobs)) <= QueueSize
      BY <2>3, TailFacts, QueueSizeAssumption DEF Get
    <3> QED
      BY <2>3, <3>1 DEF Get
  <2>4. CASE GetNothing(w)   BY <2>4 DEF GetNothing
  <2>5. CASE Retest(w)       BY <2>5 DEF Retest
  <2>6. CASE LockInit(w)     BY <2>6 DEF LockInit
  <2>7. CASE BeginInit(w)
    <3>1. job[w] \in Jobs /\ inited' \in Seq(Jobs)
      BY <2>7, AppendFacts DEF BeginInit
    <3> QED
      BY <2>7, <3>1 DEF BeginInit
  <2>8. CASE EndInit(w)      BY <2>8 DEF EndInit
  <2>9. CASE LockRunning(w)  BY <2>9 DEF LockRunning
  <2>10. CASE BeginRun(w)
    <3>1. job[w] \in Jobs /\ played' \in Seq(Jobs)
      BY <2>10, AppendFacts DEF BeginRun
    <3> QED
      BY <2>10, <3>1 DEF BeginRun
  <2>11. CASE EndRun(w)      BY <2>11 DEF EndRun
  <2> QED
    BY <1>6, <2>1, <2>2, <2>3, <2>4, <2>5, <2>6, <2>7, <2>8, <2>9, <2>10, <2>11 DEF Worker
<1>7. CASE UNCHANGED vars
  BY <1>7 DEF vars, queueVars, mutexVars, historyVars, mainVars
<1> QED
  BY <1>1, <1>2, <1>3, <1>4, <1>5, <1>6, <1>7 DEF Next, Finished

-----------------------------------------------------------------------------
(* The hand-over-hand discipline.                                          *)

LEMMA OwnersStep == TypeOK /\ Owners /\ [Next]_vars => Owners'
<1> SUFFICES ASSUME TypeOK, Owners, [Next]_vars PROVE Owners'
  OBVIOUS
<1> USE NoWorkerAssumption DEF Owners, GoTo, At, queueVars, mutexVars, historyVars, mainVars
<1>0. pc \in [Workers -> Locations]
  BY DEF TypeOK
<1>1. ASSUME NEW j \in Jobs, AddJob(j) PROVE Owners'
  BY <1>1 DEF AddJob
<1>2. CASE ReaderQuit \/ Signal \/ Close \/ StopReturns
  BY <1>2 DEF ReaderQuit, Signal, Close, StopReturns
<1>3. ASSUME NEW w \in Workers, Worker(w) PROVE Owners'
  <2>1. CASE Test(w)         BY <1>0, <2>1 DEF Test
  <2>2. CASE LockWaiting(w)  BY <1>0, <2>2 DEF LockWaiting
  <2>3. CASE Get(w)          BY <1>0, <2>3 DEF Get
  <2>4. CASE GetNothing(w)   BY <1>0, <2>4 DEF GetNothing
  <2>5. CASE Retest(w)       BY <1>0, <2>5 DEF Retest
  <2>6. CASE LockInit(w)     BY <1>0, <2>6 DEF LockInit
  <2>7. CASE BeginInit(w)    BY <1>0, <2>7 DEF BeginInit
  <2>8. CASE EndInit(w)      BY <1>0, <2>8 DEF EndInit
  <2>9. CASE LockRunning(w)  BY <1>0, <2>9 DEF LockRunning
  <2>10. CASE BeginRun(w)    BY <1>0, <2>10 DEF BeginRun
  <2>11. CASE EndRun(w)      BY <1>0, <2>11 DEF EndRun
  <2> QED
    BY <1>3, <2>1, <2>2, <2>3, <2>4, <2>5, <2>6, <2>7, <2>8, <2>9, <2>10, <2>11 DEF Worker
<1>4. CASE UNCHANGED vars
  BY <1>4 DEF vars
<1> QED
  BY <1>1, <1>2, <1>3, <1>4 DEF Next, Finished

-----------------------------------------------------------------------------
(* The order of the jobs.                                                  *)

Order == Stages /\ Waiting /\ InOrder

\* Only one worker can stand between get() and init(), and only one between
\* init() and run().
LEMMA OneInStage ==
  ASSUME Owners, NEW v \in Workers, NEW w \in Workers, v # w
  PROVE  /\ pc[w] \in {"get", "lockInit", "handInit"} => ~HasTaken(v)
         /\ pc[w] \in {"handInit", "init", "lockRunning", "handRunning"} => ~HasInited(v)
  BY DEF Owners, HasTaken, HasInited

\* Order depends on pc only through HasTaken and HasInited.
LEMMA OrderStutter ==
  ASSUME Order, UNCHANGED <<jobs, accepted, inited, played>>,
         \A v \in Workers : /\ HasTaken(v)' <=> HasTaken(v)
                            /\ HasInited(v)' <=> HasInited(v)
                            /\ HasTaken(v) \/ HasInited(v) => job'[v] = job[v]
  PROVE  Order'
<1>1. Taken' = Taken
  BY DEF Taken
<1>2. Stages'
  BY DEF Order, Stages
<1> QED
  BY <1>1, <1>2 DEF Order, Waiting, InOrder, Follows

LEMMA OrderStep == IInv /\ [Next]_vars => Order'
<1> SUFFICES ASSUME IInv, [Next]_vars PROVE Order'
  OBVIOUS
<1>0. /\ TypeOK /\ Holds /\ Owners /\ Order
      /\ pc \in [Workers -> Locations]
      /\ job \in [Workers -> Jobs \cup {NoJob}]
      /\ accepted \in Seq(Jobs) /\ inited \in Seq(Jobs)
      /\ played \in Seq(Jobs) /\ jobs \in Seq(Jobs)
  BY DEF IInv, Order, TypeOK
<1>l. /\ Len(accepted) \in Nat /\ Len(inited) \in Nat
      /\ Len(played) \in Nat /\ Len(jobs) \in Nat
      /\ Taken \in Nat
  BY <1>0 DEF Taken
<1> USE DEF GoTo, At, queueVars, mutexVars, historyVars, mainVars
<1>1. ASSUME NEW j \in Jobs, AddJob(j) PROVE Order'
  <2>1. /\ Len(accepted') = Len(accepted) + 1
        /\ Len(jobs') = Len(jobs) + 1
        /\ \A i \in 1 .. Len(accepted) : accepted'[i] = accepted[i]
        /\ \A i \in 1 .. Len(jobs) : jobs'[i] = jobs[i]
        /\ accepted'[Len(accepted) + 1] = j
        /\ jobs'[Len(jobs) + 1] = j
    BY <1>0, <1>1, AppendFacts DEF AddJob
  <2>2. UNCHANGED <<inited, played, pc, job>> /\ Taken' = Taken
    BY <1>1 DEF AddJob, Taken, HasTaken
  <2>3. Stages'
    <3>1. \A v \in Workers : HasTaken(v) =>
            /\ Len(inited) + 1 \in 1 .. Len(accepted)
            /\ job[v] = accepted[Len(inited) + 1]
      BY <1>0, <1>l DEF Order, Stages
    <3>2. \A v \in Workers : HasTaken(v) =>
            /\ Len(inited) < Len(accepted')
            /\ job[v] = accepted'[Len(inited) + 1]
      BY <1>l, <2>1, <3>1
    <3>3. \A v \in Workers : (HasTaken(v)' <=> HasTaken(v)) /\ (HasInited(v)' <=> HasInited(v))
      BY <2>2 DEF HasTaken, HasInited
    <3> QED
      BY <1>0, <2>2, <3>2, <3>3 DEF Order, Stages
  <2>4. Waiting'
    <3>1. Len(accepted') = Taken' + Len(jobs')
      BY <1>0, <1>l, <2>1, <2>2 DEF Order, Waiting
    <3>2. ASSUME NEW i \in 1 .. Len(jobs')
          PROVE  jobs'[i] = accepted'[Taken' + i]
      <4>1. CASE i = Len(jobs) + 1
        BY <1>0, <1>l, <2>1, <2>2, <4>1 DEF Order, Waiting
      <4>2. CASE i \in 1 .. Len(jobs)
        <5>1. jobs[i] = accepted[Taken + i] /\ Taken + i \in 1 .. Len(accepted)
          BY <1>0, <1>l, <4>2 DEF Order, Waiting
        <5> QED
          BY <2>1, <2>2, <4>2, <5>1
      <4> QED
        BY <1>l, <2>1, <4>1, <4>2
    <3> QED
      BY <3>1, <3>2 DEF Waiting
  <2>5. InOrder'
    BY <1>0, <1>l, <2>1, <2>2 DEF Order, InOrder, Follows
  <2> QED
    BY <2>3, <2>4, <2>5 DEF Order
<1>2. CASE ReaderQuit \/ Signal \/ Close \/ StopReturns
  BY <1>0, <1>2, OrderStutter
  DEF ReaderQuit, Signal, Close, StopReturns, HasTaken, HasInited
<1>3. ASSUME NEW w \in Workers, Worker(w) PROVE Order'
  <2>1. CASE Test(w)
    BY <1>0, <2>1, OrderStutter DEF Test, HasTaken, HasInited
  <2>2. CASE LockWaiting(w)
    BY <1>0, <2>2, OrderStutter DEF LockWaiting, HasTaken, HasInited
  <2>3. CASE Get(w)
    <3>1. /\ jobs # <<>>
          /\ Len(jobs') = Len(jobs) - 1
          /\ Len(jobs) > 0
          /\ job'[w] = jobs[1]
          /\ \A i \in 1 .. Len(jobs') : jobs'[i] = jobs[i + 1]
      BY <1>0, <2>3, TailFacts DEF Get
    <3>2. /\ \A v \in Workers : ~HasTaken(v)
          /\ HasTaken(w)'
          /\ \A v \in Workers : HasInited(v)' <=> HasInited(v)
          /\ \A v \in Workers \ {w} : ~HasTaken(v)' /\ job'[v] = job[v]
      BY <1>0, <2>3, OneInStage DEF Get, HasTaken, HasInited
    <3>3. Taken = Len(inited) /\ Taken' = Len(inited) + 1
      BY <2>3, <3>2 DEF Taken, Get
    <3>4. UNCHANGED <<accepted, inited, played>>
      BY <2>3 DEF Get
    <3>5. Len(accepted) = Len(inited) + Len(jobs) /\ jobs[1] = accepted[Len(inited) + 1]
      BY <1>0, <1>l, <3>1, <3>3 DEF Order, Waiting
    <3>6. Stages'
      <4>1. ~HasInited(w)
        BY <2>3 DEF Get, HasInited
      <4> QED
        BY <1>0, <1>l, <3>1, <3>2, <3>4, <3>5, <4>1 DEF Order, Stages
    <3>7. Waiting'
      <4>1. Len(accepted') = Taken' + Len(jobs')
        BY <1>0, <1>l, <3>1, <3>3, <3>4, <3>5
      <4>2. ASSUME NEW i \in 1 .. Len(jobs')
            PROVE  jobs'[i] = accepted'[Taken' + i]
        <5>1. i + 1 \in 1 .. Len(jobs)
          BY <1>l, <3>1
        <5>2. jobs[i + 1] = accepted[Taken + (i + 1)]
          BY <1>0, <5>1 DEF Order, Waiting
        <5> QED
          BY <1>l, <3>1, <3>3, <3>4, <5>2
      <4> QED
        BY <4>1, <4>2 DEF Waiting
    <3> QED
      BY <1>0, <3>4, <3>6, <3>7 DEF Order, InOrder, Follows
  <2>4. CASE GetNothing(w)
    BY <1>0, <2>4, OrderStutter DEF GetNothing, HasTaken, HasInited
  <2>5. CASE Retest(w)
    BY <1>0, <2>5, OrderStutter DEF Retest, HasTaken, HasInited
  <2>6. CASE LockInit(w)
    BY <1>0, <2>6, OrderStutter DEF LockInit, HasTaken, HasInited
  <2>7. CASE BeginInit(w)
    <3>1. /\ Len(inited') = Len(inited) + 1
          /\ \A i \in 1 .. Len(inited) : inited'[i] = inited[i]
          /\ inited'[Len(inited) + 1] = job[w]
      BY <1>0, <2>7, AppendFacts DEF BeginInit, Holds
    <3>2. /\ HasTaken(w) /\ HasInited(w)'
          /\ \A v \in Workers : ~HasTaken(v)' /\ ~HasInited(v)
          /\ \A v \in Workers \ {w} : ~HasInited(v)'
      BY <1>0, <2>7, OneInStage DEF BeginInit, HasTaken, HasInited
    <3>3. Taken = Len(inited) + 1 /\ Taken' = Len(inited')
      BY <2>7, <3>2 DEF Taken
    <3>4. UNCHANGED <<jobs, accepted, played, job>>
      BY <2>7 DEF BeginInit
    <3>5. /\ Len(inited) = Len(played)
          /\ Len(inited) < Len(accepted)
          /\ job[w] = accepted[Len(inited) + 1]
      BY <1>0, <3>2 DEF Order, Stages
    <3>6. Stages'
      BY <1>l, <3>1, <3>2, <3>4, <3>5 DEF Stages
    <3>7. Waiting'
      BY <1>0, <1>l, <3>1, <3>3, <3>4 DEF Order, Waiting
    <3>8. InOrder'
      <4>0. Follows(inited, accepted) /\ Follows(played, inited)
        BY <1>0 DEF Order, InOrder
      <4>1. Follows(inited', accepted)
        BY <1>l, <3>1, <3>5, <4>0 DEF Follows
      <4>2. Follows(played, inited')
        BY <1>l, <3>1, <4>0 DEF Follows
      <4> QED
        BY <3>4, <4>1, <4>2 DEF InOrder, Follows
    <3> QED
      BY <3>6, <3>7, <3>8 DEF Order
  <2>8. CASE EndInit(w)
    BY <1>0, <2>8, OrderStutter DEF EndInit, HasTaken, HasInited
  <2>9. CASE LockRunning(w)
    BY <1>0, <2>9, OrderStutter DEF LockRunning, HasTaken, HasInited
  <2>10. CASE BeginRun(w)
    <3>1. /\ Len(played') = Len(played) + 1
          /\ \A i \in 1 .. Len(played) : played'[i] = played[i]
          /\ played'[Len(played) + 1] = job[w]
      BY <1>0, <2>10, AppendFacts DEF BeginRun, Holds
    <3>2. /\ HasInited(w) /\ ~HasTaken(w)
          /\ \A v \in Workers : ~HasInited(v)' /\ (HasTaken(v)' <=> HasTaken(v))
      BY <1>0, <2>10, OneInStage DEF BeginRun, HasTaken, HasInited
    <3>3. Taken' = Taken
      BY <2>10, <3>2 DEF Taken, BeginRun
    <3>4. UNCHANGED <<jobs, accepted, inited, job>>
      BY <2>10 DEF BeginRun
    <3>5. Len(inited) = Len(played) + 1 /\ job[w] = inited[Len(inited)]
      BY <1>0, <3>2 DEF Order, Stages
    <3>6. Stages'
      BY <1>0, <1>l, <3>1, <3>2, <3>4, <3>5 DEF Order, Stages
    <3>7. Waiting'
      BY <1>0, <3>3, <3>4 DEF Order, Waiting
    <3>8. InOrder'
      <4>0. Follows(inited, accepted) /\ Follows(played, inited)
        BY <1>0 DEF Order, InOrder
      <4>1. Follows(inited, accepted)'
        BY <3>4, <4>0 DEF Follows
      <4>2. ASSUME NEW i \in 1 .. Len(played')
            PROVE  played'[i] = inited[i]
        <5>1. CASE i = Len(inited)
          BY <1>l, <3>1, <3>5, <5>1
        <5>2. CASE i # Len(inited)
          <6>1. i \in 1 .. Len(played)
            BY <1>l, <3>1, <3>5, <5>2
          <6> QED
            BY <3>1, <4>0, <6>1 DEF Follows
        <5> QED
          BY <5>1, <5>2
      <4>3. Follows(played, inited)'
        BY <1>l, <3>1, <3>4, <3>5, <4>2 DEF Follows
      <4> QED
        BY <4>1, <4>3 DEF InOrder
    <3> QED
      BY <3>6, <3>7, <3>8 DEF Order
  <2>11. CASE EndRun(w)
    BY <1>0, <2>11, OrderStutter DEF EndRun, HasTaken, HasInited
  <2> QED
    BY <1>3, <2>1, <2>2, <2>3, <2>4, <2>5, <2>6, <2>7, <2>8, <2>9, <2>10, <2>11 DEF Worker
<1>4. CASE UNCHANGED vars
  BY <1>0, <1>4, OrderStutter DEF vars, HasTaken, HasInited
<1> QED
  BY <1>1, <1>2, <1>3, <1>4 DEF Next, Finished

-----------------------------------------------------------------------------
(* Leaving the loop.                                                       *)

LEMMA LeavingStep == TypeOK /\ Leaving /\ [Next]_vars => Leaving'
<1> SUFFICES ASSUME TypeOK, Leaving, [Next]_vars PROVE Leaving'
  OBVIOUS
<1> USE DEF Leaving, GoTo, At, queueVars, mutexVars, historyVars, mainVars
<1>0. pc \in [Workers -> Locations]
  BY DEF TypeOK
<1>1. ASSUME NEW j \in Jobs, AddJob(j) PROVE Leaving'
  BY <1>1 DEF AddJob
<1>2. CASE ReaderQuit \/ Signal \/ Close \/ StopReturns
  BY <1>2 DEF ReaderQuit, Signal, Close, StopReturns
<1>3. ASSUME NEW w \in Workers, Worker(w) PROVE Leaving'
  <2>1. CASE Test(w)         BY <1>0, <2>1 DEF Test
  <2>2. CASE LockWaiting(w)  BY <1>0, <2>2 DEF LockWaiting
  <2>3. CASE Get(w)          BY <1>0, <2>3 DEF Get
  <2>4. CASE GetNothing(w)   BY <1>0, <2>4 DEF GetNothing
  <2>5. CASE Retest(w)       BY <1>0, <2>5 DEF Retest
  <2>6. CASE LockInit(w)     BY <1>0, <2>6 DEF LockInit
  <2>7. CASE BeginInit(w)    BY <1>0, <2>7 DEF BeginInit
  <2>8. CASE EndInit(w)      BY <1>0, <2>8 DEF EndInit
  <2>9. CASE LockRunning(w)  BY <1>0, <2>9 DEF LockRunning
  <2>10. CASE BeginRun(w)    BY <1>0, <2>10 DEF BeginRun
  <2>11. CASE EndRun(w)      BY <1>0, <2>11 DEF EndRun
  <2> QED
    BY <1>3, <2>1, <2>2, <2>3, <2>4, <2>5, <2>6, <2>7, <2>8, <2>9, <2>10, <2>11 DEF Worker
<1>4. CASE UNCHANGED vars
  BY <1>4 DEF vars
<1> QED
  BY <1>1, <1>2, <1>3, <1>4 DEF Next, Finished

-----------------------------------------------------------------------------
(* The theorems.                                                           *)

LEMMA IInvStep == IInv /\ [Next]_vars => IInv'
  BY TypeStep, OwnersStep, OrderStep, LeavingStep DEF IInv, Order

\* The strengthened invariant holds in every reachable state.
THEOREM JobQueueInvariant == Spec => []IInv
  BY InitIInv, IInvStep, PTL DEF Spec

\* Type correctness, which includes that jobs_ never exceeds its capacity.
THEOREM JobQueueTypeOK == Spec => []TypeOK
<1>1. IInv => TypeOK
  BY DEF IInv
<1> QED
  BY <1>1, JobQueueInvariant, PTL

\* Jobs are prepared and played in the order the queue accepted them.
THEOREM JobQueuePlayedInOrder == Spec => []PlayedInOrder
<1>1. ASSUME IInv PROVE Len(inited) <= Len(played) + 1
  <2>1. Len(inited) \in Nat /\ Len(played) \in Nat
    BY <1>1 DEF IInv, TypeOK
  <2> QED
    BY <1>1, <2>1 DEF IInv, Stages
<1>2. IInv => PlayedInOrder
  BY <1>1 DEF IInv, InOrder, PlayedInOrder
<1> QED
  BY <1>2, JobQueueInvariant, PTL

\* When stop() has returned on a graceful exit, every accepted job was played.
THEOREM JobQueueJoinedAfterLastJob == Spec => []JoinedAfterLastJob
<1>1. ASSUME Workers # {}, IInv, joined, ~terminating PROVE played = accepted
  <2>1. /\ inited \in Seq(Jobs) /\ played \in Seq(Jobs) /\ accepted \in Seq(Jobs)
        /\ \A w \in Workers : pc[w] = "exited"
        /\ jobs = <<>>
    BY <1>1 DEF IInv, TypeOK, Leaving
  <2>2. /\ \A w \in Workers : ~HasTaken(w) /\ ~HasInited(w)
        /\ Taken = Len(inited)
    BY <2>1 DEF HasTaken, HasInited, Taken
  <2>3. Len(accepted) = Len(inited) /\ Len(inited) = Len(played)
    BY <1>1, <2>1, <2>2 DEF IInv, Waiting, Stages
  <2>4. \A i \in 1 .. Len(played) : played[i] = accepted[i]
    BY <1>1, <2>1, <2>3 DEF IInv, InOrder, Follows
  <2> QED
    BY <2>1, <2>3, <2>4
<1>2. IInv => JoinedAfterLastJob
  BY <1>1, WorkersAssumption DEF JoinedAfterLastJob
<1> QED
  BY <1>2, JobQueueInvariant, PTL

\* The workers implement the abstract pipeline: one job at a time, in order.
THEOREM JobQueueImplementsPipeline == Spec => PipelineSpec
<1>1. Init => Pipeline!Init
  BY DEF Init, Pipeline!Init, At
<1>2. IInv /\ IInv' /\ [Next]_vars => [Pipeline!Next]_Pipeline!vars
  <2> SUFFICES ASSUME IInv, [Next]_vars
               PROVE  [Pipeline!Next]_Pipeline!vars
    OBVIOUS
  <2> DEFINE P == \E w \in Workers : At(w, "run")
  <2>0. /\ pc \in [Workers -> Locations] /\ TypeOK /\ Owners /\ Stages /\ InOrder
        /\ inited \in Seq(Jobs) /\ played \in Seq(Jobs) /\ accepted \in Seq(Jobs)
        /\ Len(inited) \in Nat /\ Len(played) \in Nat /\ Len(accepted) \in Nat
    BY DEF IInv, TypeOK
  <2> USE DEF GoTo, At, queueVars, mutexVars, historyVars, mainVars, Pipeline!vars
  <2>1. ASSUME NEW j \in Jobs, AddJob(j) PROVE [Pipeline!Next]_Pipeline!vars
    BY <2>1 DEF AddJob, Pipeline!Next, Pipeline!Accept
  <2>2. CASE ReaderQuit \/ Signal \/ Close \/ StopReturns
    BY <2>2 DEF ReaderQuit, Signal, Close, StopReturns
  <2>3. ASSUME NEW w \in Workers, Worker(w) PROVE [Pipeline!Next]_Pipeline!vars
    <3>s. ASSUME NEW l \in Locations \ {"run"}, GoTo(w, l), pc[w] # "run",
                 UNCHANGED <<accepted, played>>
          PROVE  [Pipeline!Next]_Pipeline!vars
      BY <2>0, <3>s
    <3>1. CASE Test(w)         BY <3>1, <3>s DEF Test, Locations
    <3>2. CASE LockWaiting(w)  BY <3>2, <3>s DEF LockWaiting, Locations
    <3>3. CASE Get(w)          BY <3>3, <3>s DEF Get, Locations
    <3>4. CASE GetNothing(w)   BY <3>4, <3>s DEF GetNothing, Locations
    <3>5. CASE Retest(w)       BY <3>5, <3>s DEF Retest, Locations
    <3>6. CASE LockInit(w)     BY <3>6, <3>s DEF LockInit, Locations
    <3>7. CASE BeginInit(w)    BY <3>7, <3>s DEF BeginInit, Locations
    <3>8. CASE EndInit(w)      BY <3>8, <3>s DEF EndInit, Locations
    <3>9. CASE LockRunning(w)  BY <3>9, <3>s DEF LockRunning, Locations
    <3>10. CASE BeginRun(w)
      <4>1. ~P /\ P'
        BY <2>0, <3>10 DEF BeginRun, Owners
      <4>2. HasInited(w)
        BY <3>10 DEF BeginRun, HasInited
      <4>3. Len(inited) = Len(played) + 1 /\ job[w] = inited[Len(inited)]
        BY <2>0, <4>2 DEF Stages
      <4>4. Len(played) < Len(accepted) /\ job[w] = accepted[Len(played) + 1]
        BY <2>0, <4>3 DEF InOrder, Follows
      <4>5. Pipeline!Start
        BY <3>10, <4>1, <4>4 DEF BeginRun, Pipeline!Start
      <4> QED
        BY <4>5 DEF Pipeline!Next
    <3>11. CASE EndRun(w)
      <4>1. P /\ ~P'
        BY <2>0, <3>11 DEF EndRun, Owners
      <4>2. Pipeline!Finish
        BY <3>11, <4>1 DEF EndRun, Pipeline!Finish
      <4> QED
        BY <4>2 DEF Pipeline!Next
    <3> QED
      BY <2>3, <3>1, <3>2, <3>3, <3>4, <3>5, <3>6, <3>7, <3>8, <3>9, <3>10, <3>11 DEF Worker
  <2>4. CASE UNCHANGED vars
    BY <2>4 DEF vars
  <2> QED
    BY <2>1, <2>2, <2>3, <2>4 DEF Next, Finished
<1> QED
  BY <1>1, <1>2, JobQueueInvariant, PTL DEF Spec, PipelineSpec, Pipeline!Spec

=============================================================================
