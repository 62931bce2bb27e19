---------------------------- MODULE ServerProofs ----------------------------
(***************************************************************************)
(* Proofs about the end of the program, for any encoders, any of them in   *)
(* the barrier, any brocas that may fail and any number of jobs: a quit    *)
(* command cuts nothing short but what a broca that fails leaves behind,   *)
(* and the list of PCM buffers, which no lock protects, is left alone      *)
(* while it is emptied.                                                    *)
(*                                                                         *)
(* As long as no signal has come, the main thread is the only one that     *)
(* closes anything, and where it is in the steps of Graceful says what has *)
(* been closed and who has ended.                                          *)
(***************************************************************************)
EXTENDS Server, TLAPS, FiniteSetTheorems

\* The steps that are left before step k of an orderly end; none if k is 10.
Rest(k) == SubSeq(Graceful, k, 9)

\* The main thread has got past step n of an orderly end.
Past(n) == main # <<"poll">> /\ Len(main) <= 9 - n

\* What the threads of encoder e hold of the tracks it has come to.  The
\* packet of one may still have to be put into the sink.
InHand(e) == IF encoder[e] \in {"barrier", "packet"} THEN 1 ELSE 0

Flags ==
  /\ {terminating, outOfCommands, received, jobsClosed, pcmClosed, freed,
      publisherClosed} \subseteq BOOLEAN
  /\ sinkClosed \in [Encoders -> BOOLEAN]

Counts ==
  /\ handler \in 0 .. 2 /\ commands \in {"reading", "done"}
  /\ waiting \in Nat /\ written \in Nat /\ written + waiting <= config.jobs
  /\ jobs \in {"waiting", "playing", "done"}
  /\ publisher \in {"running", "done"}
  /\ closing \subseteq {"main", "watchdog"}
  /\ config \in Configurations

Types == Flags /\ Counts

\* No packet comes from nowhere.
Tracks ==
  /\ encoder \in [Encoders -> {"loop", "barrier", "packet", "asleep", "done"}]
  /\ broca \in [Encoders -> {"running", "failed", "done"}]
  /\ ring \in [Encoders -> 0 .. 1]
  /\ heard \in [Encoders -> Nat]
  /\ played \in [Encoders -> Nat]
  /\ \A e \in Encoders :
       heard[e] <= written /\ played[e] + ring[e] + InHand(e) <= heard[e]

\* The jobs and the main thread, while no signal has come.
OrderlyJobs ==
  /\ watchdog \in {<<>>, <<"watch">>}
  /\ main = <<"poll">> \/ \E k \in 1 .. 10 : main = Rest(k)
  /\ main # <<"poll">> => outOfCommands
  /\ jobsClosed => Past(1)
  /\ jobs = "done" => jobsClosed /\ waiting = 0
  /\ Past(2) => jobs = "done"
  /\ pcmClosed => Past(3)
  /\ closing # {} => closing = {"main"} /\ Past(3)

\* And each encoder with its broca: nothing is lost between them, unless the
\* broca fails.
OrderlyTracks ==
  /\ \A e \in config.encoders :
       /\ encoder[e] = "done" => pcmClosed /\ heard[e] = written
       /\ sinkClosed[e] => encoder[e] = "done"
       /\ broca[e] = "done" => sinkClosed[e] /\ ring[e] = 0
       /\ broca[e] # "failed" => played[e] + ring[e] + InHand(e) = heard[e]
  /\ Past(7) => \A e \in config.encoders : broca[e] # "running"

IInv == Types /\ Tracks /\ (~terminating => OrderlyJobs /\ OrderlyTracks)

-----------------------------------------------------------------------------
(* The steps of an orderly end.                                            *)

Steps == {"closeJobs", "joinJobs", "closePcm", "closedPcm", "free", "joinEncoders",
          "joinBrocas", "closePublisher", "joinPublisher"}

LEMMA GracefulSteps ==
  Graceful \in Seq(Steps) /\ Len(Graceful) = 9 /\ \A k \in 1 .. 9 : Graceful[k] # "poll"
<1>1. Graceful \in Seq({"closeJobs", "joinJobs", "closePcm", "closedPcm", "free",
                        "joinEncoders", "joinBrocas", "closePublisher", "joinPublisher"})
  BY DEF Graceful
<1>2. \A k \in 1 .. 9 : Graceful[k] # "poll"
  <2> SUFFICES ASSUME NEW k \in 1 .. 9 PROVE Graceful[k] # "poll"
    OBVIOUS
  <2>1. k \in {1, 2, 3, 4, 5, 6, 7, 8, 9}
    OBVIOUS
  <2> QED
    BY <2>1 DEF Graceful
<1> QED
  BY <1>1, <1>2 DEF Graceful, Steps

LEMMA GracefulPlaces ==
  ASSUME NEW k \in 1 .. 9
  PROVE  /\ Graceful[k] = "closeJobs" <=> k = 1
         /\ Graceful[k] = "joinJobs" <=> k = 2
         /\ Graceful[k] = "closePcm" <=> k = 3
         /\ Graceful[k] = "closedPcm" <=> k = 4
         /\ Graceful[k] = "joinEncoders" <=> k = 6
         /\ Graceful[k] = "joinBrocas" <=> k = 7
         /\ Graceful[k] # "closeSinks"
<1>1. k \in {1, 2, 3, 4, 5, 6, 7, 8, 9}
  OBVIOUS
<1> QED
  BY <1>1 DEF Graceful

\* Suffixes of a sequence of nine.
LEMMA Suffixes ==
  ASSUME NEW S, NEW g \in Seq(S), Len(g) = 9, NEW k \in 1 .. 9
  PROVE  /\ Len(SubSeq(g, k, 9)) = 10 - k /\ SubSeq(g, k, 9) # <<>>
         /\ Head(SubSeq(g, k, 9)) = g[k] /\ Tail(SubSeq(g, k, 9)) = SubSeq(g, k + 1, 9)
<1>1. Len(SubSeq(g, k, 9)) = 10 - k /\ SubSeq(g, k, 9) # <<>>
  <2>1. Len(SubSeq(g, k, 9)) = 10 - k
    OBVIOUS
  <2>2. 10 - k # Len(<<>>)
    OBVIOUS
  <2> QED
    BY <2>1, <2>2
<1>2. Head(SubSeq(g, k, 9)) = g[k]
  <2>1. SubSeq(g, k, 9) = [i \in 1 .. 10 - k |-> g[i + k - 1]]
    OBVIOUS
  <2>2. SubSeq(g, k, 9)[1] = g[k]
    BY <2>1
  <2> QED
    BY <2>2
<1>3. Tail(SubSeq(g, k, 9)) = SubSeq(g, k + 1, 9)
  OBVIOUS
<1> QED
  BY <1>1, <1>2, <1>3

\* The main thread takes one step after the other.
LEMMA RestSteps ==
  ASSUME NEW k \in 1 .. 9
  PROVE  /\ Rest(k) # <<>> /\ Len(Rest(k)) = 10 - k /\ Rest(k) # <<"poll">>
         /\ Head(Rest(k)) = Graceful[k] /\ Tail(Rest(k)) = Rest(k + 1)
<1>1. /\ Rest(k) # <<>> /\ Len(Rest(k)) = 10 - k
      /\ Head(Rest(k)) = Graceful[k] /\ Tail(Rest(k)) = Rest(k + 1)
  BY GracefulSteps, Suffixes DEF Rest
<1>2. Rest(k) # <<"poll">>
  BY <1>1, GracefulSteps
<1> QED
  BY <1>1, <1>2

LEMMA AllRest == Rest(10) = <<>> /\ Rest(1) = Graceful
  BY GracefulSteps DEF Rest

\* Where the main thread is, and what it is about to do.
LEMMA MainSteps ==
  ASSUME OrderlyJobs, MainStep
  PROVE  \E k \in 1 .. 9 :
           /\ main = Rest(k) /\ main' = Rest(k + 1)
           /\ Joined(Graceful[k]) /\ Closes("main", Graceful[k])
<1>1. main # <<"poll">>
  BY DEF MainStep, Joined
<1>2. main # Rest(10)
  BY AllRest DEF MainStep
<1>3. PICK k \in 1 .. 9 : main = Rest(k)
  BY <1>1, <1>2 DEF OrderlyJobs
<1> QED
  BY <1>3, RestSteps DEF MainStep

LEMMA RestLength ==
  ASSUME NEW k \in 1 .. 10
  PROVE  Len(Rest(k)) = 10 - k /\ Rest(k) # <<"poll">>
<1>1. CASE k \in 1 .. 9
  BY <1>1, RestSteps
<1>2. CASE k = 10
  BY <1>2, AllRest
<1> QED
  BY <1>1, <1>2

\* What has been passed when the main thread is at step k, or gets there.
LEMMA PastSteps ==
  ASSUME NEW k \in 1 .. 10, NEW n \in 1 .. 9
  PROVE  /\ main = Rest(k) => main # <<"poll">> /\ (Past(n) <=> n < k)
         /\ main' = Rest(k) => main' # <<"poll">> /\ (Past(n)' <=> n < k)
<1>1. Len(Rest(k)) = 10 - k /\ Rest(k) # <<"poll">> /\ (10 - k <= 9 - n <=> n < k)
  BY RestLength
<1> QED
  BY <1>1 DEF Past

-----------------------------------------------------------------------------
(* The invariant.                                                          *)

LEMMA InitInv == Init => IInv
<1> SUFFICES ASSUME Init PROVE IInv
  OBVIOUS
<1>1. Types
  <2>1. Flags
    BY DEF Init, Flags
  <2>2. Counts
    BY ConfigurationAssumption DEF Init, Counts
  <2> QED
    BY <2>1, <2>2 DEF Types
<1>2. Tracks
  BY DEF Init, Tracks, InHand
<1>3. OrderlyJobs
  BY DEF Init, OrderlyJobs, Past
<1>4. OrderlyTracks
  BY ConfigurationAssumption DEF Init, OrderlyTracks, Past, InHand
<1> QED
  BY <1>1, <1>2, <1>3, <1>4 DEF IInv

LEMMA FlagsStep == IInv /\ [Next]_vars => Flags'
<1> SUFFICES ASSUME IInv, [Next]_vars PROVE Flags'
  OBVIOUS
<1> USE DEF IInv, Types, Flags
<1>1. CASE AddJob \/ NoMoreCommands
  BY <1>1 DEF AddJob, NoMoreCommands, flags, jobVars, closed, threads
<1>2. CASE JobStep
  BY <1>2 DEF JobStep, BeginJob, EndJob, JobsEnd, flags, closed, threads
<1>3. ASSUME NEW e \in Encoders, EncoderStep(e)
      PROVE  Flags'
  BY <1>3 DEF EncoderStep, NextTrack, PassBarrier, PutPacket, EncoderEnds,
              MissClose, flags, jobVars, closed, threads
<1>4. ASSUME NEW e \in Encoders, BrocaStep(e)
      PROVE  Flags'
  BY <1>4 DEF BrocaStep, TakePacket, BrocaEnds, BrocaFails, flags, jobVars, closed, threads
<1>5. CASE PublisherEnds
  BY <1>5 DEF PublisherEnds, flags, jobVars, closed, threads
<1>6. CASE Signal \/ HandleSignal
  BY <1>6 DEF Signal, HandleSignal, jobVars, closed, threads
<1>7. CASE LeavePoll \/ Watch
  BY <1>7 DEF LeavePoll, Watch, flags, jobVars, closed
<1>8. CASE MainStep \/ WatchdogStep
  BY <1>8 DEF MainStep, WatchdogStep, Closes, flags, jobVars
<1>9. CASE UNCHANGED vars
  BY <1>9 DEF vars, flags, jobVars, closed, threads
<1> QED
  BY <1>1, <1>2, <1>3, <1>4, <1>5, <1>6, <1>7, <1>8, <1>9 DEF Next

LEMMA CountsStep == IInv /\ [Next]_vars => Counts'
<1> SUFFICES ASSUME IInv, [Next]_vars PROVE Counts'
  OBVIOUS
<1> USE ConfigurationAssumption DEF IInv, Types, Counts
<1>1. CASE AddJob \/ NoMoreCommands
  <2>1. UNCHANGED <<handler, jobs, publisher, closing, config, written>>
    BY <1>1 DEF AddJob, NoMoreCommands, flags, jobVars, closed, threads
  <2>2. commands' = commands \/ commands' = "done"
    BY <1>1 DEF AddJob, NoMoreCommands
  <2>3. waiting' \in Nat /\ written + waiting' <= config.jobs
    BY <1>1 DEF AddJob, NoMoreCommands
  <2> QED
    BY <2>1, <2>2, <2>3
<1>2. CASE JobStep
  <2>1. /\ \/ waiting > 0 /\ waiting' = waiting - 1 /\ written' \in {written, written + 1}
           \/ UNCHANGED <<waiting, written>>
        /\ jobs' \in {"waiting", "playing", "done"}
        /\ UNCHANGED <<handler, commands, publisher, closing, config>>
    BY <1>2 DEF JobStep, BeginJob, EndJob, JobsEnd, flags, closed, threads
  <2> QED
    BY <2>1
<1>3. ASSUME NEW e \in Encoders, EncoderStep(e)
      PROVE  Counts'
  BY <1>3 DEF EncoderStep, NextTrack, PassBarrier, PutPacket, EncoderEnds,
              MissClose, flags, jobVars, closed, threads
<1>4. ASSUME NEW e \in Encoders, BrocaStep(e)
      PROVE  Counts'
  BY <1>4 DEF BrocaStep, TakePacket, BrocaEnds, BrocaFails, flags, jobVars, closed, threads
<1>5. CASE PublisherEnds
  BY <1>5 DEF PublisherEnds, flags, jobVars, closed, threads
<1>6. CASE Signal \/ HandleSignal
  <2>1. /\ handler' = 2 \/ (handler > 0 /\ handler' = handler - 1)
        /\ UNCHANGED <<commands, waiting, written, jobs, publisher, closing, config>>
    BY <1>6 DEF Signal, HandleSignal, jobVars, closed, threads
  <2> QED
    BY <2>1
<1>7. CASE LeavePoll \/ Watch
  BY <1>7 DEF LeavePoll, Watch, flags, jobVars, closed
<1>8. CASE MainStep \/ WatchdogStep
  BY <1>8 DEF MainStep, WatchdogStep, Closes, flags, jobVars
<1>9. CASE UNCHANGED vars
  BY <1>9 DEF vars, flags, jobVars, closed, threads
<1> QED
  BY <1>1, <1>2, <1>3, <1>4, <1>5, <1>6, <1>7, <1>8, <1>9 DEF Next

LEMMA TracksStep == IInv /\ [Next]_vars => Tracks'
<1> SUFFICES ASSUME IInv, [Next]_vars PROVE Tracks'
  OBVIOUS
<1> USE DEF IInv
<1>1. CASE UNCHANGED encVars /\ written \in Nat /\ written' \in Nat /\ written' >= written
  BY <1>1 DEF Tracks, InHand, encVars
<1>2. CASE JobStep
  BY <1>1, <1>2 DEF Types, Counts, JobStep, BeginJob, EndJob, JobsEnd
<1>3. ASSUME NEW e \in Encoders, NextTrack(e)
      PROVE  Tracks'
  BY <1>3 DEF Types, Counts, Tracks, InHand, NextTrack, jobVars
<1>4. ASSUME NEW e \in Encoders, PassBarrier(e)
      PROVE  Tracks'
  BY <1>4 DEF Types, Counts, Tracks, InHand, PassBarrier, jobVars
<1>5. ASSUME NEW e \in Encoders, PutPacket(e)
      PROVE  Tracks'
  BY <1>5 DEF Types, Counts, Tracks, InHand, PutPacket, jobVars
<1>6. ASSUME NEW e \in Encoders, EncoderEnds(e)
      PROVE  Tracks'
  BY <1>6 DEF Types, Counts, Tracks, InHand, EncoderEnds, jobVars
<1>7. ASSUME NEW e \in Encoders, TakePacket(e)
      PROVE  Tracks'
  BY <1>7 DEF Types, Counts, Tracks, InHand, TakePacket, jobVars
<1>8. ASSUME NEW e \in Encoders, BrocaEnds(e)
      PROVE  Tracks'
  BY <1>8 DEF Types, Counts, Tracks, InHand, BrocaEnds, jobVars
<1>8a. ASSUME NEW e \in Encoders, BrocaFails(e)
       PROVE  Tracks'
  <2>1. ring' \in [Encoders -> 0 .. 1] /\ \A f \in Encoders : ring'[f] <= ring[f]
    BY <1>8a DEF Tracks, BrocaFails
  <2>2. UNCHANGED <<encoder, heard, played, written>>
    BY <1>8a DEF BrocaFails, jobVars
  <2>3. broca' \in [Encoders -> {"running", "failed", "done"}]
    BY <1>8a DEF Tracks, BrocaFails
  <2> QED
    BY <2>1, <2>2, <2>3 DEF Types, Counts, Tracks, InHand
<1>8b. ASSUME NEW e \in Encoders, MissClose(e)
       PROVE  Tracks'
  BY <1>8b DEF Types, Counts, Tracks, InHand, MissClose, jobVars
<1>9. CASE \/ AddJob \/ NoMoreCommands \/ PublisherEnds \/ Signal \/ HandleSignal
           \/ LeavePoll \/ Watch \/ MainStep \/ WatchdogStep \/ UNCHANGED vars
  <2>1. UNCHANGED <<encVars, written>>
    BY <1>9 DEF AddJob, NoMoreCommands, PublisherEnds, Signal, HandleSignal,
                LeavePoll, Watch, MainStep, WatchdogStep, vars, jobVars
  <2> QED
    BY <1>1, <2>1 DEF Types, Counts
<1> QED
  BY <1>2, <1>3, <1>4, <1>5, <1>6, <1>7, <1>8, <1>8a, <1>8b, <1>9
  DEF Next, EncoderStep, BrocaStep

\* A signal is not taken back.
LEMMA TerminatingStays == Types /\ [Next]_vars /\ terminating => terminating'
<1> SUFFICES ASSUME Types, [Next]_vars, terminating PROVE terminating'
  OBVIOUS
<1>1. CASE LeavePoll
  BY <1>1 DEF LeavePoll
<1>2. CASE ~LeavePoll
  BY <1>2 DEF Next, AddJob, NoMoreCommands, JobStep, BeginJob, EndJob, JobsEnd,
    EncoderStep, NextTrack, PassBarrier, PutPacket, EncoderEnds, MissClose, BrocaStep,
    TakePacket, BrocaEnds, BrocaFails, PublisherEnds, Signal, HandleSignal, Watch, MainStep, WatchdogStep, vars,
    flags
<1> QED
  BY <1>1, <1>2

LEMMA OrderlyJobsStep ==
  ASSUME IInv, [Next]_vars, ~terminating'
  PROVE  OrderlyJobs'
<1>0. Types /\ ~terminating /\ OrderlyJobs
  BY TerminatingStays DEF IInv
<1>1. CASE /\ UNCHANGED <<watchdog, main, jobsClosed, pcmClosed, closing>>
           /\ outOfCommands => outOfCommands'
           /\ (UNCHANGED <<waiting, jobs>> \/ (jobs # "done" /\ jobs' # "done"))
  BY <1>0, <1>1 DEF OrderlyJobs, Past
<1>2. CASE AddJob
  <2>1. jobs # "done" /\ jobs' # "done"
    BY <1>0, <1>2 DEF AddJob, OrderlyJobs, Past
  <2> QED
    BY <1>1, <1>2, <2>1 DEF AddJob, flags, closed, threads
<1>3. CASE JobStep
  <2>1. CASE BeginJob \/ EndJob
    BY <1>1, <2>1 DEF BeginJob, EndJob, flags, closed, threads
  <2>2. CASE JobsEnd
    BY <1>0, <2>2 DEF JobsEnd, OrderlyJobs, Past, flags, closed, threads
  <2> QED
    BY <1>3, <2>1, <2>2 DEF JobStep
<1>4. CASE NoMoreCommands \/ PublisherEnds \/ UNCHANGED vars
  BY <1>1, <1>4 DEF NoMoreCommands, PublisherEnds, vars, flags, jobVars, closed, threads
<1>5. ASSUME NEW e \in Encoders, EncoderStep(e) \/ BrocaStep(e)
      PROVE  OrderlyJobs'
  BY <1>1, <1>5 DEF EncoderStep, NextTrack, PassBarrier, PutPacket, EncoderEnds, MissClose,
                    BrocaStep, TakePacket, BrocaEnds, BrocaFails, flags, jobVars, closed, threads
<1>6. CASE Signal \/ HandleSignal
  BY <1>1, <1>6 DEF Signal, HandleSignal, jobVars, closed, threads
<1>7. CASE LeavePoll
  <2>1. main = <<"poll">> /\ outOfCommands /\ main' = Graceful /\ watchdog' = <<"watch">>
        /\ UNCHANGED <<outOfCommands, jobsClosed, pcmClosed, closing, waiting, jobs>>
    BY <1>7 DEF LeavePoll, jobVars, closed
  <2>2. ~jobsClosed /\ ~pcmClosed /\ closing = {} /\ jobs # "done"
    BY <1>0, <2>1 DEF OrderlyJobs, Past
  <2>3. main' = Rest(1)
    BY <2>1, AllRest
  <2>4. ~Past(2)'
    BY <2>3, PastSteps
  <2> QED
    BY <2>1, <2>2, <2>3, <2>4 DEF OrderlyJobs
<1>8. CASE Watch
  BY <1>0, <1>8 DEF Watch
<1>9. CASE MainStep
  <2>1. PICK k \in 1 .. 9 : /\ main = Rest(k) /\ main' = Rest(k + 1)
                            /\ Joined(Graceful[k]) /\ Closes("main", Graceful[k])
    BY <1>0, <1>9, MainSteps
  <2>2. k + 1 \in 1 .. 10 /\ main # <<"poll">> /\ main' # <<"poll">>
        /\ \A n \in 1 .. 9 : (Past(n) <=> n < k) /\ (Past(n)' <=> n < k + 1)
    BY <2>1, PastSteps
  <2>3. UNCHANGED <<outOfCommands, waiting, jobs, watchdog>>
    BY <1>9 DEF MainStep, flags, jobVars
  <2>4. /\ Graceful[k] = "closeJobs" <=> k = 1
        /\ Graceful[k] = "joinJobs" <=> k = 2
        /\ Graceful[k] = "closePcm" <=> k = 3
        /\ Graceful[k] = "closedPcm" <=> k = 4
    BY GracefulPlaces
  <2>5. /\ jobsClosed' => jobsClosed \/ k = 1
        /\ jobsClosed => jobsClosed'
        /\ pcmClosed' => pcmClosed \/ k = 3
        /\ k = 2 => jobs = "done"
    BY <2>1, <2>4 DEF Closes, Joined
  <2>6. closing' = IF k = 3 THEN closing \cup {"main"}
                   ELSE IF k = 4 THEN closing \ {"main"} ELSE closing
    BY <2>1, <2>4 DEF Closes
  <2>7. jobsClosed' => Past(1)'
    BY <1>0, <2>2, <2>5 DEF OrderlyJobs
  <2>8. Past(2)' => jobs' = "done"
    BY <1>0, <2>2, <2>3, <2>5 DEF OrderlyJobs
  <2>9. pcmClosed' => Past(3)'
    BY <1>0, <2>2, <2>5 DEF OrderlyJobs
  <2>10. closing' # {} => closing' = {"main"} /\ Past(3)'
    BY <1>0, <2>2, <2>6 DEF OrderlyJobs
  <2>11. jobs' = "done" => jobsClosed' /\ waiting' = 0
    BY <1>0, <2>3, <2>5 DEF OrderlyJobs
  <2>12. outOfCommands' /\ watchdog' \in {<<>>, <<"watch">>}
    BY <1>0, <2>2, <2>3 DEF OrderlyJobs
  <2> QED
    BY <2>1, <2>2, <2>7, <2>8, <2>9, <2>10, <2>11, <2>12 DEF OrderlyJobs
<1>10. CASE WatchdogStep
  BY <1>0, <1>10 DEF WatchdogStep, OrderlyJobs, Joined
<1> QED
  BY <1>2, <1>3, <1>4, <1>5, <1>6, <1>7, <1>8, <1>9, <1>10 DEF Next

\* The same for the encoders and brocas.  Nothing more is written once the
\* PCM buffers are closed, and a sink is closed only by its encoder.
LEMMA OrderlyTracksStep ==
  ASSUME IInv, [Next]_vars, ~terminating'
  PROVE  OrderlyTracks'
<1>0. Types /\ Tracks /\ ~terminating /\ OrderlyJobs /\ OrderlyTracks
      /\ config.encoders \subseteq Encoders
  BY TerminatingStays, ConfigurationAssumption DEF IInv, Types, Counts
<1> DEFINE P(e) == /\ encoder[e] = "done" => pcmClosed /\ heard[e] = written
                   /\ sinkClosed[e] => encoder[e] = "done"
                   /\ broca[e] = "done" => sinkClosed[e] /\ ring[e] = 0
                   /\ broca[e] # "failed" => played[e] + ring[e] + InHand(e) = heard[e]
<1>a. OrderlyTracks' <=> /\ \A e \in config'.encoders : P(e)'
                         /\ Past(7)' => \A e \in config'.encoders : broca'[e] # "running"
  BY DEF OrderlyTracks
<1>b. \A e \in config.encoders : P(e)
  BY <1>0 DEF OrderlyTracks
<1>1. CASE /\ UNCHANGED <<encVars, sinkClosed, main, config>>
           /\ pcmClosed => UNCHANGED <<pcmClosed, written>>
  <2>1. \A e \in config'.encoders : P(e)'
    BY <1>b, <1>1 DEF encVars, InHand
  <2> QED
    BY <1>0, <1>1, <1>a, <2>1 DEF encVars, OrderlyTracks, Past
<1>2. CASE JobStep
  <2>1. CASE BeginJob
    <3>1. ~pcmClosed
      <4>1. ~Past(2) /\ (pcmClosed => Past(3))
        BY <1>0, <2>1 DEF BeginJob, OrderlyJobs
      <4>2. main = <<"poll">> \/ \E k \in 1 .. 10 : main = Rest(k)
        BY <1>0 DEF OrderlyJobs
      <4>3. Past(3) => Past(2)
        BY <4>2, PastSteps DEF Past
      <4> QED
        BY <4>1, <4>3
    <3> QED
      BY <1>1, <2>1, <3>1 DEF BeginJob, closed, threads
  <2>2. CASE EndJob \/ JobsEnd
    BY <1>1, <2>2 DEF EndJob, JobsEnd, closed, threads
  <2> QED
    BY <1>2, <2>1, <2>2 DEF JobStep
<1>3. CASE AddJob \/ NoMoreCommands \/ PublisherEnds \/ HandleSignal \/ UNCHANGED vars
  BY <1>1, <1>3
  DEF AddJob, NoMoreCommands, PublisherEnds, HandleSignal, vars, jobVars, closed, threads
<1>4. CASE Signal \/ Watch \/ WatchdogStep
  BY <1>0, <1>4 DEF Signal, Watch, WatchdogStep, OrderlyJobs, Joined
<1>5. ASSUME NEW e \in Encoders, EncoderStep(e) \/ BrocaStep(e),
             UNCHANGED <<main, config, pcmClosed, written>>,
             e \in config.encoders => P(e)' /\ (broca[e] # "running" => broca'[e] # "running"),
             \A f \in Encoders \ {e} :
               /\ encoder'[f] = encoder[f] /\ heard'[f] = heard[f] /\ ring'[f] = ring[f]
               /\ broca'[f] = broca[f] /\ played'[f] = played[f]
               /\ sinkClosed'[f] = sinkClosed[f]
      PROVE  OrderlyTracks'
  <2>1. \A f \in config'.encoders : P(f)'
    BY <1>0, <1>b, <1>5 DEF InHand
  <2>2. Past(7)' => \A f \in config'.encoders : broca'[f] # "running"
    BY <1>0, <1>5 DEF OrderlyTracks, Past
  <2> QED
    BY <1>a, <2>1, <2>2
<1>6. ASSUME NEW e \in Encoders, EncoderStep(e) \/ BrocaStep(e)
      PROVE  OrderlyTracks'
  <2> USE DEF Types, Flags, Counts, Tracks, InHand, jobVars, closed, threads
  <2>1. CASE NextTrack(e)
    BY <1>0, <1>b, <1>5, <1>6, <2>1 DEF NextTrack
  <2>2. CASE PassBarrier(e)
    BY <1>0, <1>b, <1>5, <1>6, <2>2 DEF PassBarrier
  <2>3. CASE PutPacket(e)
    BY <1>0, <1>b, <1>5, <1>6, <2>3 DEF PutPacket
  <2>4. CASE EncoderEnds(e)
    BY <1>0, <1>b, <1>5, <1>6, <2>4 DEF EncoderEnds
  <2>5. CASE TakePacket(e)
    BY <1>0, <1>b, <1>5, <1>6, <2>5 DEF TakePacket
  <2>6. CASE BrocaEnds(e)
    BY <1>0, <1>b, <1>5, <1>6, <2>6 DEF BrocaEnds
  <2>7. CASE MissClose(e)
    BY <1>0, <1>b, <1>5, <1>6, <2>7 DEF MissClose
  <2>8. CASE BrocaFails(e)
    BY <1>0, <1>b, <1>5, <1>6, <2>8 DEF BrocaFails
  <2> QED
    BY <1>6, <2>1, <2>2, <2>3, <2>4, <2>5, <2>6, <2>7, <2>8 DEF EncoderStep, BrocaStep
<1>7. CASE LeavePoll
  <2>1. main' = Graceful /\ UNCHANGED <<encVars, sinkClosed, config, pcmClosed, written>>
    BY <1>7 DEF LeavePoll, jobVars, closed
  <2>2. ~Past(7)'
    BY <2>1, AllRest, PastSteps
  <2>3. \A e \in config'.encoders : P(e)'
    BY <1>b, <2>1 DEF encVars, InHand
  <2> QED
    BY <1>a, <2>2, <2>3
<1>8. CASE MainStep
  <2>1. PICK k \in 1 .. 9 : /\ main = Rest(k) /\ main' = Rest(k + 1)
                            /\ Joined(Graceful[k]) /\ Closes("main", Graceful[k])
    BY <1>0, <1>8, MainSteps
  <2>2. /\ Graceful[k] # "closeSinks" /\ (Graceful[k] = "joinBrocas" <=> k = 7)
        /\ (Past(7) <=> 7 < k) /\ (Past(7)' <=> 7 < k + 1)
    BY <2>1, GracefulPlaces, PastSteps
  <2>3. UNCHANGED <<encVars, config, written>>
    BY <1>8 DEF MainStep, jobVars
  <2>4. pcmClosed => pcmClosed'
    BY <2>1 DEF Closes
  <2>5. \A e \in Encoders : sinkClosed'[e] <=> sinkClosed[e]
    BY <2>1, <2>2 DEF Closes
  <2>6. \A e \in config'.encoders : P(e)'
    BY <1>0, <1>b, <2>3, <2>4, <2>5 DEF encVars, InHand
  <2>7. Past(7)' => \A e \in config'.encoders : broca'[e] # "running"
    BY <1>0, <2>1, <2>2, <2>3 DEF OrderlyTracks, Joined, encVars
  <2> QED
    BY <1>a, <2>6, <2>7
<1> QED
  BY <1>2, <1>3, <1>4, <1>6, <1>7, <1>8 DEF Next

LEMMA Invariance == Spec => []IInv
<1>1. IInv /\ [Next]_vars => IInv'
  BY FlagsStep, CountsStep, TracksStep, OrderlyJobsStep, OrderlyTracksStep DEF IInv, Types
<1> QED
  BY InitInv, <1>1, PTL DEF Spec

-----------------------------------------------------------------------------
(* The theorems.                                                           *)

\* When run() has returned and no signal came, no job is left over and every
\* broca that did not fail has taken the packets of every track, whichever
\* encoders share a barrier and however far apart they were.
THEOREM ServerEverythingPlayed == Spec => []EverythingPlayed
<1>1. IInv => TypeOK
  <2> SUFFICES ASSUME IInv PROVE TypeOK
    OBVIOUS
  <2>1. /\ heard \in [Encoders -> 0 .. config.jobs] /\ played \in [Encoders -> 0 .. config.jobs]
        /\ waiting \in 0 .. config.jobs /\ written \in 0 .. config.jobs
        /\ \A e \in Encoders : played[e] + ring[e] <= heard[e] /\ heard[e] <= written
    BY ConfigurationAssumption DEF IInv, Types, Counts, Tracks, InHand
  <2> QED
    BY <2>1 DEF IInv, Types, Flags, Counts, Tracks, TypeOK
<1>2. ASSUME IInv, Ended, ~terminating
      PROVE  /\ waiting = 0
             /\ \A e \in config.encoders :
                  broca[e] # "failed" => played[e] = written /\ ring[e] = 0
  <2>1. Past(2) /\ Past(7)
    BY <1>2 DEF Ended, Past
  <2>2. waiting = 0
    BY <1>2, <2>1 DEF IInv, OrderlyJobs
  <2>3. ASSUME NEW e \in config.encoders, broca[e] # "failed"
        PROVE  played[e] = written /\ ring[e] = 0
    <3>1. e \in Encoders
      BY <1>2, ConfigurationAssumption DEF IInv, Types, Counts
    <3>2. broca[e] = "done"
      BY <1>2, <2>1, <2>3, <3>1 DEF IInv, Tracks, OrderlyTracks
    <3>3. ring[e] = 0 /\ encoder[e] = "done" /\ heard[e] = written
      BY <1>2, <3>2 DEF IInv, OrderlyTracks
    <3>4. played[e] + ring[e] + InHand(e) = heard[e]
      BY <1>2, <2>3 DEF IInv, OrderlyTracks
    <3> QED
      BY <1>2, <3>1, <3>3, <3>4 DEF IInv, Tracks, InHand
  <2> QED
    BY <2>2, <2>3
<1>3. IInv => EverythingPlayed
  BY <1>1, <1>2 DEF EverythingPlayed
<1> QED
  BY Invariance, <1>3, PTL

\* While the program ends in order, PcmSplitter::close() runs in one thread
\* at most and beside no job, although no lock protects the list of buffers.
THEOREM ServerBuffersExclusive == Spec => []BuffersExclusive
<1>1. IInv => BuffersExclusive
  <2> SUFFICES ASSUME IInv, closing # {}, ~terminating
               PROVE  Cardinality(closing) = 1 /\ jobs # "playing"
    BY DEF BuffersExclusive
  <2>1. closing = {"main"} /\ Past(3) /\ (Past(2) => jobs = "done")
    BY DEF IInv, OrderlyJobs
  <2>2. Past(3) => Past(2)
    BY PastSteps DEF IInv, OrderlyJobs, Past
  <2>3. Cardinality({"main"}) = 1
    BY FS_Singleton
  <2> QED
    BY <2>1, <2>2, <2>3
<1> QED
  BY Invariance, <1>1, PTL

=============================================================================
