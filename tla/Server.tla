------------------------------- MODULE Server -------------------------------
(***************************************************************************)
(* exo::Server: how the threads of the program come to their end.  The     *)
(* main thread waits until there are no more commands, and then, after a   *)
(* quit command, waits for the jobs, the encoders and the brocas, or,      *)
(* after a signal, cuts them short and waits for them all the same.  A     *)
(* watchdog thread does the cutting if a signal comes during the former.   *)
(*                                                                         *)
(* The job threads, the PCM buffers, the barrier and the packet rings are  *)
(* modelled in modules of their own; here each is reduced to what the      *)
(* shutdown needs of it.  The job threads are one thread, which begins a   *)
(* track per job; an encoder goes through the tracks, meets the others in  *)
(* the barrier at each, and writes one packet for it into its sink, which  *)
(* has room for one; a broca takes the packets and ends when its source is *)
(* closed and drained, or when it fails.                                   *)
(***************************************************************************)
EXTENDS Naturals, FiniteSets, Sequences

CONSTANTS Encoders,        \* each with one broca
          Configurations   \* the programs to look at: which encoders there are,
                           \* which of them share a barrier, which have a broca
                           \* that may fail, whether a signal may come, and a
                           \* bound: the jobs created

ASSUME ConfigurationAssumption ==
  /\ Configurations \subseteq
       [encoders : SUBSET Encoders, shared : SUBSET Encoders, failing : SUBSET Encoders,
        signals : BOOLEAN, jobs : Nat]
  /\ \A c \in Configurations : c.shared \subseteq c.encoders

VARIABLES
  config,       \* the program this is
  terminating, outOfCommands, received,   \* the flags of the same names
  handler,      \* the signal handler: steps left, 0 before and after
  commands,     \* the command reader: "reading" or "done"
  waiting,      \* jobs accepted and not begun
  jobs,         \* the job thread: "waiting", "playing" or "done"
  written,      \* tracks written to the PCM buffers
  encoder,      \* per encoder: "loop", "barrier", "packet", "asleep" or "done"
  heard,        \* per encoder: tracks it has come to
  ring,         \* per encoder: packets in its sink
  broca,        \* per encoder: its broca, "running", "failed" or "done"
  played,       \* per encoder: packets its broca has taken
  publisher,    \* "running" or "done"
  jobsClosed, pcmClosed, freed, sinkClosed, publisherClosed,
  closing,      \* threads inside PcmSplitter::close()
  main, watchdog   \* the steps these threads have left

flags   == <<terminating, outOfCommands, received, handler>>
jobVars == <<commands, waiting, jobs, written>>
encVars == <<encoder, heard, ring, broca, played>>
closed  == <<jobsClosed, pcmClosed, freed, sinkClosed, publisherClosed, closing>>
threads == <<main, watchdog, config>>
vars    == <<flags, jobVars, encVars, publisher, closed, threads>>

\* Seeded fault: the encoders are not closed.
Quit_NoSinks == <<"closePcm", "closedPcm", "closePublisher">>

\* Seeded fault: the PCM buffers are not closed.
Quit_NoPcm == <<"closeSinks", "closePublisher">>

\* quit(), which closes what the other threads wait for.
Quit     == <<"closePcm", "closedPcm", "closeSinks", "closePublisher">>

\* Seeded fault: the sinks are closed before the encoders are done.
Graceful_ClosesSinks == <<"closeJobs", "joinJobs", "closePcm", "closedPcm", "free", "closeSinks",
              "joinEncoders", "joinBrocas", "closePublisher", "joinPublisher">>

\* Seeded fault: the PCM buffers are closed before the jobs have finished.
Graceful_PcmFirst == <<"closeJobs", "closePcm", "closedPcm", "joinJobs", "free",
              "joinEncoders", "joinBrocas", "closePublisher", "joinPublisher">>

\* Seeded fault: the PCM buffers are closed once the encoders have ended.
Graceful_PcmLate == <<"closeJobs", "joinJobs", "free", "joinEncoders", "closePcm", "closedPcm",
              "joinBrocas", "closePublisher", "joinPublisher">>

\* Seeded fault: the barriers are not freed.
Graceful_NoFree == <<"closeJobs", "joinJobs", "closePcm", "closedPcm",
              "joinEncoders", "joinBrocas", "closePublisher", "joinPublisher">>

\* run() after a quit command ...
Graceful == <<"closeJobs", "joinJobs", "closePcm", "closedPcm", "free",
              "joinEncoders", "joinBrocas", "closePublisher", "joinPublisher">>
\* ... and after a signal.
CutShort == Quit \o <<"closeJobs", "joinJobs", "joinEncoders", "joinBrocas", "joinPublisher">>

Init ==
  /\ config \in Configurations
  /\ terminating = FALSE /\ outOfCommands = FALSE /\ received = FALSE /\ handler = 0
  /\ commands = "reading" /\ waiting = 0 /\ jobs = "waiting" /\ written = 0
  /\ encoder = [e \in Encoders |-> IF e \in config.encoders THEN "loop" ELSE "done"]
  /\ heard = [e \in Encoders |-> 0]
  /\ ring = [e \in Encoders |-> 0]
  /\ broca = [e \in Encoders |-> IF e \in config.encoders THEN "running" ELSE "done"]
  /\ played = [e \in Encoders |-> 0]
  /\ publisher = "running"
  /\ jobsClosed = FALSE /\ pcmClosed = FALSE /\ freed = FALSE
  /\ sinkClosed = [e \in Encoders |-> FALSE] /\ publisherClosed = FALSE /\ closing = {}
  /\ main = <<"poll">> /\ watchdog = <<>>

-----------------------------------------------------------------------------
(* Commands and jobs.                                                      *)

AddJob ==
  /\ commands = "reading" /\ ~outOfCommands
  /\ written + waiting < config.jobs
  /\ waiting' = waiting + 1
  /\ UNCHANGED <<flags, commands, jobs, written, encVars, publisher, closed, threads>>

\* A quit command, or the first command after a signal.
NoMoreCommands ==
  /\ commands = "reading"
  /\ commands' = "done"
  /\ outOfCommands' = TRUE
  /\ UNCHANGED <<terminating, received, handler, waiting, jobs, written, encVars, publisher,
                 closed, threads>>

\* What a job writes once the buffers are closed goes nowhere.
BeginJob ==
  /\ jobs = "waiting" /\ waiting > 0 /\ ~terminating
  /\ jobs' = "playing"
  /\ waiting' = waiting - 1
  /\ written' = IF pcmClosed THEN written ELSE written + 1
  /\ UNCHANGED <<flags, commands, encVars, publisher, closed, threads>>

EndJob ==
  /\ jobs = "playing"
  /\ jobs' = "waiting"
  /\ UNCHANGED <<flags, commands, waiting, written, encVars, publisher, closed, threads>>

\* get() returns nothing once the queue is closed and empty; after a signal
\* the loop may end sooner.
JobsEnd ==
  /\ jobs = "waiting"
  /\ terminating \/ (jobsClosed /\ waiting = 0)
  /\ jobs' = "done"
  /\ UNCHANGED <<flags, commands, waiting, written, encVars, publisher, closed, threads>>

-----------------------------------------------------------------------------
(* Encoders, brocas and the publisher.                                     *)

NextTrack(e) ==
  /\ encoder[e] = "loop" /\ ~terminating
  /\ heard[e] < written
  /\ heard' = [heard EXCEPT ![e] = @ + 1]
  /\ encoder' = [encoder EXCEPT ![e] = IF e \in config.shared THEN "barrier" ELSE "packet"]
  /\ UNCHANGED <<flags, jobVars, ring, broca, played, publisher, closed, threads>>

PassBarrier(e) ==
  /\ encoder[e] = "barrier"
  /\ freed \/ \A f \in config.shared : heard[f] >= heard[e]
  /\ encoder' = [encoder EXCEPT ![e] = "packet"]
  /\ UNCHANGED <<flags, jobVars, heard, ring, broca, played, publisher, closed, threads>>

\* The packet is lost if the sink is closed.
PutPacket(e) ==
  /\ encoder[e] = "packet"
  /\ ring[e] = 0 \/ sinkClosed[e]
  /\ encoder' = [encoder EXCEPT ![e] = "loop"]
  /\ ring' = IF sinkClosed[e] THEN ring ELSE [ring EXCEPT ![e] = 1]
  /\ UNCHANGED <<flags, jobVars, heard, broca, played, publisher, closed, threads>>

\* The encoder has read everything, or leaves its loop early after a signal.
EncoderEnds(e) ==
  /\ encoder[e] = "loop"
  /\ terminating \/ (pcmClosed /\ heard[e] = written)
  /\ encoder' = [encoder EXCEPT ![e] = "done"]
  /\ sinkClosed' = [sinkClosed EXCEPT ![e] = TRUE]
  /\ UNCHANGED <<flags, jobVars, heard, ring, broca, played, publisher,
                 jobsClosed, pcmClosed, freed, publisherClosed, closing, threads>>

\* PcmBuffer::close() does not take the mutex: an encoder that has found
\* nothing to read and is about to sleep misses it, and sleeps for good, as the
\* list of buffers is empty when close() is called again.
MissClose(e) ==
  /\ closing # {}
  /\ encoder[e] = "loop" /\ heard[e] = written
  /\ encoder' = [encoder EXCEPT ![e] = "asleep"]
  /\ UNCHANGED <<flags, jobVars, heard, ring, broca, played, publisher, closed, threads>>

TakePacket(e) ==
  /\ broca[e] = "running" /\ ring[e] > 0
  /\ ring' = [ring EXCEPT ![e] = 0]
  /\ played' = [played EXCEPT ![e] = @ + 1]
  /\ UNCHANGED <<flags, jobVars, encoder, heard, broca, publisher, closed, threads>>

BrocaEnds(e) ==
  /\ broca[e] = "running"
  /\ terminating \/ (sinkClosed[e] /\ ring[e] = 0)
  /\ broca' = [broca EXCEPT ![e] = "done"]
  /\ UNCHANGED <<flags, jobVars, encoder, heard, ring, played, publisher, closed, threads>>

\* A file that cannot be written to: the broca ends in the middle of a packet,
\* of which something may be left in the sink, and leaves the sink open.
BrocaFails(e) ==
  /\ e \in config.failing
  /\ broca[e] = "running" /\ ring[e] > 0
  /\ broca' = [broca EXCEPT ![e] = "failed"]
  /\ ring' \in {ring, [ring EXCEPT ![e] = 0]}
  /\ UNCHANGED <<flags, jobVars, encoder, heard, played, publisher, closed, threads>>

PublisherEnds ==
  /\ publisher = "running" /\ publisherClosed
  /\ publisher' = "done"
  /\ UNCHANGED <<flags, jobVars, encVars, closed, threads>>

-----------------------------------------------------------------------------
(* Signals.                                                                *)

\* The handler sets its three flags one after the other; it is not installed
\* a second time.
Signal ==
  /\ config.signals /\ ~terminating
  /\ terminating' = TRUE
  /\ handler' = 2
  /\ UNCHANGED <<outOfCommands, received, jobVars, encVars, publisher, closed, threads>>

HandleSignal ==
  /\ handler > 0
  /\ handler' = handler - 1
  /\ outOfCommands' = TRUE
  /\ received' = (handler = 1)
  /\ UNCHANGED <<terminating, jobVars, encVars, publisher, closed, threads>>

-----------------------------------------------------------------------------
(* The main thread and the watchdog.                                       *)

\* The main thread leaves its loop, and starts the watchdog unless a signal
\* has come.
LeavePoll ==
  /\ main = <<"poll">> /\ outOfCommands
  /\ terminating' = (terminating \/ received)
  /\ main' = IF terminating' THEN CutShort ELSE Graceful
  /\ watchdog' = IF terminating' THEN <<>> ELSE <<"watch">>
  /\ UNCHANGED <<outOfCommands, received, handler, jobVars, encVars, publisher, closed, config>>

\* The watchdog has seen terminating_.
Watch ==
  /\ watchdog = <<"watch">> /\ terminating
  /\ watchdog' = Quit
  /\ UNCHANGED <<flags, jobVars, encVars, publisher, closed, main, config>>

\* Whether a thread can go past a step: it waits for those it joins.
Joined(step) ==
  /\ step \notin {"poll", "watch"}
  /\ step = "joinJobs" => jobs = "done"
  /\ step = "joinEncoders" => \A e \in Encoders : encoder[e] = "done"
  /\ step = "joinBrocas" => \A e \in Encoders : broca[e] # "running"
  /\ step = "joinPublisher" => publisher = "done"

\* What thread t closes in a step.
Closes(t, step) ==
  /\ jobsClosed' = (jobsClosed \/ step = "closeJobs")
  /\ pcmClosed' = (pcmClosed \/ step = "closePcm")
  /\ closing' = CASE step = "closePcm"  -> closing \cup {t}
                  [] step = "closedPcm" -> closing \ {t}
                  [] OTHER -> closing
  /\ freed' = (freed \/ step = "free")
  /\ sinkClosed' = [e \in Encoders |-> sinkClosed[e] \/ step = "closeSinks"]
  /\ publisherClosed' = (publisherClosed \/ step = "closePublisher")

MainStep ==
  /\ main # <<>> /\ Joined(Head(main))
  /\ Closes("main", Head(main))
  /\ main' = Tail(main)
  /\ UNCHANGED <<flags, jobVars, encVars, publisher, watchdog, config>>

WatchdogStep ==
  /\ watchdog # <<>> /\ Joined(Head(watchdog))
  /\ Closes("watchdog", Head(watchdog))
  /\ watchdog' = Tail(watchdog)
  /\ UNCHANGED <<flags, jobVars, encVars, publisher, main, config>>

-----------------------------------------------------------------------------
JobStep     == BeginJob \/ EndJob \/ JobsEnd
EncoderStep(e) ==
  NextTrack(e) \/ PassBarrier(e) \/ PutPacket(e) \/ EncoderEnds(e) \/ MissClose(e)
BrocaStep(e)   == TakePacket(e) \/ BrocaEnds(e) \/ BrocaFails(e)
Ended == main = <<>>

Next ==
  \/ AddJob \/ NoMoreCommands
  \/ JobStep
  \/ \E e \in Encoders : EncoderStep(e) \/ BrocaStep(e)
  \/ PublisherEnds
  \/ Signal \/ HandleSignal
  \/ LeavePoll \/ Watch \/ MainStep \/ WatchdogStep

\* Every thread is scheduled again and again, and a handler runs to its end.
\* Nobody has to send a signal, no broca has to fail, no encoder to miss close().
\* After a signal a blocked thread need not leave its loop before what it
\* waits on is closed.
Fairness ==
  /\ WF_vars(BeginJob) /\ WF_vars(EndJob) /\ WF_vars(JobsEnd /\ jobsClosed)
  /\ \A e \in Encoders :
       /\ WF_vars(NextTrack(e)) /\ WF_vars(PassBarrier(e)) /\ WF_vars(PutPacket(e))
       /\ WF_vars(EncoderEnds(e) /\ pcmClosed)
       /\ WF_vars(BrocaEnds(e) /\ sinkClosed[e])
       /\ WF_vars(TakePacket(e) /\ ~terminating)
  /\ WF_vars(PublisherEnds) /\ WF_vars(HandleSignal)
  /\ WF_vars(LeavePoll) /\ WF_vars(Watch) /\ WF_vars(MainStep) /\ WF_vars(WatchdogStep)

Spec == Init /\ [][Next]_vars /\ Fairness

-----------------------------------------------------------------------------
(* Properties.                                                             *)

\* Every variable holds what its declaration says; a sink never holds more
\* than it has room for, and a broca has never taken a packet of a track that
\* its encoder has not come to.
TypeOK ==
  /\ {terminating, outOfCommands, received, jobsClosed, pcmClosed, freed,
      publisherClosed} \subseteq BOOLEAN
  /\ sinkClosed \in [Encoders -> BOOLEAN]
  /\ handler \in 0 .. 2 /\ commands \in {"reading", "done"}
  /\ waiting \in 0 .. config.jobs /\ written \in 0 .. config.jobs
  /\ jobs \in {"waiting", "playing", "done"}
  /\ encoder \in [Encoders -> {"loop", "barrier", "packet", "asleep", "done"}]
  /\ broca \in [Encoders -> {"running", "failed", "done"}] /\ publisher \in {"running", "done"}
  /\ ring \in [Encoders -> 0 .. 1]
  /\ heard \in [Encoders -> 0 .. config.jobs]
  /\ played \in [Encoders -> 0 .. config.jobs]
  /\ \A e \in Encoders : played[e] + ring[e] <= heard[e] /\ heard[e] <= written
  /\ closing \subseteq {"main", "watchdog"}
  /\ config \in Configurations

\* "quit" lets every preceding command complete and every encoder and broca
\* play all of it: when run() has returned and no signal came, no job is left
\* over and each broca that did not fail has taken the packets of every track.
EverythingPlayed ==
  /\ TypeOK
  /\ Ended /\ ~terminating =>
       /\ waiting = 0
       /\ \A e \in config.encoders : broca[e] # "failed" => played[e] = written /\ ring[e] = 0

\* The list of PCM buffers is not protected by a lock: PcmSplitter::close()
\* goes through it and empties it, and so, while the program ends in order, it
\* must not run while another thread is in it, nor while a job goes through the
\* list to write to the buffers.
BuffersExclusive ==
  closing # {} /\ ~terminating => Cardinality(closing) = 1 /\ jobs # "playing"

\* e waits for room in the sink of a broca that has failed.
Blocked(e) ==
  encoder[e] = "packet" /\ ring[e] > 0 /\ broca[e] = "failed" /\ ~sinkClosed[e]

\* e waits for what cannot come any more: it missed close(), or it is in a
\* barrier that nobody is going to free, with one that has gone.
Stranded(e) ==
  \/ encoder[e] = "asleep"
  \/ /\ encoder[e] = "barrier" /\ ~freed
     /\ main # <<"poll">> /\ \A i \in DOMAIN main : main[i] # "free"
     /\ \E f \in config.shared : encoder[f] \in {"asleep", "done"} /\ heard[f] < heard[e]

\* A quit command ends the program, whatever encoders and brocas still have
\* to read and wherever they wait for each other, unless a failed broca blocks
\* an encoder.  A signal ends it even so, and at any moment of its life, during
\* an orderly shutdown too: only an encoder that missed close() or that is left
\* in a barrier can keep run() from returning.
ProgramEnds ==
  commands = "done" \/ terminating ~>
    \/ Ended
    \/ \E e \in Encoders : Stranded(e)
    \/ ~terminating /\ \E e \in Encoders : Blocked(e)

\* A failure stays with the output that it happened to: after a quit command
\* or a signal every broca comes to its end unless its own encoder is
\* stranded, although others may have failed and their encoders may be blocked
\* before they come to the barrier that all of them share.
FailureStaysLocal ==
  commands = "done" \/ terminating ~>
    \A e \in Encoders : broca[e] # "running" \/ Stranded(e)

=============================================================================
