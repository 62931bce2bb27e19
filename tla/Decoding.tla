------------------------------ MODULE Decoding ------------------------------
(***************************************************************************)
(* The shell together with the jobs it creates: the workers of the job     *)
(* queue take them, open their files and play them one at a time into the  *)
(* PcmSplitter.  silence and testcard make blocks of samples; lavc reads   *)
(* packets, decodes them into frames, and passes these through a filter    *)
(* graph or a resampler, each of which may hold some back until the end.   *)
(*                                                                         *)
(* libav is external: a call may fail whenever it can, and a decoder or a  *)
(* filter gives what it holds when it likes, but all of it when flushed.   *)
(***************************************************************************)
EXTENDS Shell, LavcTrack

CONSTANTS Media,    \* the media files: a function of their paths
          Workers   \* JOB_WORKER_COUNT

ASSUME WorkersAssumption == Workers \in Nat \ {0}
ASSUME MediaAssumption == \A path \in DOMAIN Media : Media[path].packets \in Seq(BOOLEAN)

VARIABLES
  build,            \* the build, which does not change
  testing, asking,  \* how many workers are at shouldRun(), and how many in get()
  taken,            \* the jobs that workers have opened, the first is played
  play,             \* where run() of that job is
  written           \* what has been passed to the splitter

playVars == <<build, testing, asking, taken, play, written>>
vars     == <<shellVars, playVars>>

\* read, decode, filter: the loop of run() and the loops in it; drain, eof,
\* last: what follows it; blocks: the loop of silence and testcard.
Steps == {"idle", "read", "decode", "filter", "drain", "eof", "last", "blocks"}

\* The packets or blocks that are left, the frames in the decoder and in the
\* filter graph or resampler, and which of these have been told of the end.
NoPlay == [step |-> "idle", left |-> 0, codec |-> <<>>, graph |-> <<>>,
           draining |-> FALSE, flushed |-> {}]

DecodingInit ==
  /\ Init
  /\ build \in Builds
  /\ testing = 0 /\ asking = 0 /\ taken = <<>>
  /\ play = NoPlay /\ written = <<>>

\* Server::run() starts the workers and the thread that reads commands.
StartServer == Start /\ testing' = Workers /\ UNCHANGED <<build, asking, taken, play, written>>

-----------------------------------------------------------------------------
(* JobQueue::runJobs: a worker tests whether to go on, waits for a job,    *)
(* opens it and waits until the one before has been played.                *)

Ask ==
  /\ phase = "running" /\ testing > 0
  /\ testing' = testing - 1
  /\ asking' = IF terminating THEN asking ELSE asking + 1
  /\ UNCHANGED <<shellVars, build, taken, play, written>>

Params(job) == PartConfig(Key(Decoders, Name(heard[job.command])))

\* LavcDecodeJob::init(), up to the failure that leaves canPlay_ unset.
Open(job, opens) ==
  IF job.path \notin DOMAIN Media \/ ~opens
  THEN [job |-> job, opened |-> job.blocks > 0, metadata |-> <<>>, gain |-> <<>>]
  ELSE LET media == Media[job.path]
       IN  [job |-> job, opened |-> TRUE,
            metadata |-> Metadata(Params(job), media, job.added),
            gain     |-> OpenedGain(build, Params(job), media)]

TakeJob ==
  /\ phase = "running" /\ asking > 0 /\ jobs # <<>>
  /\ jobs' = Tail(jobs) /\ asking' = asking - 1
  /\ \/ taken' = Append(taken, Open(Head(jobs), TRUE)) /\ UNCHANGED failures
     \/ /\ Head(jobs).path \in DOMAIN Media /\ Fails
        /\ taken' = Append(taken, Open(Head(jobs), FALSE))
  /\ UNCHANGED <<named, file, phase, server, lines, eof, answers, heard, reader, line,
                 outOfCommands, terminating, closed, build, testing, play, written>>

\* get() returns nothing once the queue is closed and empty.
Leave ==
  /\ phase = "running" /\ asking > 0 /\ jobs = <<>> /\ closed
  /\ asking' = asking - 1
  /\ UNCHANGED <<shellVars, build, testing, taken, play, written>>

-----------------------------------------------------------------------------
(* run() of a job.                                                         *)

At(step) == phase = "running" /\ play.step = step

\* Seeded fault: nothing makes a job wait until the one before has been played.
Current_Newest == taken[Len(taken)]

Current == Head(taken)

\* What a step of run() leaves alone.
Only == UNCHANGED <<named, file, phase, server, lines, eof, answers, heard, reader, line,
                    outOfCommands, terminating, queueVars, build>>

Silently == Only /\ UNCHANGED <<failures, testing, asking, taken, written>>

Failing == Only /\ Fails /\ UNCHANGED <<testing, asking, taken, written>>

\* PcmSplitter::pcm(): frames, each with the command it belongs to.
Pcm(frames) ==
  /\ written' = written \o [i \in DOMAIN frames |->
                  [command |-> Current.job.command, metadata |-> <<>>, frame |-> frames[i]]]
  /\ Only /\ UNCHANGED <<failures, testing, asking, taken>>

\* The worker is done with the job and tests whether to go on.
EndJob ==
  /\ taken' = Tail(taken) /\ testing' = testing + 1 /\ play' = NoPlay
  /\ Only /\ UNCHANGED <<failures, asking, written>>

\* A job that could not be opened is not even acknowledged.
Skip ==
  /\ At("idle") /\ taken # <<>> /\ ~Current.opened
  /\ EndJob

\* run() passes on the metadata, after a signal as well.
Begin ==
  /\ At("idle") /\ taken # <<>> /\ Current.opened
  /\ written' = Append(written, [command |-> Current.job.command,
                                 metadata |-> Current.metadata, frame |-> 0])
  /\ play' = IF Current.job.blocks > 0
             THEN [NoPlay EXCEPT !.step = "blocks", !.left = Current.job.blocks]
             ELSE [NoPlay EXCEPT !.step = "read",
                                 !.left = Len(Media[Current.job.path].packets)]
  /\ Only /\ UNCHANGED <<failures, testing, asking, taken>>

Block ==
  /\ At("blocks") /\ ~terminating /\ play.left > 0
  /\ play' = [play EXCEPT !.left = @ - 1]
  /\ Pcm(<<Current.job.blocks - play.left + 1>>)

EndBlocks ==
  /\ At("blocks") /\ (terminating \/ play.left = 0)
  /\ EndJob

Packets == Media[Current.job.path].packets

\* The next packet that av_read_frame() gives, which carries the frame of the
\* same number if it is of the audio stream.
Packet == Len(Packets) - play.left + 1

\* The loop over packets ends: at the end of the file, at a packet that is
\* not read or sent without an error, and with the packet read after a signal.
StopReading ==
  /\ At("read")
  /\ play' = [play EXCEPT !.step = "drain"]
  /\ \/ (play.left = 0 \/ terminating) /\ Silently
     \/ play.left > 0 /\ Failing

ReadPacket ==
  /\ At("read") /\ play.left > 0 /\ ~terminating
  /\ play' = [play EXCEPT !.step = "decode", !.left = @ - 1,
                          !.codec = IF Packets[Packet] THEN Append(@, Packet) ELSE @]
  /\ Silently

\* Where an error in decodeFrames_() leads.
AfterError(p) == [p EXCEPT !.step = IF p.draining THEN "eof" ELSE "drain"]

\* avcodec_receive_frame(): no frame now, or none any more.
NoFrame ==
  /\ At("decode")
  /\ "codec" \in play.flushed => play.codec = <<>>
  /\ play' = [play EXCEPT !.step = IF play.draining THEN "eof" ELSE "read"]
  /\ Silently

\* Decoding fails, or a frame that is received is not taken by the filter or
\* not converted, and is lost.
DecodeFails ==
  /\ At("decode")
  /\ \/ play' = AfterError(play)
     \/ play.codec # <<>> /\ play' = AfterError([play EXCEPT !.codec = Tail(@)])
  /\ Failing

\* A frame that is received after a signal is lost.
Interrupted ==
  /\ At("decode") /\ play.codec # <<>> /\ terminating
  /\ play' = AfterError([play EXCEPT !.codec = Tail(@)])
  /\ Silently

Received == Head(play.codec)

\* av_buffersrc_add_frame_flags()
FilterFrame ==
  /\ build = "filter" /\ At("decode") /\ play.codec # <<>> /\ ~terminating
  /\ play' = [play EXCEPT !.step = "filter", !.codec = Tail(@),
                          !.graph = Append(@, Received)]
  /\ Silently

\* processFrame_(): the resampler gives some of what it has.
ResampleFrame ==
  /\ build = "swr" /\ At("decode") /\ play.codec # <<>> /\ ~terminating
  /\ LET frames == Append(play.graph, Received)
     IN  \E n \in 0 .. Len(frames) :
           /\ play' = [play EXCEPT !.codec = Tail(@),
                                   !.graph = SubSeq(frames, n + 1, Len(frames))]
           /\ Pcm(SubSeq(frames, 1, n))

\* filterFrames_(): a frame from the graph is passed on.
Filtered ==
  /\ At("filter") /\ ~terminating /\ play.graph # <<>>
  /\ play' = [play EXCEPT !.graph = Tail(@)]
  /\ Pcm(<<Head(play.graph)>>)

\* The graph has nothing now.  After a signal it is not asked, and the value
\* that is returned instead was never set: it may be an error or not.
NoFiltered ==
  /\ At("filter")
  /\ \/ play' = [play EXCEPT !.step = "decode"] /\ Silently
     \/ play' = AfterError(play) /\ (IF terminating THEN Silently ELSE Failing)

\* Seeded fault: the decoder is not told of the end.
Drained_Not(p) == [p EXCEPT !.step = "decode", !.draining = TRUE]

Drained(p) ==
  [p EXCEPT !.step = "decode", !.draining = TRUE, !.flushed = @ \cup {"codec"}]

\* The decoder is told of the end, and the frames that it has are asked for.
Drain ==
  /\ At("drain")
  /\ \/ play' = Drained(play) /\ Silently
     \/ play' = [play EXCEPT !.step = "decode", !.draining = TRUE] /\ Failing

\* The graph or the resampler is told of the end.
Flush ==
  /\ At("eof")
  /\ \/ play' = [play EXCEPT !.step = "last", !.flushed = @ \cup {"graph"}] /\ Silently
     \/ play' = [play EXCEPT !.step = "last"] /\ Failing

\* flush_(): the graph gives its frames one by one until a signal comes, the
\* resampler all of them at once.
LastFrame ==
  /\ At("last") /\ play.graph # <<>>
  /\ \/ /\ build = "filter" /\ ~terminating
        /\ play' = [play EXCEPT !.graph = Tail(@)]
        /\ Pcm(<<Head(play.graph)>>)
     \/ /\ build = "swr"
        /\ play' = [play EXCEPT !.graph = <<>>]
        /\ Pcm(play.graph)

EndTrack ==
  /\ At("last")
  /\ \/ play.graph = <<>> \/ "graph" \notin play.flushed
     \/ build = "filter" /\ terminating
  /\ EndJob

\* The graph or the resampler fails at the end, and what it has is lost.
LastFails ==
  /\ At("last") /\ play.graph # <<>>
  /\ play' = [play EXCEPT !.graph = <<>>]
  /\ Failing

Play ==
  \/ Skip \/ Begin \/ Block \/ EndBlocks
  \/ StopReading \/ ReadPacket
  \/ NoFrame \/ DecodeFails \/ Interrupted \/ FilterFrame \/ ResampleFrame
  \/ Filtered \/ NoFiltered
  \/ Drain \/ Flush \/ LastFrame \/ EndTrack \/ LastFails

-----------------------------------------------------------------------------
(* The program.                                                            *)

\* The thread that reads commands, but for the answers of servers.
ReadCommands ==
  \/ Loop \/ NoMoreLines \/ FileEnds \/ FileFails \/ ReadLine
  \/ Got \/ Stop \/ Forget \/ Abort \/ Create \/ AddJob

\* stop() returns when every worker has left its loop.
MainEnds == End /\ testing = 0 /\ asking = 0 /\ taken = <<>>

Main == HandleSignal \/ CloseJobs \/ MainEnds

Next ==
  \/ StartServer
  \/ (Exit \/ ReadCommands \/ Receive \/ ReceiveNothing \/ Signal \/ Main)
       /\ UNCHANGED playVars
  \/ Ask \/ TakeJob \/ Leave
  \/ Play

\* Every thread is scheduled; no server has to answer, and no signal to come.
Fairness ==
  /\ WF_vars(UNCHANGED playVars /\ ReadCommands) /\ WF_vars(UNCHANGED playVars /\ Main)
  /\ WF_vars(Ask \/ TakeJob \/ Leave) /\ WF_vars(Play)

Spec == DecodingInit /\ [][Next]_vars /\ Fairness

-----------------------------------------------------------------------------
(* What the lines of commands ask for, by the documentation of commands.   *)

IsCommand(v) == Has(v, "cmd", "string") /\ HasKey(v, "param")

\* The commands up to "quit".
UpToQuit(values) ==
  LET commands == SelectSeq(values, IsCommand)
      quits    == {i \in DOMAIN commands : Name(commands[i]) = "quit"}
  IN  IF quits = {} THEN commands
      ELSE SubSeq(commands, 1, (CHOOSE i \in quits : \A k \in quits : i <= k) - 1)

FileOf(param) ==
  IF Has(param, "file", "string") THEN Key(param, "file").text
  ELSE IF IsA(param, "string") THEN param.text ELSE ""

IsTrack(command) ==
  /\ HasKey(Decoders, Name(command))
  /\ LET param == Key(command, "param")
     IN  IF PartType(Key(Decoders, Name(command))) = "lavc"
         THEN FileOf(param) \in DOMAIN Media
         ELSE param.is \in Numbers /\ param.number > 0

\* The frames that a command for a track consists of.
Frames(command) ==
  LET param == Key(command, "param")
  IN  IF PartType(Key(Decoders, Name(command))) # "lavc" THEN 1 .. param.number
      ELSE LET packets == Media[FileOf(param)].packets
           IN  {i \in DOMAIN packets : packets[i]}

\* What playing a command to its end passes on: the metadata and its frames.
Whole(command) == <<0>> \o SetToSortSeq(Frames(command), <)

\* The places of the commands for tracks, up to "quit".
Tracks ==
  LET quits == {i \in DOMAIN heard : IsCommand(heard[i]) /\ Name(heard[i]) = "quit"}
  IN  SelectSeq([i \in DOMAIN heard |-> i],
        LAMBDA i : IsCommand(heard[i]) /\ IsTrack(heard[i]) /\ \A q \in quits : i < q)

Passed == [i \in DOMAIN written |-> <<written[i].command, written[i].frame>>]

-----------------------------------------------------------------------------
(* Properties.                                                             *)

Registers ==
  LET outputs  == Outputs(config)
      place(e) == server.encoders[e].index + 1
      shared(e, f) == server.encoders[e].barrier # 0
                        /\ server.encoders[e].barrier = server.encoders[f].barrier
      same(e, f) == Barrier(outputs[place(e)]) # ""
                      /\ Barrier(outputs[place(e)]) = Barrier(outputs[place(f)])
      all == FoldLeft(LAMBDA sinks, e : sinks \o e.sinks, <<>>, server.encoders)
  IN  /\ {place(e) : e \in DOMAIN server.encoders}
           = {i \in DOMAIN outputs : BrocasOf(outputs[i]) # <<>>}
      /\ \A e, f \in DOMAIN server.encoders :
           (e < f => place(e) < place(f)) /\ (shared(e, f) <=> same(e, f))
      /\ \A e \in DOMAIN server.encoders :
           Len(server.encoders[e].sinks) = Len(BrocasOf(outputs[place(e)]))
      /\ \A i \in DOMAIN all : all[i] = i - 1

\* The server starts with exactly what its configuration lists: an encoder is
\* numbered by its place among the outputs, those without brocas included,
\* its brocas are numbered on from those before, and encoders wait for each
\* other if and only if their outputs name the same barrier.
RegisteredAsConfigured == [][server' # server => Registers']_vars

\* If no signal comes and nothing fails, all that was commanded has been
\* played when the program ends: every track up to "quit", whole, once and in
\* the order of the commands, and no line of a file was left unread.
LinesObeyed ==
  phase = "ended" /\ ~terminating /\ failures = 0 =>
    /\ Passed = FoldLeft(LAMBDA passed, n :
                  LET whole == Whole(heard[n])
                  IN  passed \o [i \in DOMAIN whole |-> <<n, whole[i]>>], <<>>, Tracks)
    /\ ReadQueue = "file" =>
         LET all == Files[file].lines
         IN  (\A i \in DOMAIN all : all[i].rest = <<>>) =>
               UpToQuit(heard) = UpToQuit([i \in DOMAIN all |-> all[i].value])

Apart ==
  \A i \in DOMAIN Passed :
    LET number == Passed[i][1]
        frame  == Passed[i][2]
    IN  /\ IsTrack(heard[number])
        /\ frame \in Frames(heard[number]) \cup {0}
        /\ IF frame = 0 THEN i > 1 => Passed[i - 1][1] < number
           ELSE i > 1 /\ Passed[i - 1][1] = number /\ Passed[i - 1][2] < frame

\* Whatever fails and whenever a signal comes, tracks are passed on one after
\* the other and each of them once, first the metadata and then frames of that
\* track only, none twice and none out of order.
TrackByTrack == [][written' # written => Apart']_vars

Numbered(tags, name) ==
  LET found == SelectSeq(tags, LAMBDA tag : tag.name = name /\ tag.reads # <<>>)
  IN  IF found = <<>> THEN <<>> ELSE Head(found).reads

\* The gain is that of the stream if it has one and that of the container
\* otherwise, with ReplayGain before R128 in either.
TaggedLevel(media) ==
  LET level(tags) ==
        IF Numbered(tags, "REPLAYGAIN_TRACK_GAIN") # <<>>
        THEN Numbered(tags, "REPLAYGAIN_TRACK_GAIN")
        ELSE LET r128 == Numbered(tags, "R128_TRACK_GAIN")
             IN  [i \in DOMAIN r128 |-> r128[i] + 5]
  IN  IF level(media.stream) # <<>> THEN level(media.stream) ELSE level(media.container)

Tagged(track) ==
  LET params  == Params(track.job)
      media   == Media[track.job.path]
      level   == TaggedLevel(media)
      picture == Picture(params, media)
  IN  /\ build = "swr" /\ Setting(params, "applyReplayGain", FALSE) =>
           /\ Len(track.gain) = Len(level)
           /\ level # <<>> => track.gain[1].level = Preamp(params) + level[1]
      /\ \A k \in DOMAIN track.metadata : ~IsGainTag([name |-> track.metadata[k]])
      /\ Art(params, media) = <<"picture">> =>
           {picture.width, picture.height} \subseteq 1 .. Larger(MaxSide(params), 1)

\* A track that is about to be played has the gain that its tags ask for, of
\* which none is passed on, and a picture that fits the configured size.
OpenedAsTagged ==
  [][Len(taken') > Len(taken) =>
       LET track == taken'[Len(taken')]
       IN  track.opened /\ track.job.blocks = 0 => Tagged(track)]_vars

\* A server that reads commands from a file comes to its end, and any server
\* does once there are no more commands, however full its queue is.
CommandsEnd ==
  phase = "running" /\ (ReadQueue = "file" \/ outOfCommands)
    ~> phase \in {"ended", "aborted"}

=============================================================================
