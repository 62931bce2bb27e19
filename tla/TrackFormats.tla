---------------------------- MODULE TrackFormats ----------------------------
(***************************************************************************)
(* The formats of an encoder: what startTrack, pcmBlock and endTrack make  *)
(* of the tracks that BaseEncoder::run hands them.  Sound is a number of   *)
(* frames, at the rate of the output; a page or packet is the number of    *)
(* frames that it announces to the brocas.  The thread may see a signal    *)
(* (shouldRun) wherever it looks for one.                                  *)
(*                                                                         *)
(* What the libraries do with frames is a choice: a resampler or codec may *)
(* hold some back, and libogg may make a page out of any packets it has.   *)
(* Memory is taken never to run out.                                       *)
(***************************************************************************)
EXTENDS Integers, Sequences

CONSTANTS
  Formats,     \* those that may be configured
  Block,       \* frames in a block of Opus: pcm_.size() / channels_
  Lookahead,   \* frames by which Opus delays the sound, less than a block
  Threshold,   \* frames after which a page is made: flushThreshold
  Width,       \* granule positions and numbers of frames are modulo this
  Failing,     \* may library calls fail?
  BlockSizes,  \* bound: frames in a block that is read
  MaxFrames,   \* bound: frames that are read
  MaxTracks,   \* bound: track changes
  MaxHeld      \* bound: frames that a resampler holds back

Ogg == {"opus", "vorbis"}  \* the formats that make their pages themselves

ASSUME FormatAssumption == Formats \subseteq Ogg \cup {"flac", "mp3", "pcm"}
ASSUME SizeAssumption ==
  /\ Block \in Nat \ {0} /\ Lookahead \in 0 .. Block - 1
  /\ Threshold \in Nat \ {0} /\ Failing \in BOOLEAN
  /\ BlockSizes \subseteq Nat \ {0} /\ {MaxFrames, MaxTracks, MaxHeld} \subseteq Nat
ASSUME WidthAssumption == Width \in Nat /\ Width > MaxFrames + Block

VARIABLES
  format,         \* which encoder this is
  passThrough,    \* does the resampler only copy?
  large,          \* does the comment packet need more than one page?
  running,        \* shouldRun()
  pc, next, goal, \* the thread's place, where its page loop and endTrack return
  track,          \* run(): has there been a track?
  init,           \* init_
  codec,          \* Vorbis and FLAC: "open", "ending", "ended" or "failed"
  input,          \* frames of the block still to be encoded
  held,           \* frames that resampler or codec hold back
  pcmIndex,       \* frames in pcm_
  granuleIndex,   \* granuleIndex_ or granule_; of Vorbis, the codec's position
  granulesInPage, lastGranule, endOfStream,   \* the members of these names
  pending,        \* packets in the Ogg stream that no page contains yet
  announced,      \* history: frames announced to the brocas for this track
  stream,         \* history: "none", "begun" or "ended", the track's Ogg stream
  fed,            \* history: frames of the track
  failed,         \* history: has a call that encodes failed?
  tracks, frames  \* track changes and frames so far

config == <<format, passThrough, large>>
place  == <<pc, next, goal>>
sound  == <<input, held, pcmIndex, granuleIndex>>
pages  == <<granulesInPage, lastGranule, endOfStream, pending, announced, stream>>
run    == <<track, tracks, frames>>
vars   == <<config, running, place, init, codec, sound, pages, fed, failed, run>>

Least(a, b) == IF a <= b THEN a ELSE b

Goto(step) == pc' = step /\ UNCHANGED <<next, goal>>

\* Granule positions and numbers of frames are unsigned.
Wrap(n) == n % Width

\* BaseEncoder::packet, to all the sinks.
Announce(n) == announced' = Wrap(announced + n)

OggPacket(granule, eos, wide) == [granule |-> granule, eos |-> eos, wide |-> wide]

-----------------------------------------------------------------------------
Init ==
  /\ format \in Formats
  /\ passThrough \in BOOLEAN /\ (format # "opus" => passThrough)
  /\ large \in BOOLEAN /\ (format \notin Ogg => ~large)
  /\ running = TRUE /\ pc = "top" /\ next = "top" /\ goal = "start"
  /\ track = FALSE /\ init = FALSE /\ codec = "ended"
  /\ input = 0 /\ held = 0 /\ pcmIndex = 0 /\ granuleIndex = 0
  /\ granulesInPage = 0 /\ lastGranule = 0 /\ endOfStream = FALSE /\ pending = <<>>
  /\ announced = 0 /\ stream = "none" /\ fed = 0 /\ failed = FALSE
  /\ tracks = 0 /\ frames = 0

-----------------------------------------------------------------------------
(* BaseEncoder::run: a track change if there is one, a block of sound.     *)

\* A turn of the loop.
Top ==
  /\ pc = "top" /\ Goto(IF running THEN "change" ELSE "leave")
  /\ UNCHANGED <<config, running, init, codec, sound, pages, fed, failed, run>>

NoChange ==
  /\ pc = "change" /\ Goto("block")
  /\ UNCHANGED <<config, running, init, codec, sound, pages, fed, failed, run>>

Change ==
  /\ pc = "change" /\ tracks < MaxTracks
  /\ tracks' = tracks + 1 /\ track' = TRUE /\ goal' = "start"
  /\ pc' = IF track THEN "ending" ELSE "start"
  /\ UNCHANGED <<config, running, next, init, codec, sound, pages, fed, failed, frames>>

\* pcmBlock is called.  Of a track that could not be started it takes nothing;
\* PCM has no start, and passes the block on.
Feed(n) ==
  /\ pc = "block" /\ frames + n <= MaxFrames /\ frames' = frames + n
  /\ \/ /\ format = "pcm" /\ Announce(n) /\ fed' = fed + n /\ Goto("top")
        /\ UNCHANGED <<input, granuleIndex>>
     \/ /\ format # "pcm" /\ init /\ input' = n /\ fed' = fed + n /\ Goto("feeding")
        /\ granuleIndex' = IF format = "mp3" THEN granuleIndex + n ELSE granuleIndex
        /\ UNCHANGED announced
     \/ /\ format # "pcm" /\ ~init /\ Goto("top")
        /\ UNCHANGED <<input, granuleIndex, announced, fed>>
  /\ UNCHANGED <<config, running, init, codec, held, pcmIndex, granulesInPage, lastGranule,
                 endOfStream, pending, stream, failed, track, tracks>>

\* readPcm returns 0: for now, or because the buffer is closed.
FeedNothing ==
  /\ pc = "block" /\ \E step \in {"top", "leave"} : Goto(step)
  /\ UNCHANGED <<config, running, init, codec, sound, pages, fed, failed, run>>

\* Seeded fault: the loop does not see the end of the block.
FeedDone_Signal ==
  /\ pc = "feeding" /\ ~running /\ input' = 0 /\ Goto("top")
  /\ UNCHANGED <<config, running, init, codec, held, pcmIndex, granuleIndex, pages, fed,
                 failed, run>>

\* The loops over the block end with it, and all but that of MP3 at a signal.
FeedDone ==
  /\ pc = "feeding" /\ (input = 0 \/ (~running /\ format # "mp3"))
  /\ input' = 0 /\ Goto("top")
  /\ UNCHANGED <<config, running, init, codec, held, pcmIndex, granuleIndex, pages, fed,
                 failed, run>>

Leave ==
  /\ pc = "leave" /\ goal' = "done" /\ pc' = IF track THEN "ending" ELSE "done"
  /\ UNCHANGED <<config, running, next, init, codec, sound, pages, fed, failed, run>>

-----------------------------------------------------------------------------
(* Pages.  A page takes the first k packets; a packet that does not fit    *)
(* fills a page first in which no packet ends, whose position is -1.       *)

Page(k) ==
  IF Head(pending).wide
  THEN [granule |-> Wrap(-1), eos |-> FALSE,
        rest |-> <<[Head(pending) EXCEPT !.wide = FALSE]>> \o Tail(pending)]
  ELSE [granule |-> pending[k].granule, eos |-> pending[k].eos,
        rest |-> SubSeq(pending, k + 1, Len(pending))]

\* Seeded fault: the frames of a page stay counted as waiting.
PushPage_Waiting(page) ==
  /\ Announce(Wrap(page.granule - lastGranule))
  /\ lastGranule' = page.granule /\ endOfStream' = page.eos
  /\ pending' = page.rest /\ UNCHANGED granulesInPage
  /\ stream' = IF page.eos THEN "ended" ELSE "begun"

\* pushPage_
PushPage(page) ==
  LET granules == Wrap(page.granule - lastGranule)
  IN  /\ Announce(granules)
      /\ granulesInPage' = Wrap(granulesInPage - granules)
      /\ lastGranule' = page.granule /\ endOfStream' = page.eos
      /\ pending' = page.rest
      /\ stream' = IF page.eos THEN "ended" ELSE "begun"

\* Seeded fault: the threshold itself is not enough.
Enough_Over == granulesInPage > Threshold

Enough == granulesInPage >= Threshold

\* The loop at the end of flushBuffer_ and in flushBuffers_: ogg_stream_flush once
\* there is enough for a page, before that ogg_stream_pageout, which may find none.
PageOut ==
  /\ pc = "paging"
  /\ \/ /\ running /\ ~endOfStream /\ pending # <<>> /\ UNCHANGED pc
        /\ \E k \in DOMAIN pending : PushPage(Page(k))
     \/ /\ running /\ ~endOfStream /\ ~Enough /\ pc' = next
        /\ UNCHANGED pages
     \/ /\ (~running \/ endOfStream \/ pending = <<>>)
        /\ pc' = next /\ UNCHANGED pages
  /\ UNCHANGED <<config, running, next, goal, init, codec, sound, fed, failed, run>>

\* flushPages_
FlushPages ==
  /\ pc = "flushing"
  /\ IF pending = <<>> THEN pc' = next /\ UNCHANGED pages
     ELSE UNCHANGED pc /\ \E k \in DOMAIN pending : PushPage(Page(k))
  /\ UNCHANGED <<config, running, next, goal, init, codec, sound, fed, failed, run>>

-----------------------------------------------------------------------------
(* startTrack, after endTrack where there was a track.                     *)

\* Any of the settings fails; FLAC cannot set anything in an encoder that is in use.
StartFails ==
  /\ pc = "start" /\ format # "pcm" /\ (Failing \/ codec = "failed")
  /\ fed' = 0 /\ announced' = 0 /\ stream' = "none" /\ pending' = <<>>
  /\ held' = IF format = "opus" THEN held ELSE 0
  /\ Goto("block")
  /\ UNCHANGED <<config, running, init, codec, input, pcmIndex, granuleIndex,
                 granulesInPage, lastGranule, endOfStream, failed, run>>

\* The two header packets of Opus; Vorbis has a third, on the page of the second.
Headers == <<OggPacket(0, FALSE, FALSE), OggPacket(0, FALSE, large)>>

\* A new stream, whose positions begin at 0.
StartStream ==
  /\ pc = "start" /\ pending' = Headers /\ granulesInPage' = 0 /\ lastGranule' = 0
  /\ granuleIndex' = 0 /\ fed' = 0 /\ announced' = 0 /\ stream' = "none"
  /\ pc' = "flushing" /\ next' = "begin"
  /\ UNCHANGED <<config, running, goal, init, input, pcmIndex, endOfStream, failed, run>>

StartOpus == format = "opus" /\ StartStream /\ UNCHANGED <<codec, held>>

StartVorbis == format = "vorbis" /\ StartStream /\ codec' = "open" /\ held' = 0

\* Opus begins with the silence of the lookahead, as if it were of the track.
Begin ==
  /\ pc = "begin" /\ endOfStream' = FALSE /\ init' = TRUE
  /\ pcmIndex' = IF format = "opus" THEN Lookahead ELSE pcmIndex
  /\ fed' = IF format = "opus" THEN Lookahead ELSE fed
  /\ Goto("block")
  /\ UNCHANGED <<config, running, codec, input, held, granuleIndex, granulesInPage,
                 lastGranule, pending, announced, stream, failed, run>>

\* The other formats have no headers of their own making.
StartPlain ==
  /\ pc = "start" /\ Goto("block")
  /\ granuleIndex' = 0 /\ held' = 0 /\ fed' = 0 /\ announced' = 0
  /\ UNCHANGED <<config, running, input, pcmIndex, granulesInPage, lastGranule, endOfStream,
                 pending, failed, run>>

\* libFLAC writes its header pages itself.
StartFlac ==
  /\ format = "flac" /\ codec # "failed" /\ StartPlain
  /\ init' = TRUE /\ codec' = "open" /\ stream' = "begun"

StartMp3 == format = "mp3" /\ StartPlain /\ init' = TRUE /\ UNCHANGED <<codec, stream>>

StartPcm == format = "pcm" /\ StartPlain /\ UNCHANGED <<init, codec, stream>>

-----------------------------------------------------------------------------
(* Opus: frames go through the resampler into pcm_, and are encoded block  *)
(* by block.                                                               *)

Space == Block - pcmIndex

Passed == {[read |-> Least(input, Space), wrote |-> Least(input, Space)]}

\* resampleInterleaved: frames read from the block and written to pcm_.
Resampled ==
  IF passThrough THEN Passed
  ELSE {r \in [read : 0 .. input, wrote : 0 .. Space] :
          r.read + r.wrote > 0 /\ held + r.read - r.wrote \in 0 .. MaxHeld}

\* flushInterleaved: a pass-through holds nothing back; else it returns 0 once nothing is held back.
Flushed == IF held = 0 THEN {0} ELSE 1 .. Least(held, Space)

\* flushBuffer_: true frames and silence make a block.  The granule position counts
\* the true ones.
FlushBuffer(trueFrames, then) ==
  /\ pcmIndex' = 0
  /\ \/ /\ Failing /\ failed' = TRUE /\ init' \in {init, FALSE}
        /\ Goto(then) /\ UNCHANGED <<granuleIndex, granulesInPage, pending>>
     \/ /\ granuleIndex' = granuleIndex + trueFrames
        /\ granulesInPage' = Wrap(granulesInPage + trueFrames)
        /\ pending' = Append(pending, OggPacket(granuleIndex', FALSE, FALSE))
        /\ pc' = "paging" /\ next' = then /\ UNCHANGED <<goal, init, failed>>

Store(n, then) ==
  IF pcmIndex + n = Block THEN FlushBuffer(Block, then)
  ELSE /\ pcmIndex' = pcmIndex + n /\ Goto(then)
       /\ UNCHANGED <<granuleIndex, granulesInPage, pending, init, failed>>

OpusFeed ==
  /\ pc = "feeding" /\ format = "opus" /\ input > 0 /\ running
  /\ \E r \in Resampled : /\ input' = input - r.read
                          /\ held' = held + r.read - r.wrote
                          /\ Store(r.wrote, "feeding")
  /\ UNCHANGED <<config, running, codec, lastGranule, endOfStream, announced, stream, fed, run>>

\* The resampler fails, and says that it has read what it was given.
ResampleFails ==
  /\ pc = "feeding" /\ format = "opus" /\ input > 0 /\ running
  /\ Failing /\ ~passThrough /\ failed' = TRUE /\ input' \in 0 .. input - 1
  /\ UNCHANGED <<config, running, place, init, codec, held, pcmIndex, granuleIndex, pages, fed,
                 run>>

\* endTrack: flushResampler_ gets what is held back, unless a signal came.
OpusDrain ==
  /\ pc = "draining" /\ format = "opus"
  /\ \E n \in IF running THEN Flushed ELSE {0} :
       IF n = 0 THEN /\ Goto("padding")
                     /\ UNCHANGED <<held, pcmIndex, granuleIndex, granulesInPage, pending,
                                    init, failed>>
       ELSE held' = held - n /\ Store(n, "draining")
  /\ UNCHANGED <<config, running, codec, input, lastGranule, endOfStream, announced, stream,
                 fed, run>>

\* The flush fails: what is held back is dropped before the next track.
FlushFails ==
  /\ pc = "draining" /\ format = "opus" /\ running
  /\ Failing /\ ~passThrough /\ failed' = TRUE /\ held' = 0 /\ Goto("padding")
  /\ UNCHANGED <<config, running, init, codec, input, pcmIndex, granuleIndex, pages, fed, run>>

\* Seeded fault: the silence in the last block counts.
OpusPad_Silence ==
  /\ pc = "padding" /\ FlushBuffer(Block, "final")
  /\ UNCHANGED <<config, running, codec, input, held, lastGranule, endOfStream, announced,
                 stream, fed, run>>

\* endTrack: flushBuffer_(true), for the block that is not full.
OpusPad ==
  /\ pc = "padding" /\ FlushBuffer(pcmIndex, "final")
  /\ UNCHANGED <<config, running, codec, input, held, lastGranule, endOfStream, announced,
                 stream, fed, run>>

\* Seeded fault: the empty packet does not end the stream.
OpusFinal_Open ==
  /\ pc = "final" /\ pending' = Append(pending, OggPacket(granuleIndex, FALSE, FALSE))
  /\ pc' = "flushing" /\ next' = "ended"
  /\ UNCHANGED <<config, running, goal, init, codec, sound, granulesInPage, lastGranule,
                 endOfStream, announced, stream, fed, failed, run>>

\* endTrack: an empty packet that ends the stream.
OpusFinal ==
  /\ pc = "final" /\ pending' = Append(pending, OggPacket(granuleIndex, TRUE, FALSE))
  /\ pc' = "flushing" /\ next' = "ended"
  /\ UNCHANGED <<config, running, goal, init, codec, sound, granulesInPage, lastGranule,
                 endOfStream, announced, stream, fed, failed, run>>

-----------------------------------------------------------------------------
(* Vorbis: the codec takes all frames, and yields packets when it has      *)
(* enough of them.                                                         *)

VorbisFeed ==
  /\ pc = "feeding" /\ format = "vorbis" /\ input > 0 /\ running
  /\ input' = 0 /\ held' = held + input /\ granulesInPage' = Wrap(granulesInPage + input)
  /\ Goto("blocks")
  /\ UNCHANGED <<config, running, init, codec, pcmIndex, granuleIndex, lastGranule,
                 endOfStream, pending, announced, stream, fed, failed, run>>

\* flushBuffers_: a packet with k more frames.  The last one of an ended stream says so.
VorbisPacket(k) ==
  /\ pc = "blocks" /\ running /\ held' = held - k /\ granuleIndex' = granuleIndex + k
  /\ \/ codec = "open" /\ k > 0 /\ UNCHANGED codec
     \/ codec = "ending" /\ (k > 0 \/ held = 0) /\ codec' = IF k = held THEN "ended" ELSE "ending"
  /\ pending' = Append(pending, OggPacket(granuleIndex', codec' = "ended", FALSE))
  /\ pc' = "paging" /\ next' = "blocks"
  /\ UNCHANGED <<config, running, goal, init, input, pcmIndex, granulesInPage, lastGranule,
                 endOfStream, announced, stream, fed, failed, run>>

\* flushBuffers_ returns: the codec wants more frames, or it has ended, or a signal came.
VorbisBlocksDone ==
  /\ pc = "blocks" /\ (codec = "ending" => ~running)
  /\ IF codec = "open" THEN Goto("feeding") ELSE pc' = "flushing" /\ next' = "ended" /\ UNCHANGED goal
  /\ UNCHANGED <<config, running, init, codec, sound, pages, fed, failed, run>>

-----------------------------------------------------------------------------
(* FLAC: libFLAC makes the pages, and announces no frames for them.        *)

\* libFLAC calls it with 0 for the samples of a page of an Ogg stream.
WriteCallback(samples) == Announce(samples)

FlacFeed(k) ==
  /\ pc = "feeding" /\ format = "flac" /\ k \in 1 .. input /\ running
  /\ held' \in 0 .. held + k /\ WriteCallback(0)
  /\ \/ Goto("feeding") /\ input' = input - k /\ UNCHANGED <<init, codec, failed>>
     \/ /\ Failing /\ Goto("top") /\ input' = 0
        /\ init' = FALSE /\ codec' = "failed" /\ failed' = TRUE
  /\ UNCHANGED <<config, running, pcmIndex, granuleIndex, granulesInPage, lastGranule,
                 endOfStream, pending, stream, fed, run>>

(* MP3: LAME takes frames and yields data when it has enough.              *)

Mp3Feed(k) ==
  /\ pc = "feeding" /\ format = "mp3" /\ k \in 1 .. input
  /\ \/ /\ Failing /\ Goto("top") /\ input' = 0 /\ init' = FALSE /\ failed' = TRUE
        /\ UNCHANGED <<held, granuleIndex, announced>>
     \/ /\ Goto("feeding") /\ input' = input - k /\ granuleIndex' = granuleIndex + k
        /\ held' \in 0 .. held + k
        /\ \/ UNCHANGED announced
           \/ Announce(granuleIndex' - held')
        /\ UNCHANGED <<init, failed>>
  /\ UNCHANGED <<config, running, codec, pcmIndex, granulesInPage, lastGranule, endOfStream,
                 pending, stream, fed, run>>

-----------------------------------------------------------------------------
(* endTrack.                                                               *)

\* Nothing was started; MP3 does not look.
EndNothing ==
  /\ pc = "ending" /\ ~init /\ format # "mp3" /\ Goto(goal)
  /\ UNCHANGED <<config, running, init, codec, sound, pages, fed, failed, run>>

EndOgg ==
  /\ pc = "ending" /\ init /\ format \in Ogg
  /\ Goto(IF format = "opus" THEN "draining" ELSE "blocks")
  /\ codec' = IF format = "vorbis" THEN "ending" ELSE codec
  /\ UNCHANGED <<config, running, init, sound, pages, fed, failed, run>>

\* FLAC__stream_encoder_finish writes what is left and the end of the stream.
EndFlac ==
  /\ pc = "ending" /\ init /\ format = "flac"
  /\ codec' = "ended" /\ held' = 0 /\ Goto("ended") /\ WriteCallback(0)
  /\ \/ stream' = "ended" /\ UNCHANGED failed
     \/ Failing /\ failed' = TRUE /\ UNCHANGED stream
  /\ UNCHANGED <<config, running, init, input, pcmIndex, granuleIndex, granulesInPage,
                 lastGranule, endOfStream, pending, fed, run>>

\* lame_encode_flush yields what is left, or fails, as it does if nothing was started.
EndMp3 ==
  /\ pc = "ending" /\ format = "mp3" /\ Goto("ended")
  /\ \/ /\ init \/ failed
        /\ held' = 0 /\ (Announce(granuleIndex) \/ UNCHANGED announced) /\ UNCHANGED failed
     \/ Failing /\ failed' = TRUE /\ UNCHANGED <<held, announced>>
     \/ ~init /\ UNCHANGED <<held, announced, failed>>
  /\ UNCHANGED <<config, running, init, codec, input, pcmIndex, granuleIndex, granulesInPage,
                 lastGranule, endOfStream, pending, stream, fed, run>>

Ended ==
  /\ pc = "ended" /\ init' = FALSE /\ Goto(goal)
  /\ UNCHANGED <<config, running, codec, sound, pages, fed, failed, run>>

-----------------------------------------------------------------------------
Signal ==
  /\ running /\ running' = FALSE
  /\ UNCHANGED <<config, place, init, codec, sound, pages, fed, failed, run>>

Loop  == Top \/ NoChange \/ Change \/ (\E n \in BlockSizes : Feed(n)) \/ FeedNothing
         \/ FeedDone \/ Leave
Start == StartFails \/ StartOpus \/ StartVorbis \/ Begin \/ StartFlac \/ StartMp3 \/ StartPcm
Paging == PageOut \/ FlushPages
Opus  == OpusFeed \/ ResampleFails \/ OpusDrain \/ FlushFails \/ OpusPad \/ OpusFinal
Vorbis == VorbisFeed \/ (\E k \in 0 .. held : VorbisPacket(k)) \/ VorbisBlocksDone
Other == \E k \in 1 .. input : FlacFeed(k) \/ Mp3Feed(k)
End   == EndNothing \/ EndOgg \/ EndFlac \/ EndMp3 \/ Ended

Encoder == Loop \/ Start \/ Paging \/ Opus \/ Vorbis \/ Other \/ End
Next == Encoder \/ Signal

\* The encoder has a thread of its own.
Spec == Init /\ [][Next]_vars /\ WF_vars(Encoder)

-----------------------------------------------------------------------------
(* Properties.                                                             *)

\* Everything stays in its range: above all, pcm_ is never full between two steps
\* (the assertions in flushResampler_), and nothing is held back without a bound.
TypeOK ==
  /\ format \in Formats /\ {passThrough, large, running, track, init, failed} \subseteq BOOLEAN
  /\ pc \in {"top", "change", "block", "feeding", "paging", "flushing", "start", "begin",
             "draining", "padding", "final", "blocks", "ending", "ended", "leave", "done"}
  /\ next \in {"top", "feeding", "begin", "draining", "final", "blocks", "ended"}
  /\ goal \in {"start", "done"} /\ codec \in {"open", "ending", "ended", "failed"}
  /\ input \in 0 .. MaxFrames /\ pcmIndex \in 0 .. Block - 1
  /\ held \in 0 .. IF format = "opus" THEN MaxHeld ELSE MaxFrames
  /\ granuleIndex \in 0 .. Lookahead + 2 * MaxFrames
  /\ {granulesInPage, lastGranule, announced} \subseteq 0 .. Width - 1
  /\ endOfStream \in BOOLEAN /\ stream \in {"none", "begun", "ended"}
  /\ pending \in Seq([granule : 0 .. Lookahead + MaxFrames, eos : BOOLEAN, wide : BOOLEAN])
  /\ fed \in 0 .. Lookahead + MaxFrames
  /\ tracks \in 0 .. MaxTracks /\ frames \in 0 .. MaxFrames

\* endTrack has just returned, or there was nothing to end.
Over == pc \in {"start", "done"} /\ track

\* granulesInPage_ is what the stream has and no page does: of Opus the frames in its
\* packets, of Vorbis those given to the codec.  The subtraction in pushPage_ goes
\* below zero for pages without a position, and must come out right after them.
GranulesAddUp ==
  format \in Ogg /\ init =>
    granulesInPage = Wrap(granuleIndex + (IF format = "vorbis" THEN held ELSE 0) - lastGranule)

\* Over a track, the frames announced to the brocas, whose clocks run by them, are
\* the frames of the track: none is lost in a codec, a resampler or a page, and the
\* silence that fills up the last block is not counted.  Excepted are MP3, which
\* announces the position and not the gain, and FLAC, which announces 0.
FramesAddUp ==
  /\ TypeOK
  /\ GranulesAddUp
  /\ Over /\ running /\ ~failed /\ format \notin {"mp3", "flac"} => announced = Wrap(fed)

\* A page is sent as soon as there are two seconds of sound for it.
PagesNotHeld ==
  pc = "top" /\ format \in Ogg /\ init /\ running =>
    Wrap(granuleIndex - lastGranule) < Threshold

\* An Ogg stream that was begun is ended before the next begins and before the
\* encoder ends, and takes the last frame with it.  A signal cuts off that of Vorbis,
\* and what a resampler held back for Opus; a failure to encode may cut off any.
StreamsEnd ==
  Over /\ ~failed =>
    /\ stream = "begun" => format = "vorbis" /\ ~running
    /\ pending = <<>>
    /\ held > 0 => format \in {"opus", "vorbis"} /\ ~running

\* Every method returns, whatever the libraries hold back or refuse, and the encoder
\* ends after a signal.
MethodsReturn ==
  /\ pc \notin {"top", "done"} ~> pc \in {"top", "done"}
  /\ ~running ~> pc = "done"
=============================================================================
