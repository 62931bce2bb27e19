# Exocaster in TLA+

Exocaster reads commands, plays what they ask for through decoders, encodes the
sound with any number of encoders and sends every encoder's output to any number
of *brocas* (files, Icecast servers, sound cards). Each of these stages runs on
threads of its own, and the stages are joined by bounded buffers. This directory
models the stages and the machinery that joins them: what becomes of a configuration
and of a line with a command, who waits for whom and for how long, what may overtake
what, what is lost when, and how all of it comes to an end.

Paths below are relative to the repository; `jobqueue.hh` and the like are in
`src/src/`.

## Inventory

```
 read queue --> Server::readCommands_ --> JobQueue --> job: decoder
                                                        |
                                           PcmSplitter (all buffers)
                                            |                     |
                                        PcmBuffer             PcmBuffer
                                            |      Barrier        |
                                        encoder  <------->    encoder
                                         |     |                  |
                             PacketRingBuffer  PacketRingBuffer   ...
                                         |     |
                                     broca     broca

 decoder, encoders, brocas --> Publisher --> PublishQueue(s) --> write queue(s)
```

| Component | State | Operations | Talks to | What is hard | What makes it correct |
|---|---|---|---|---|---|
| job queue, `jobqueue.hh` | a ring of jobs, three mutexes, a closed flag, worker threads | `addJob`, `close`, `stop`, the workers' loop | command reader, server, decoders | two workers hand jobs from mutex to mutex; `close` and `stop` race with them | one job plays at a time, in the order of the commands; `stop` returns, and after the last one |
| ring buffer, `buffer.hh` | an array, two indices, a closed flag, a mutex, two condition variables | `readSome`, `readFull`, `get`, `skipFull`, `writeFull`, `writeTimed`, `putNoWait`, `close` | everything that queues anything | wrapping copies, notifications of one thread after the unlock, closing while others wait | it is a bounded FIFO; nobody oversleeps; closing releases everyone |
| barrier, `barrier.cc` | counts of waiting and leaving encoders, a token, a mutex and a condition variable | `sync`, `free` | the encoders (through `PcmBuffer`), the server | a round is left while the next one begins | encoders enter a track together; nobody is left behind; `free` frees |
| PCM buffer and splitter, `pcmbuffer.cc` | a byte ring, a queue of track changes with the bytes that follow each, a counter | `metadata`, `pcm`, `readTrackChange`, `readPcm`, `close` | decoders, encoder, barrier, publisher | two structures describe one stream and are never updated together | the encoder gets the changes at the right places, everything is read, closing ends the encoder |
| encoder loop, `encoder/encoder.cc` | whether a track is being played | `run`, `packet`, `close` | PCM buffer, sinks, publisher | a read of 0 bytes means four things | commands are passed on, tracks are ended, sinks are closed |
| packets, `packet.hh` | a ring of bytes in which headers alternate with data | `writePacket`, `readPacket`, the reader's pieces | encoder, brocas | a packet is written and read in pieces, and cut off by closing | a header is read where a header is |
| brocas, `broca/*` | what is left of the packet, a connection | the loops of `file`, `discard`, `shout`, `portaudio` | packets, publisher | errors in the middle of a packet | every packet is heard; a failure of one is not a failure of all |
| server, `server.cc` | three flags, a watchdog, everything above | `run`, `quit`, the signal handler, `readCommands_` | everything | the order of closing and joining; signals at any moment | a quit plays everything and ends; a signal ends |
| publisher, `publisher.cc` | a queue of eight events per write queue | `acknowledge*`, `close`, `stop`, the queues' loops | decoder, encoders, brocas, write queues | one command is acknowledged by many threads | the acknowledgments of a command come out in its order, each at most once |
| registry and configuration, `registry.cc`, `serverconfig.cc`, `config.hh` | what was configured | construction, once | server | fallbacks, ranges, what is numbered in step with what | what is listed is what is built, or nothing is |
| command and event queues, `queue/*` | a line buffer, a connection | `readLine`, `writeLine`, `close` | reader thread, publish queues | the end of a file, long lines, retries against the end | no command is lost or repeated, and the reader ends |
| decoders, `decoder/*` | a stream, what libav still holds of it, gain, art | `createJob`, `init`, `run` | PCM splitter | failures at any packet, a signal in any loop, two builds | all of a track is written, and nothing else; gain and art are as tagged |
| formats, `encoder/libopus` and others | granule positions, pages, a resampler | `startTrack`, `pcmBlock`, `endTrack` | encoder loop, resampler | frames that do not divide tracks | positions never go back, nothing of a track is left |
| resamplers, `resampler/*` | buffered frames | `resample`, `flush` | encoders, decoders | - | no frame is lost at a flush |
| frame clock, `fclock.hh` | the last update, frames ahead, a remainder | `reset`, `update`, `wouldSleepUntil`, `sleepIf` | PCM buffer, brocas that wait | pauses, frames that are no whole number of nanoseconds, consumers that stall | no time is lost in it; nobody runs ahead, nobody waits for good |

`PROJECT.json` lists the same components with what is modelled of each, and every
hazard with its line and the properties that would notice it going wrong.

## Modules

| Module | Models | In short |
|---|---|---|
| `JobPipeline` | - | abstract: jobs are accepted, and played one at a time in order |
| `JobQueue` | `jobqueue.hh` | one action per line of the loop that takes or gives up a mutex or calls a job |
| `JobQueueProofs` | - | `JobQueue` is correct for any number of workers, and implements `JobPipeline` |
| `BoundedFifo` | - | abstract: batches go in at one end and out at the other |
| `RingBuffer` | `buffer.hh` | array, indices, condition variables; one action per critical section |
| `RingBufferProofs` | - | `RingBuffer` implements `BoundedFifo` for any size and any threads; no wakeup is lost |
| `Barrier` | `barrier.cc` | one action per stretch of `sync` between waits |
| `TrackStream` | - | abstract: a stream of bytes and track changes |
| `PcmBuffer` | `pcmbuffer.cc`, reading half of `encoder.cc` | ring and rows, encoder, job and `close`, shown to implement `TrackStream` |
| `PcmBufferProofs` | - | with timed writes `PcmBuffer` implements `TrackStream` for any sizes; its counters match its ring; the current track is finished |
| `PacketPipeline` | `packet.hh`, `packetstream.hh`, writing half of `encoder.cc`, `broca/file.cc`, `discard.cc`, `shout.cc`, `portaudio/playback.cc` | one encoder, its sinks in order, a broca each |
| `PacketPipelineProofs` | - | framing and completeness for any number of brocas and any sizes |
| `Server` | `server.cc`; composes reduced jobs, buffers, encoders, brocas | the end of the program, step by step |
| `ServerProofs` | - | an orderly end plays everything, and empties the buffers in one thread |
| `Publisher` | `publisher.cc`, the acknowledging half of `encoder.cc` and `broca.hh` | actors that hand a command on and acknowledge it |
| `TrackFormats` | `encoder/libopus`, `libvorbis`, `libflac`, `lame`, `pcm.cc`, `resampler/resampler.hh`, `libswresample` | what startTrack, pcmBlock and endTrack make of tracks, frame by frame |
| `EncoderProofs` | - | over a track no frame is lost or made up, no page waits, every stream ends (`TrackFormats`); a barrier keeps any number of encoders together (`Barrier`) |
| `Pacing` | `fclock.hh`, timing of `pcmbuffer.cc` and of brocas that wait | real time in ticks: a job, buffers that cards or nobody empty, a broca with a clock |
| `PacingProofs` | - | the frame clocks are exact for any rate and any updates; a broca that waits keeps to them; only starved cards lose frames |
| `Configuration` | `config.hh`, `serverconfig.cc`, `registry.cc`, constructors | which JSON is accepted, and what is registered: pure operators |
| `Shell` | `main`, `Server::init`, `readCommands_`, `queue/*`, `createJob` of the decoders | from the configuration to the jobs; one action per way a read may end |
| `LavcTrack` | `decoder/libavcodec/lavc.cc`: opening | tags, gain and album art: pure operators, both builds |
| `Decoding` | `decoder/*`: `run()`; extends `Shell`, `LavcTrack` | workers that open jobs and play them, with libav as a chooser |
| `CommandProofs` | - | acknowledgments come out in order, and all are accounted for (`Publisher`); tracks are passed on one after the other, in order (`Decoding`) |

`MC<module>` gives a module to TLC, and the `.cfg` of the same name its constants.

How the modules fit together: `PcmBuffer` and `PacketPipeline` use a ring as a
sequence of bytes with atomic puts and takes; `RingBuffer` implements exactly that
(`RingBufferImplementsFifo`), so the small steps of the ring need not be repeated.
`Server` reduces the job threads to one thread that plays jobs in order, which is
what `JobQueueImplementsPipeline` proves of them; a barrier to "wait for the
others, or for `free`"; a sink to a place for one packet. `Decoding` composes
configuration, shell, queue and decoders from end to end; of the job queue it has
what the proofs say of it, and goes as far as the calls of the splitter, at which
`PcmBuffer` and `Pacing` begin.

### State and actions

*JobQueue.* `jobs` is the queue, `waitingJob`, `initJob`, `runningJob` the owners
of the mutexes of these names, `pc[w]` the place of worker `w` in `runJobs`,
`job[w]` the local variable. `accepted`, `inited`, `played` are histories. A `get` of
the queue is one action, as it is one critical section of `RingBuffer`.

*RingBuffer.* `pc[t]` is `"locking"` (about to take the mutex), `"asleep"`,
`"tryLocking"` (the timed lock of `writeTimed`), `"notify"` (mutex given up,
notification still to come) or `"idle"`. A critical section is one action, as the
mutex makes it; the notification is another one. `notify_one` picks any sleeper,
and anyone may wake without a reason.

*Barrier.* The fields have the names of the code. `Contested` is the token
comparison, with its arguments in the order the code has them.

*PcmBuffer.* `rows` is the queue of changes with its counters, `ring` the bytes.
The places where `mutex_` is not held and the two differ are states of their own:
`"reading"` (the encoder took its bytes off the counter and has not read them),
`"counting"` (the job stored and did not count). `"deciding"` is the encoder
between a false predicate and sleep, in which it holds the mutex; `close()` does
not take that mutex and can fall into it. A timed write may stop after any round.

*PacketPipeline.* A byte is a record of the packet it belongs to, its place in it,
and what its header says; a broca that reads something else as a header goes to
`"lost"`. `Kind` is chosen in the initial state from `Outputs`, the
configurations to look at, and `Failing` says which kinds of broca meet errors.

*Pacing.* `now` is the steady clock, in ticks. A `clock[b]` is a `FrameClock`: `last`,
`remainder` and `frames` are its `lastTime_`, `frameRemainder_` and `frames_`. `job` is
where the job is: `"entering"` a buffer, `"storing"` in `writeTimed` until `until`, or
decoding. A tick passes only if the job has to wait, so that its computing takes no
time, and at each tick a card takes what has become due. The broca that waits is in
initial states of its own (`Consumer = <<>>`), as it shares nothing with the job.

*Configuration, LavcTrack.* Operators only. A JSON value is a record that says what it
`is` and has a text, a number or items. `ConfigReads` is what `ServerConfig::read` does
not throw at, `ServerStarts` what `Server::init` does not throw at, `Registered` the
numbers of encoders, barriers and brocas that `registerOutputs` hands out. A tag has
what `sscanf` reads from it.

*Shell.* `phase` is the state of `main()`, `reader` the place of the thread that reads
commands in `readCommands_`, `nextCommand` and `readLine`. A line of a file has a
`value` (`Broken` if it is no JSON) and the `rest` that a parser that gives up after 255
bytes leaves to be read as lines of their own. A server answers with what it likes.

*Decoding.* `testing`, `asking` and `taken` say where the workers are: at
`shouldRun()`, in `get()`, or with a job that was opened; the first of `taken` is the one that
has `runningJob_`. `play` is the place in `run()`, the packets left, and the frames that the
decoder (`codec`) and the filter graph or resampler (`graph`) hold. `written` is what
went to the splitter: by command, metadata (frame 0) and frames. `failures` bounds what
libav or the file may get wrong.

*Server.* `main` and `watchdog` are the sequences of closing and joining steps
these threads have left, which are lines of `run()` and `quit()`. The handler sets its
flags in three steps. `config`, chosen in the initial state from `Configurations` and
never changed, says which encoders there are, which of them share a barrier, which have a
broca that may fail, whether signals come, and how many jobs there may be; an encoder that
is not configured starts as one that is done. A broca that `"failed"` leaves its ring as
it is, with or without the rest of a packet. An encoder is `"asleep"` if it missed `close()`:
no step leads out of that.

*TrackFormats.* `pc` is the place of the encoder's thread, which looks for a signal
wherever the code calls `shouldRun()`: between two pages, two packets, two calls of the
resampler. `next` is where the loop over pages returns to, `goal` where `endTrack()` does
(the next track, or the end). Sound is a number of frames, at the rate of the output.
`pending` is the Ogg stream: packets with their granule positions. What a codec or a
resampler holds back, and which packets libogg puts on a page, is chosen. A comment
packet may need two pages (`large`), the first of which has the position -1. `failed`
records that a call that encodes or resamples has failed.

*Publisher.* An actor that received a command has `todo`: the pushes to make and the
actors to hand the command on to, in the order of the code.

## Runs

| Run | States | Shows |
|---|---|---|
| `job_queue` | 210 000 | order, exclusion, end, and refinement of `JobPipeline`; three workers |
| `ring_buffer` | 160 000 | refinement of `BoundedFifo`; no lost wakeup; closing releases all and stops writers that wait |
| `barrier` | 4 000 | lockstep of three encoders, as long as no round begins before the last was left; one waits only for those still to come, for good if they never do; `free` frees all of them for good |
| `barrier_late` | - | *violation*: without that proviso lockstep is lost |
| `pcm_buffer` | 43 000 | counters match the ring; refinement of `TrackStream`; everything is read; closing |
| `pcm_buffer_blocking` | - | *violation*: with `skip` off nothing is ever read |
| `packets` | 229 000 | framing, completeness, progress and end, with a file or a card that may fail or a server that does not |
| `formats` | 176 000 | positions and counters agree, every frame is announced once, pages within two seconds, streams ended in order, every method returns, a signal ends the encoder; all formats, with failing libraries |
| `server` | 199 000 | after a quit everything is played, buffers are emptied by one thread alone, the program ends unless a file broca has failed or an encoder misses `close()`; a signal at any moment ends it but for the latter and for an encoder left in a barrier; none of these keeps the brocas of other outputs from their end |
| `publisher` | 350 000 | order and accounting of events, end of the queues |
| `pacing` | 465 000 | clocks are exact; frames are dropped only for a card that was starved for longer than buffer and margin last; for each block, consumers that stall hold the job up no longer than it or the margins last, so that with a long margin, as by default, it falls behind but goes on; brocas keep to the clock, and a signal ends one that sleeps within a second |
| `commands` | 130 000 | the server is built as configured; every line is obeyed, whole, once and in order; tracks never mix, whatever fails; gain and art are as tagged; the program ends with the commands |

The type invariant of a module is checked with its main invariant (in `barrier`, with
`EveryoneReturns`; that of `RingBuffer` by itself).

### Bounds, and why they are enough

* `JobQueue`: three workers (the program has two, and the third shows that nothing
  hangs on it), a queue of two (the program's is eight) so that it fills up, four
  jobs so that a worker comes round again, two job names so that order can be told.
* `RingBuffer`: a ring of two values (three slots) and requests of up to three, so
  that a request is longer than the ring, ends in the middle of it and wraps; one
  reader, one writer that waits and one that does not, as in every use of the class
  in the program. Three values are offered in all.
* `Barrier`: three encoders are needed for one to be late while two go on. `Half` is
  half the range of a token, 2^63 in the program; here it is 2, and with five track
  changes the tokens wrap around.
* `PcmBuffer`: frames of two bytes and a ring of two frames, so that half frames
  would show; two rows instead of seven; blocks of up to two frames; three
  frames and three changes in all.
* `Pacing`: nine ticks and four frames a second, so that a frame is two ticks and a bit,
  and the remainders of different updates differ; a buffer of three frames, blocks of
  one (a quarter of a second), four frames decoded at once, so that a job goes through
  several blocks and fills a buffer; a card that asks for two frames at a time; 28
  ticks, in which a buffer is filled, starved and filled again. Time ends at the
  horizon: `SignalEnds` is about signals at least a second before it, a second being all
  that a broca may sleep, and the packets of seven frames make it want to sleep longer.
  The margin is twice a block, about what the defaults have for blocks of silence; with a
  margin of a tick, less than a block, the same properties hold.
* `Decoding`: nine configurations, four that start and five that are refused for
  different reasons (one of the four has a sample format at which the first track ends
  the program); five files, with and without a last newline, with lines that are
  torn, no JSON, no commands, unknown or quit; servers that answer twice; a queue of one
  job and two workers, as in the program, so that one opens a track while the other
  plays; tracks of up to two packets, of the audio stream or not, so that a frame is
  held back while another comes; one failure, at any call.
* `PacketPipeline`: headers of two bytes and a ring of three, so that a header is
  torn by a full ring and a packet with data (four bytes) does not fit; two packets,
  so that what one leaves behind the other meets; two brocas, because
  the second waits behind the first.
* `Server`: a configuration has its own bound of jobs, as `MCServer` lists them. Two
  encoders that share a barrier, one with a broca that may fail, without signals: three
  jobs, so that the one blocks behind its failed broca (a packet that failed, one in the
  sink, one in hand) while the other waits in the barrier. One encoder with a broca that
  may fail, and signals: two jobs, one played while the other waits. Two encoders, a barrier
  and signals: one job, with which one encoder may wait in the barrier for another that a
  signal has ended.
* `TrackFormats`: two tracks, so that what one leaves behind meets the next; blocks of
  two frames and a threshold of three, so that a track may end in the middle of a
  block, and pages are made both by need and by choice; a lookahead of one; positions
  modulo 16, above all that are reached, so that only the subtraction wraps.
* `Publisher`: two encoders, a broca behind one of them, two commands, and a queue
  with room for two events so that it overflows.

`TrackFormats` assumes that memory does not run out: a failing `ogg_stream_packetin`
(which only that causes) makes `flushBuffer_` and `endTrack` call each other for ever.

Deadlock is checked in `job_queue` and `ring_buffer`. In the other runs the streams
are bounded and the program ends, after which nothing is left to do; that it ends
where it should is what their liveness properties say.

### Fairness, and why the code justifies it

Weak fairness of a thread's own steps stands for "the scheduler runs it again and
again and its calls return". It is assumed of threads that are inside a method or in
a loop that nothing else ends (workers, readers, writers, encoders, brocas, publish
queues, the main thread, the watchdog), never of those that need not do anything:
nobody has to add a job, write a block, call `free()`, send a signal. In `Barrier`, nobody
has to come to another track change: one may be dropped for one encoder alone
(`pcmbuffer.cc:107`), and an encoder may end early (`encoder.cc:175`), so only an encoder
that was woken has to go on. In `JobQueue`,
`close()` is called in the end (the server does so when commands end) and jobs
return (tracks end). In `PcmBuffer` the job has strong fairness because it waits
for a mutex that the encoder takes and gives up over and over. In `Server`, after a
signal, a thread blocked on something must not be assumed to leave its loop until
what it is blocked on is closed, so fairness is restricted to that. Fairness there is of
single steps: a broca that has not failed takes packets, as a server that cannot be
reached can be reached again, and one that fails (`BrocaFails`) or an encoder that misses
`close()` (`MissClose`) takes none of its other steps again; nobody has to do either. In `Pacing` time passes, and a
signal is followed by `quit()`. In `Decoding` the reader thread, the workers, the job and the main
thread are scheduled; servers need not answer, and libav's calls return.

## Proofs

The proofs are for every value of the constants, under the named assumptions of the
modules, which say what the program's own construction does: finite sizes greater than
0 (and a rate that 4 divides, so that blocks of a quarter of a second are whole frames: below
4 the program does not work, for others see the list below), `NoJob` and
`NoWorker` different from jobs and workers; of the publisher, that queues are no
actors and every broca is behind an encoder (`QueuesAssumption`, `SourceAssumption`); of
media, that a file is a finite sequence of packets (`MediaAssumption`);
of the packets, that an encoder writes to each of its brocas once, and has one at least
(`OrderAssumption`: `registry.cc:112` adds a sink per broca, and an output without
brocas makes no encoder). A theorem that needs more says so in an `ASSUME` of its own.
Each is named below.

`JobQueueProofs`:

* The hand-over-hand locking is what orders the jobs. The inductive invariant
  `IInv` says which mutex a worker owns at each place (`Owners`), so that there is at
  most one worker in each stage; that the one past the queue holds the next job of
  the history and the one past `init` the last prepared (`Stages`); that what is in
  the queue is the rest of the history (`Waiting`); and that a worker leaves only when
  there is nothing more for it (`Leaving`). None of the run's invariants is
  inductive by itself: that `played` follows `accepted` says nothing about the job in
  a worker's hands.
* From it: `JobQueueTypeOK`, `JobQueuePlayedInOrder`, `JobQueueJoinedAfterLastJob`, and
  `JobQueueImplementsPipeline`: every step is one of `JobPipeline` or a stutter, where
  "playing" is "some worker is at `run`".

`RingBufferProofs`:

* `IInv` adds to the type invariant that a thread about to store one value without
  waiting has one (`PutPending`). The work is in the lemmas: what the two copies of a
  wrapping transfer do to the sequence that the array stands for.
* `RingBufferTypeOK`, and `RingBufferImplementsFifo`: wrap-around copies of any length,
  by any number of readers and writers, are batches put into and taken from a
  bounded FIFO.
* `RingBufferNoLostWakeup` assumes what the program keeps to, one reader and one writer
  that waits to a buffer (`AloneOnItsSide`); of writers that do not wait there may be any
  number. The strengthening is `Sleepers`: those never sleep, and the wakeups of `close`
  begin when `closed_` is set. Each case then is about the one thread that can be asleep
  on the other side.
* `RingBufferClosed` is the action half of `CloseIsFinal` (`NothingStoredOnceClosed`), for
  any threads: only those that never wait call `putNoWait` (`Putters`), and whatever else
  stores looks at `closed_` in the same critical section.

`EncoderProofs`, about what an encoder does alone and with the others. The definitions of
`Barrier` carry its name (`BarrierInit`, `BarrierNext`), because this module extends both
it and `TrackFormats`.

* `TrackFormats`: none of the three properties is inductive, and each needs the others'
  reasons, so that there is one invariant, `FormatInv`, in ten named parts with a lemma each.
  - `Sums` says where the frames of a track are: in the stream (`granuleIndex`), in
    `pcm_`, in the codec or resampler, in the block; `Drained` that at the end of `endTrack`
    the last three are empty. It uses `Started` (a track is encoded only once
    `startTrack` made it, unless a call failed) and `Places` (which format may be where,
    and that a block is only held inside `pcmBlock`).
  - `Granules` says what is in the stream: the announced frames reach as far as the pages,
    the pages with the packets that wait as far as the granule position, and
    `granulesInPage_` is the difference modulo the width of a position, whatever a page
    without a position did to it in between. `PushPageSends` is the lemma: a page that
    takes any packets, or part of one, leaves where the packets end as it was. It rests on
    `WrapMultiple` and `WrapSum`, arithmetic modulo any width.
  - `StreamEnds` says that the last packet ends the stream and no other does, `Codec`
    when libvorbis is open, and `Near` that the page loops leave less than the threshold
    behind. For that the subtraction must not have wrapped, which needs `Bounds`: no more
    is counted than was read, the positions in order (`Behind`), and `WidthAssumption`.
  - `FramesAddUpAlways` (which includes the type invariant, and with it that `pcm_` never
    overflows), `PagesNotHeldAlways`, `StreamsEndAlways`: for any size of block,
    lookahead, threshold and blocks read, any choice of the libraries, and failures at any
    call. What the statements except (MP3 and FLAC, signals, failures) is in the list below.
* `Barrier`: `BarrierInv` says that until an encoder is late or `free()` is called there is
  a round `r` which is either gathering (everyone has passed `r` changes, `queued` counts
  those who wait at the next) or being left (everyone has reached `r`, `visited` counts those
  who went). The lemmas tie the counters to the set of encoders in `sync()`; that the
  comparison of tokens, which is wrong, is never reached is why the range of tokens
  does not matter. `BarrierLockstep`: for any number of encoders.

`PacingProofs`:

* Everything rests on one lemma, `UpdateExact`: a clock that is exact is so after
  `update`, as the remainder of the division by the length of a frame is kept. What the
  invariant adds (`JobInv`, `FillInv`) is for the type invariant: which buffer the job is
  at and that its block is not empty, and that a card never asks for less than nothing,
  which needs that division is monotone.
* `ClocksExact`: for any rate that 4 divides, up to one frame a tick, any sizes and
  margins, and updates at any times.
* `BrocaPacedInTime`: `Slept` says that a broca goes on only when it is less than the
  threshold ahead, by its clock, and sleeps no longer than what it has sent lasts, by the
  rounded duration of a frame; that the clock is exact makes real time of both.
* `CardDroppedOnlyIfStarved`: the strengthening is `Accounts`. `Conserved` adds up, for
  each card, what is in the buffer, what was asked for and got, and what was skipped, and
  equates it with what the job gave. `Deadline` says what the deadline of a timed write is
  in terms of what was given, although it is worked out from a clock last updated at the
  block before. A frame is skipped at a deadline that has passed with a full buffer, and
  the rest is arithmetic with the rounding of `Drift`.

`PcmBufferProofs`:

* The stream that the buffer stands for is `Pending`, a recursive function over the queue
  of changes, and where the bytes of each change end is another, `EndOf`. Both are
  reasoned about through what characterises them (`Ends`, `Streams`): there is such a
  function and only one, by induction over sets of numbers (`SetInduction`, from the
  well-foundedness of `<`; no operator is passed to a theorem). The lemmas then say
  what adding and removing changes and bytes does to them.
* `Types /\ Accounts` is inductive: the last of these ends, with what is stored but not
  yet counted, is the length of the ring. `PcmCountsMatchRing` follows.
* `PcmInRightPositions` is the refinement of `TrackStream`: an invariant is not
  enough for it, and each action has a lemma that says what it does to the stream: the
  first change is taken (`WholeOfRest`), bytes are taken (`WholeOfRead`), a round of a write
  puts bytes at the end (`WholeOfStored`), counting them changes nothing
  (`WholeOfCounted`), a change is put at the end (`WholeOfLonger`).
* Both assume `Skip`, that is timed writes, the default (`skip` in the configuration);
  without it TLC finds both violated, as what is stored is never counted (see
  `pcm_buffer_blocking`). `PcmBlockingReadsNothing` states that fault for every size and
  schedule: not one byte is read before the ring is closed.
* `PcmCurrentTrackFinished` holds for blocking writes too, and assumes that the ring holds
  whole frames (`Size % FrameBytes = 0`; without it the encoder stops, see below on
  `serverconfig.cc:126`). It needs that every counter and every block then is a whole
  number of frames (`WholeFrames`), so that the encoder cannot end for want of half a
  frame, and that it asks whether the buffer is closed only with nothing left of the track
  (`Orderly`).

`PacketPipelineProofs`:

* The invariant is about the line of bytes to each broca: the byte that the broca
  read last (`Mark`), the bytes in its ring, and the byte that the encoder writes to it
  next all *follow* one another, in the same packet or from the end of one to the
  beginning of the next (`Line`, `GoesOn`). Where the ring is empty and where it was
  full, where a header is torn and between the packets, these are the same statement, which
  is why there are no cases of sizes. `InTurn` and `CountsUp` add which packet it is, `Closing`
  that sinks are closed together and why, `EndsWell` how a broca comes to its end.
* `PacketsFramed` assumes that libshout sends (`"shout" \notin Failing`): the Shout broca
  goes on in the middle of a packet after an error (see below on `shout.cc:308`). Files
  and cards may fail, and so may the server in `PacketsHeard`, which is about brocas that
  did not.

`ServerProofs`:

* Until a signal comes the main thread is the only one that closes anything, so that
  `OrderlyJobs` and `OrderlyTracks` can say what its place in `run()` implies: from which step
  on the jobs are over, the buffers closed, the brocas ended. Of each encoder
  `OrderlyTracks` counts: tracks heard are those played, the one in the sink, and the one
  the encoder has in hand. Each thread ends only once the one before it is done
  and has left nothing.
* `ServerEverythingPlayed` and `ServerBuffersExclusive`: for any encoders, any of them
  sharing a barrier or with a broca that may fail, and any number of jobs. Of a broca that
  failed nothing is claimed; what it leaves behind disturbs no other.

`CommandProofs`, about what becomes of a command: its acknowledgments, and its track. The
definitions of `Publisher` carry its name here for the same reason.

* `Publisher`: that published events are in order is not inductive, as it says nothing of
  what is on its way. `IInv` follows a command through the program: what an actor has still
  to do (`Tasks`: it acknowledges before it passes on), that the commands on the way to an
  actor come after the one it is at and not after the one its predecessor is at (`Ways`),
  and that no event in a queue is of a command its source has not come to (`Sourced`).
* `PublishedInOrder`, and `AllEventsAccounted`, whose invariant is a count: the events of a
  queue, those lost, those of dropped changes, and the cardinality of the set of
  acknowledgments still owed add up to one per actor and command.
* `Decoding`: `TracksPlayedApart` is `TrackByTrack` for any configuration, lines, answers,
  media and number of workers, in both builds. Its invariant `TrackInv` holds the commands
  in one order along their whole way: written, being played, taken by workers, in the queue,
  just heard (`InOrder`, `NewestHeld`, which needs that only the thread that reads commands
  makes jobs, of the value it heard last). A job asks for what its command does
  (`JobMade`, `JobCreated`), although a job keeps the place of the command and a path only.
  Within a file, `PacketsPlayed` orders the packets: what was passed on comes before what
  the filter graph or resampler holds, that before what the codec holds, and that before
  what is not read. It is this that an error, a signal or a failed flush between any two
  steps must not disturb: it may lose what is held, and never reorders it.

Only checked by TLC:

* All liveness, in every module.
* `HeldNoLonger` of `Pacing`, for margins shorter and longer than a block. A proof would
  have to relate the deadlines of all buffers to the number of blocks written.
* Of `Decoding`, what is folded over sequences: `LinesObeyed`, `RegisteredAsConfigured`
  (`Registered`) and `OpenedAsTagged` (`Calculated`, `Forwarded`). What a fold computes for
  every sequence takes an induction over data. The configurations, lines and media of the
  run have each kind of output, line, tag and picture that these tell apart.
* The type invariant of `Barrier` once an encoder is late.

## Where the code does not do what it says

Two runs end in a violation, each of something the repository says:

* `barrier_late`: `barrier.cc:61` passes the arguments of `isAhead_` the wrong way
  round, so that an encoder that comes early is taken for one that is late.
* `pcm_buffer_blocking`: `pcmbuffer.cc:175` counts 0 bytes after a blocking write
  that succeeded.

Other departures met while modelling, which no run is kept for:

* The same exchanged arguments can leave an encoder in the barrier for good. With
  the arguments exchanged back, lockstep and return hold for three encoders
  whether or not any of them is late.
* `putNoWait` stores into a closed buffer (`buffer.hh:305` against `buffer.hh:407`).
  `NothingStoredOnceClosed` excepts it.
* A duration that is not a whole number of frames (`serverconfig.cc:126`) lets a
  timed write store part of a frame, at which the encoder stops: neither is it read
  nor is the next change reached. `MCPcmBuffer` has whole frames.
* `run()` takes 0 bytes from a closed buffer for the end (`encoder.cc:170`), although a
  change may be queued: a last track shorter than a frame hides those after it.
* `PcmBuffer::close()` takes no mutex (`pcmbuffer.cc:205`): an encoder about to sleep
  misses it, and `run()` joins it for good, after a signal too, as the list of buffers is
  empty by then. `CloseEndsEncoder` excepts that moment; `Server` has it as `MissClose`, and
  `ProgramEnds` and `FailureStaysLocal` except such an encoder (`Stranded`).
* A file broca that cannot write ends (`file.cc:105`), its ring fills up, and
  the encoder waits for good, and with it all other brocas of that encoder. `run()` then does
  not return after a quit command, until a signal closes the sinks. `EncoderIsServed` and
  `ProgramEnds` except it (`Blocked`); `FailureStaysLocal` says that the other outputs end.
* A track change may be dropped for one encoder (`pcmbuffer.cc:107`), and an encoder may end
  early: the others then wait for it in the barrier, as `docs/configuration.md:197` says,
  until `free()`. `EveryoneReturns` waits for those still to come.
* After a signal, the job may be in the list of PCM buffers while `close()` empties it,
  and the watchdog and the main thread may both be in `close()`; `BuffersExclusive`
  is checked for orderly ends.
* MP3 announces with every packet its position in the track, not the frames in it
  (`lame/mp3.cc:240`), and that position counts every block twice (`:206`, `:238`). A
  broca that keeps time by it waits longer and longer. FLAC announces 0.
  `FramesAddUp` excepts both.
* After an encoding error the FLAC encoder is never finished (`libflac/oggflac.cc:341`), and the
  library refuses to be set up for any later track.
* A signal ends a Vorbis stream without its last page (`libvorbis/oggvorbis.cc:204`);
  the Opus encoder does write its own. `StreamsEnd` excepts Vorbis then.
* After an encoding error in the middle of a track the Opus encoder does not flush its
  resampler, and what that holds back opens the next track.
* The final Opus packet should have "the config from the last TOC, but with code 0"
  (`libopus/oggopus.cc:531`); the mask below keeps the code and drops the highest bits of the
  configuration. The bytes are not modelled.
* `libswresample/lswr.cc:125` advances a pointer to bytes by a number of floats.
* After a send error the Shout broca reconnects without skipping the rest of the packet
  (`broca/shout/shout.cc:308`) and reads data as a header. With `"shout"` in `Failing`,
  `Framed` fails; `MCPacketPipeline` leaves it out.
* A signal while an encoder waits in a barrier leaves the program running for good:
  `server.cc:353` does not free the barriers as `:341` does. `ProgramEnds` excepts an encoder
  that is in a barrier with one that has gone, once nobody is going to free it (`Stranded`).

The PortAudio broca, the clock and pacing:

* The PortAudio broca acknowledges no command.
* The margin before a frame is skipped (0.1 s, `serverconfig.cc:109`) is longer than a
  block of `silence` (46 ms, `decoder/silence.cc:44`). With an encoder that stalls, each block
  waits for the margin (`pcmbuffer.cc:139`), and the decoder falls behind real time for
  good. `HeldNoLonger` states what it waits at most; `MCPacing` has such a margin.
* `docs/configuration.md:156` has a write to a full buffer wait for the duration of the block,
  multiplied by `skipfactor`, and the margin. The factor is worked out (`pcmbuffer.cc:55`) and
  never used: the write waits until the frame clock is no longer ahead, and the margin
  (`pcmbuffer.cc:139`), which may be as long as the buffer.
* The clock of a PCM buffer is reset by the first block only, so pauses between jobs count
  for ever, and frames that were missed in a pause are not skipped later.
* The duration of a frame is rounded down to nanoseconds: the clock drifts (`Drift`).
* At a rate that 4 does not divide (22050, say), a quarter of a second is no whole number of
  frames, and the blocks of the splitter end inside one (`pcmbuffer.cc:217`).
* A rate below 4 makes blocks of no frames and `PcmSplitter::pcm` an endless loop, a rate
  of 0 or above 10^9 a division by 0. `RateAssumption` excludes all three.
* A signal that cuts off a command while it is parsed from the ring ends the program by an
  exception (`metadata.cc:114`); `Framed` excepts signals.

Configuration, queues and decoders:

* The file of a write queue cannot be given as an object: `queue/file.cc:111` takes the
  object for a string and throws. The example of the documentation cannot start.
* Sections `publish`, `pcmbuffer` and `resampler` of the wrong type are ignored without
  a word. The topic of a ZeroMQ queue is always "topic" (`queue/zeromq/zeromq.cc:96`).
* One broca more than `MAX_BROCAS` is accepted (`registry.cc`, `totalBrocas++ >`).
* What is left of a malformed line of more than 255 bytes is read as a command.
  `LinesObeyed` excepts files with such lines. The line buffer works out a size from a
  null pointer (`queue/queueutil.hh:66`), which is harmless only because the parser takes
  the end of the string for that of the line.
* An HTTP server whose answer lacks `cmd` or `param` is asked again without a pause.
* A receive of ZeroMQ that a signal interrupts throws (`queue/zeromq/zeromq.cc:61`), on a
  thread where nobody catches it. `Receive` leaves it out.
* A write queue tries once; an event that cannot be sent is lost.
* With the sample format `s8` the first `lavc` command ends the program by an exception
  that nobody catches (`lavc.cc:282`). `CommandsEnd` allows for it.
* One packet that cannot be decoded ends its track (`lavc.cc:1014`); `LinesObeyed` is about
  runs without failures.
* `ret = av_read_frame(...) >= 0` (`lavc.cc:1011`) assigns the comparison; nothing depends on it.
* After a signal `filterFrames_` returns a value that was never set (`lavc.cc:619`);
  `NoFiltered` has both outcomes.
* The gain is applied in fixed point that overflows above 24 dB (`lavc.cc:654`). Gains
  are not applied in the model.
* Album art may be enlarged: a small picture with many bytes is scaled to the
  configured size. In the build with `libswresample` `r128Fix` has no effect.
* What `lavc.cc:941` would take for the gain of Opus files never is: there is no codec context
  yet when metadata is read. `Calculated` leaves it out.
* The reader thread is detached, and may outlive the server that it uses: `CommandsEnd` is
  about the program, not about that thread.

## Not modelled, and why

* The contents of audio, metadata and pictures; logging; command line parameters.
* Sample conversion and the application of gain (`pcmconvert.hh`, `lavc.cc:640-745`):
  arithmetic on single samples, most of it in floating point.
* libav, libcurl, ZeroMQ, PortAudio, libshout and the codecs: their calls are choices
  among what the code tells apart.
* What codecs refuse when an encoder is opened, and a lack of memory.
* Time outside `Pacing`: a timed wait may end at any moment, which covers every clock.
* `clear()`, `readPartial` and `writeMovePartial` of the ring buffer have no caller.

## Plan

1. `JobQueue`, `JobPipeline` and proofs: done.
2. `RingBuffer`, `BoundedFifo` and proofs: done.
3. `Barrier` and proof of lockstep: done. Its type invariant in late rounds is checked only.
4. `PcmBuffer`, `TrackStream` and proofs of all its safety properties: done.
5. `PacketPipeline` and proofs: done.
6. `Server` and proofs: done.
7. `Publisher` and proofs: done.
8. `TrackFormats` and proofs of all its safety properties: done.
9. `Pacing` and proofs of all its safety properties but `HeldNoLonger`: done.
10. `Configuration`, `Shell`, `LavcTrack`, `Decoding`, and proof of `TrackByTrack`: done. What
    is left is folds over sequences.
