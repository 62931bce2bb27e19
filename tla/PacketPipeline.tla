--------------------------- MODULE PacketPipeline ---------------------------
(***************************************************************************)
(* One encoder and its brocas.  BaseEncoder::packet writes every packet to *)
(* one PacketRingBuffer after the other; each is the source of one broca.  *)
(* A packet is a header and then dataSize bytes in a ring of bytes: the    *)
(* header says where the next packet begins, and nothing else does.        *)
(*                                                                         *)
(* Rings are the bounded FIFOs that RingBuffer implements.  A byte is the  *)
(* packet it belongs to, its position and the packet's size, so that a     *)
(* reader that loses its place can be told from one that has not.          *)
(***************************************************************************)
EXTENDS Naturals, Sequences

CONSTANTS Brocas,
          Order,       \* the brocas in the order of sinks_
          Outputs,     \* what may be configured: what kind each broca is
          Size,        \* bytes in a ring: "buffer"
          HeaderSize,  \* bytes in a header
          CallbackSize,\* bytes an audio callback has to give
          Failing,     \* the kinds of broca whose writes, or whose start, may fail
          DataSizes,   \* bound: bytes of data that a packet may have
          MaxPackets   \* bound: packets

ASSUME SizesAssumption  == {Size, HeaderSize, CallbackSize} \subseteq Nat \ {0}
ASSUME KindAssumption   ==
  Outputs \subseteq [Brocas -> {"file", "discard", "shout", "portaudio"}]
ASSUME OrderAssumption  ==
  /\ Order \in Seq(Brocas) /\ Order # <<>>
  /\ \A b \in Brocas : \E i \in 1 .. Len(Order) : Order[i] = b
  /\ \A i, j \in 1 .. Len(Order) : Order[i] = Order[j] => i = j
ASSUME FailAssumption   == Failing \subseteq {"file", "shout", "portaudio"}
ASSUME BoundAssumption  == DataSizes \subseteq Nat /\ MaxPackets \in Nat

VARIABLES
  ring, closed,       \* per broca: its source
  encoder,            \* "idle", "writing" or "done"
  at, out,            \* the sink being written, the bytes it still has to get
  packets,            \* packets the encoder has made
  pc,                 \* per broca: see Steps
  header,             \* per broca: the bytes of a header read so far
  left,               \* per broca: left_, bytes left of the current packet
  want,               \* per broca: bytes its audio callback still has to give
  Kind,               \* per broca: what it is configured to be
  heard,              \* history, per broca: packets it has read whole
  failed,             \* history: the brocas that could not write
  terminating         \* terminating_

encoderVars == <<encoder, at, out, packets>>
brocaVars   == <<pc, header, left, want, heard, Kind, failed>>
vars == <<ring, closed, encoderVars, brocaVars, terminating>>

Steps == {"open", "top", "header", "data", "lost", "done", "aborted"}
Kinds == {"data", "metadata", "command"}

Least(a, b) == IF a <= b THEN a ELSE b

Byte(n, k, size, i) == [packet |-> n, kind |-> k, size |-> size, at |-> i]

\* writePacket: the header and the data.
Packet(n, k, size) == [i \in 1 .. HeaderSize + size |-> Byte(n, k, size, i)]

-----------------------------------------------------------------------------
Init ==
  /\ Kind \in Outputs
  /\ ring = [b \in Brocas |-> <<>>] /\ closed = [b \in Brocas |-> FALSE]
  /\ encoder = "idle" /\ at = 1 /\ out = <<>> /\ packets = 0
  /\ pc = [b \in Brocas |-> IF Kind[b] \in {"shout", "portaudio"} THEN "open" ELSE "top"]
  /\ header = [b \in Brocas |-> <<>>]
  /\ left = [b \in Brocas |-> 0] /\ want = [b \in Brocas |-> 0]
  /\ heard = [b \in Brocas |-> <<>>] /\ failed = {}
  /\ terminating = FALSE

-----------------------------------------------------------------------------
(* The encoder.                                                            *)

\* packet() is called: by run() with a command, by startTrack with metadata,
\* by any of the encoder's methods with data.
MakePacket(k, size) ==
  /\ encoder = "idle" /\ packets < MaxPackets
  /\ packets' = packets + 1
  /\ out' = Packet(packets + 1, k, size)
  /\ at' = 1
  /\ encoder' = "writing"
  /\ UNCHANGED <<ring, closed, brocaVars, terminating>>

\* Done with this sink; the next one gets the same packet.
NextSink(packet) ==
  IF at < Len(Order) THEN at' = at + 1 /\ out' = packet /\ UNCHANGED encoder
                     ELSE encoder' = "idle" /\ UNCHANGED <<at, out>>

\* The packet that is being written, from any byte of it.
Whole(byte) == Packet(byte.packet, byte.kind, byte.size)

Space(b) == Size - Len(ring[b])

\* One round of a writeFull.
Put ==
  LET b == Order[at]
      n == Least(Len(out), Space(b))
  IN  /\ encoder = "writing"
      /\ ~closed[b] /\ n > 0
      /\ ring' = [ring EXCEPT ![b] = @ \o SubSeq(out, 1, n)]
      /\ IF n = Len(out) THEN NextSink(Whole(Head(out)))
         ELSE out' = SubSeq(out, n + 1, Len(out)) /\ UNCHANGED <<encoder, at>>
      /\ UNCHANGED <<closed, packets, brocaVars, terminating>>

\* Seeded fault: a writer does not look at closed_.
PutNothing_Never == FALSE /\ UNCHANGED vars

\* The sink is closed: the rest of the packet is dropped.
PutNothing ==
  /\ encoder = "writing"
  /\ closed[Order[at]]
  /\ NextSink(Whole(Head(out)))
  /\ UNCHANGED <<ring, closed, packets, brocaVars, terminating>>

\* Seeded fault: the encoder ends without close().
EncoderEnds_Open ==
  /\ encoder = "idle"
  /\ encoder' = "done"
  /\ UNCHANGED <<ring, closed, at, out, packets, brocaVars, terminating>>

\* run() ends with close(): the source is closed, or the program terminates.
EncoderEnds ==
  /\ encoder = "idle"
  /\ encoder' = "done"
  /\ closed' = [b \in Brocas |-> TRUE]
  /\ UNCHANGED <<ring, at, out, packets, brocaVars, terminating>>

-----------------------------------------------------------------------------
(* A broca.                                                                *)

GoTo(b, step) == pc' = [pc EXCEPT ![b] = step]

\* A callback of the audio library, which asks for packets as it needs them.
Plays(b) == Kind[b] = "portaudio"

\* shout_open succeeds; a failure is tried again later and changes nothing.
\* Pa_StartStream succeeds whether or not the program terminates, and the
\* library calls back for the first time.
Open(b) ==
  /\ pc[b] = "open" /\ (Plays(b) \/ ~terminating)
  /\ GoTo(b, "top")
  /\ want' = [want EXCEPT ![b] = IF Plays(b) THEN CallbackSize ELSE 0]
  /\ UNCHANGED <<ring, closed, encoderVars, header, left, heard, Kind, failed, terminating>>

\* Pa_StartStream fails: runImpl returns.
OpenFails(b) ==
  /\ pc[b] = "open" /\ Plays(b) /\ Kind[b] \in Failing
  /\ failed' = failed \cup {b}
  /\ GoTo(b, "done")
  /\ UNCHANGED <<ring, closed, encoderVars, header, left, want, heard, Kind, terminating>>

\* The loop goes on to readPacket().  A callback does so for as long as it has
\* bytes to give, whether or not the program terminates.
Loop(b) ==
  /\ pc[b] = "top"
  /\ IF Plays(b) THEN want[b] > 0 ELSE ~terminating
  /\ GoTo(b, "header")
  /\ header' = [header EXCEPT ![b] = <<>>]
  /\ UNCHANGED <<ring, closed, encoderVars, left, want, heard, Kind, failed, terminating>>

LoopEnds(b) ==
  /\ pc[b] \in {"open", "top"} /\ terminating /\ ~Plays(b)
  /\ GoTo(b, "done")
  /\ UNCHANGED <<ring, closed, encoderVars, header, left, want, heard, Kind, failed, terminating>>

\* A callback that has given all its bytes is the last one if the program
\* terminates.  The next one begins with the rest of the packet in packet_.
CallbackEnds(b) ==
  /\ Plays(b) /\ pc[b] \in {"top", "data"} /\ want[b] = 0
  /\ IF terminating THEN GoTo(b, "done") /\ UNCHANGED want
     ELSE want' = [want EXCEPT ![b] = CallbackSize] /\ UNCHANGED pc
  /\ UNCHANGED <<ring, closed, encoderVars, header, left, heard, Kind, failed, terminating>>

\* Seeded fault: a closed source is taken for a drained one.
Drained_Closed(b) == closed[b]

\* source_->closed()
Drained(b) == closed[b] /\ ring[b] = <<>>

IsHeader(s) ==
  Len(s) = HeaderSize /\ \A i \in 1 .. HeaderSize : s[i] = [s[1] EXCEPT !.at = i]

\* readPacket(), one round of its readFull: what it reads may complete the
\* header, or be no header at all.
ReadHeader(b) ==
  LET n == Least(HeaderSize - Len(header[b]), Len(ring[b]))
      h == header[b] \o SubSeq(ring[b], 1, n)
  IN  /\ pc[b] = "header"
      /\ n > 0
      /\ ring' = [ring EXCEPT ![b] = SubSeq(@, n + 1, Len(@))]
      /\ header' = [header EXCEPT ![b] = h]
      /\ IF Len(h) < HeaderSize THEN UNCHANGED <<pc, left>>
         ELSE IF IsHeader(h)
           THEN GoTo(b, "data") /\ left' = [left EXCEPT ![b] = h[1].size]
           ELSE GoTo(b, "lost") /\ UNCHANGED left
      /\ UNCHANGED <<closed, encoderVars, want, heard, Kind, failed, terminating>>

\* readPacket() returns nothing: runImpl returns, the stream is complete.
NoPacket(b) ==
  /\ pc[b] = "header"
  /\ Drained(b)
  /\ GoTo(b, "done")
  /\ UNCHANGED <<ring, closed, encoderVars, header, left, want, heard, Kind, failed, terminating>>

IsData(b) == header[b][1].kind = "data"

\* Only the data packets of two kinds of broca are read in pieces, between
\* which the loop can end; commands are parsed, metadata is parsed or skipped,
\* and the discard broca skips whatever comes.
InPieces(b) == Kind[b] \in {"file", "shout"} /\ IsData(b)

\* A command is parsed from the ring, except by a callback, which skips it.
Parses(b) == header[b][1].kind = "command" /\ ~Plays(b)

\* Data is taken from the ring, by a callback what it has to give.
TakeData(b) ==
  LET gives == Plays(b) /\ IsData(b)
      n == Least(Least(left[b], Len(ring[b])), IF gives THEN want[b] ELSE left[b])
  IN  /\ pc[b] = "data"
      /\ n > 0
      /\ ring' = [ring EXCEPT ![b] = SubSeq(@, n + 1, Len(@))]
      /\ left' = [left EXCEPT ![b] = @ - n]
      /\ want' = [want EXCEPT ![b] = @ - (IF gives THEN n ELSE 0)]
      /\ UNCHANGED <<closed, encoderVars, header, heard, Kind, terminating>>

ReadData(b) == TakeData(b) /\ UNCHANGED <<pc, failed>>

\* What was read cannot be written: the file broca returns, the shout broca
\* connects again and goes on with the next packet.
WriteFails(b) ==
  /\ Kind[b] \in Failing /\ pc[b] = "data" /\ InPieces(b)
  /\ TakeData(b)
  /\ failed' = failed \cup {b}
  /\ GoTo(b, IF Kind[b] = "file" THEN "done" ELSE "open")

\* Seeded fault: metadata is left where it is.
Over_NoSkip(b) == left[b] = 0 \/ Drained(b) \/ header[b][1].kind = "metadata"

\* Seeded fault: readSome() does not wait, which the parser takes for the end.
Over_NoWait(b) == left[b] = 0 \/ ring[b] = <<>> \/ (terminating /\ InPieces(b))

\* The packet was read, or the source has run dry, or the program terminates.
Over(b) == left[b] = 0 \/ Drained(b) \/ (terminating /\ InPieces(b))

\* What is left of a command that was cut off is no JSON: the parser throws in
\* the thread of the broca, where nothing catches it, and the program aborts.
\* Before its first byte the command is taken to be no command.
CutOff(b) == Parses(b) /\ left[b] \in 1 .. header[b][1].size - 1

Aborts(b) ==
  /\ pc[b] = "data"
  /\ Over(b) /\ CutOff(b)
  /\ GoTo(b, "aborted")
  /\ UNCHANGED <<ring, closed, encoderVars, header, left, want, heard, Kind, failed, terminating>>

PacketOver(b) ==
  /\ pc[b] = "data"
  /\ Over(b) /\ ~CutOff(b)
  /\ heard' = IF left[b] > 0 THEN heard
              ELSE [heard EXCEPT ![b] = Append(@, header[b][1].packet)]
  /\ GoTo(b, IF Kind[b] = "discard" /\ header[b][1].kind # "command" /\ Drained(b)
             THEN "done" ELSE "top")
  /\ UNCHANGED <<ring, closed, encoderVars, header, left, want, Kind, failed, terminating>>

-----------------------------------------------------------------------------
(* The server.                                                             *)

\* A signal.
Terminate ==
  /\ ~terminating
  /\ terminating' = TRUE
  /\ UNCHANGED <<ring, closed, encoderVars, brocaVars>>

\* quit() closes the sinks whatever the encoder is doing.
Quit ==
  /\ terminating
  /\ \E b \in Brocas : ~closed[b]
  /\ closed' = [b \in Brocas |-> TRUE]
  /\ UNCHANGED <<ring, encoderVars, brocaVars, terminating>>

-----------------------------------------------------------------------------
EncoderStep == Put \/ PutNothing

BrocaStep(b) ==
  Open(b) \/ Loop(b) \/ LoopEnds(b) \/ CallbackEnds(b) \/ ReadHeader(b)
  \/ NoPacket(b) \/ ReadData(b) \/ PacketOver(b) \/ Aborts(b)

Next ==
  \/ \E k \in Kinds, size \in DataSizes : MakePacket(k, size)
  \/ EncoderStep \/ EncoderEnds
  \/ \E b \in Brocas : BrocaStep(b) \/ WriteFails(b) \/ OpenFails(b)
  \/ Terminate \/ Quit

\* The encoder finishes what it writes, and every broca keeps going: a server
\* can be reached again, a write to it returns.  Signals need not come, but
\* quit() follows them.
Fairness ==
  /\ WF_vars(EncoderStep)
  /\ \A b \in Brocas : WF_vars(BrocaStep(b))
  /\ WF_vars(Quit)

Spec == Init /\ [][Next]_vars /\ Fairness

-----------------------------------------------------------------------------
(* Properties.                                                             *)

\* Rings and headers stay within their sizes, a header promises no more data
\* than a packet has, and the encoder is writing only while there is a rest.
TypeOK ==
  /\ \A b \in Brocas : Len(ring[b]) <= Size /\ Len(header[b]) <= HeaderSize
  /\ closed \in [Brocas -> BOOLEAN] /\ terminating \in BOOLEAN
  /\ encoder \in {"idle", "writing", "done"} /\ at \in 1 .. Len(Order)
  /\ encoder = "writing" => out # <<>>
  /\ pc \in [Brocas -> Steps] /\ want \in [Brocas -> 0 .. CallbackSize]
  /\ left \in [Brocas -> Nat]
  /\ \A b \in Brocas : pc[b] = "data" => left[b] <= header[b][1].size
  /\ packets \in 0 .. MaxPackets
  /\ Kind \in Outputs /\ failed \subseteq Brocas

\* What readPacket() takes for a header is one, however the two writes of a
\* packet are torn by a full ring, and wherever a closing cuts them off.
\* Commands are parsed from the ring while the encoder may still be writing
\* them, by a parser that takes a short read for the end: only a signal can
\* make it meet half a command, and then the program aborts.
Framed ==
  /\ TypeOK
  /\ \A b \in Brocas : pc[b] # "lost" /\ (pc[b] = "aborted" => terminating)

\* An orderly shutdown loses nothing: a broca that could write what it got
\* ends with every packet read.
EveryPacketHeard ==
  \A b \in Brocas \ failed : pc[b] = "done" /\ ~terminating =>
    encoder = "done" /\ heard[b] = [i \in 1 .. packets |-> i]

\* A packet that cannot be written to one of the brocas yet is written to
\* all of them in the end: the encoder never stays blocked, unless a broca
\* is gone because it could not write.
EncoderIsServed == encoder = "writing" ~> (encoder # "writing" \/ failed # {})

\* The end of the encoder, or a signal, is the end of its brocas, of a callback
\* that blocks in readPacket() too; unless one of them aborts the program.
BrocasEnd ==
  \A b \in Brocas : (encoder = "done" \/ terminating) ~>
    (pc[b] = "done" \/ \E c \in Brocas : pc[c] = "aborted")

=============================================================================
