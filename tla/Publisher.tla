----------------------------- MODULE Publisher -----------------------------
(***************************************************************************)
(* exo::Publisher and the way of a command through the program.  The       *)
(* decoder, then every encoder, then every broca acknowledges a command    *)
(* as it comes to them, each from a thread of its own, by pushing an event *)
(* to every publish queue, which is bounded and has a thread that writes   *)
(* the events out.                                                         *)
(*                                                                         *)
(* The PCM buffers and the packet rings between the three are modelled in  *)
(* modules of their own; here they are sequences of commands, of which a   *)
(* PCM buffer may drop one.                                                *)
(***************************************************************************)
EXTENDS Naturals, Sequences, FiniteSets, SequencesExt

CONSTANTS Decoder,      \* the job that runs, one at a time
          Encoders, Brocas,
          Source,       \* per broca: the encoder it gets its packets from
          Queues,       \* queues_
          Room,         \* EVENT_BUFFER_SIZE
          MaxCommands   \* bound: commands that create a job

ASSUME ActorsAssumption ==
  Decoder \notin Encoders \cup Brocas /\ Encoders \cap Brocas = {}
ASSUME SourceAssumption == Source \in [Brocas -> Encoders]
ASSUME QueuesAssumption ==
  Queues \cap ({Decoder} \cup Encoders \cup Brocas) = {}
ASSUME FiniteAssumption ==
  IsFiniteSet(Encoders) /\ IsFiniteSet(Brocas) /\ IsFiniteSet(Queues)
ASSUME RoomAssumption   == Room \in Nat \ {0}
ASSUME BoundAssumption  == MaxCommands \in Nat

Actors == {Decoder} \cup Encoders \cup Brocas

VARIABLES
  decoded,      \* commands the decoder has come to
  inbox,        \* per encoder and broca: the commands on their way to it
  now,          \* per actor: the command it is at
  todo,         \* per actor: the queues and actors it has to pass it to
  events,       \* per queue: events_
  publish,      \* per queue: its thread, "top", "get", "write" or "done"
  event,        \* per queue: the event its thread has
  published,    \* history, per queue: the events written
  lost,         \* history, per queue: how many events found no room
  missed,       \* history: acknowledgments owed for dropped track changes
  shut, signalled \* closed_ of the queues, terminating_

actorVars   == <<decoded, inbox, now, todo, missed>>
publishVars == <<publish, event, published>>
publisherVars == <<actorVars, events, lost, publishVars, shut, signalled>>

Event(a, c) == [source |-> a, command |-> c]

\* Whom an actor passes a command on to.
Targets(a) == IF a = Decoder THEN Encoders ELSE {b \in Brocas : Source[b] = a}

\* Seeded fault: a command is acknowledged after it has been passed on.
Duties_SendFirst(a) == SetToSeq(Targets(a)) \o SetToSeq(Queues)

\* What an actor does with a command: it acknowledges it, queue by queue, and
\* then passes it on.
Duties(a) == SetToSeq(Queues) \o SetToSeq(Targets(a))

PublisherInit ==
  /\ decoded = 0 /\ missed = 0
  /\ inbox = [a \in Encoders \cup Brocas |-> <<>>]
  /\ now = [a \in Actors |-> 0] /\ todo = [a \in Actors |-> <<>>]
  /\ events = [q \in Queues |-> <<>>] /\ lost = [q \in Queues |-> 0]
  /\ publish = [q \in Queues |-> "top"]
  /\ event = [q \in Queues |-> Event(Decoder, 0)]
  /\ published = [q \in Queues |-> <<>>]
  /\ shut = FALSE /\ signalled = FALSE

-----------------------------------------------------------------------------
(* The actors.                                                             *)

\* A job runs and calls PcmSplitter::metadata.
Decode ==
  /\ todo[Decoder] = <<>> /\ ~shut
  /\ decoded < MaxCommands
  /\ decoded' = decoded + 1
  /\ now' = [now EXCEPT ![Decoder] = decoded + 1]
  /\ todo' = [todo EXCEPT ![Decoder] = Duties(Decoder)]
  /\ UNCHANGED <<inbox, missed, events, lost, publishVars, shut, signalled>>

\* An encoder reads a track change, a broca a command packet.
Arrive(a) ==
  /\ todo[a] = <<>> /\ inbox[a] # <<>>
  /\ inbox' = [inbox EXCEPT ![a] = Tail(@)]
  /\ now' = [now EXCEPT ![a] = Head(inbox[a])]
  /\ todo' = [todo EXCEPT ![a] = Duties(a)]
  /\ UNCHANGED <<decoded, missed, events, lost, publishVars, shut, signalled>>

HasRoom(q) == Len(events[q]) < Room

\* PublishQueue::push: putNoWait, which does not look at closed_ either.
Push(a) ==
  /\ todo[a] # <<>> /\ Head(todo[a]) \in Queues
  /\ LET q == Head(todo[a])
     IN IF HasRoom(q)
        THEN /\ events' = [events EXCEPT ![q] = Append(@, Event(a, now[a]))]
             /\ UNCHANGED lost
        ELSE /\ lost' = [lost EXCEPT ![q] = @ + 1]
             /\ UNCHANGED events
  /\ todo' = [todo EXCEPT ![a] = Tail(@)]
  /\ UNCHANGED <<decoded, inbox, now, missed, publishVars, shut, signalled>>

\* The command reaches a PCM buffer or a packet ring.
Send(a) ==
  /\ todo[a] # <<>> /\ Head(todo[a]) \in Actors
  /\ inbox' = [inbox EXCEPT ![Head(todo[a])] = Append(@, now[a])]
  /\ todo' = [todo EXCEPT ![a] = Tail(@)]
  /\ UNCHANGED <<decoded, now, missed, events, lost, publishVars, shut, signalled>>

\* The PCM buffer has no row left for a track change: the encoder and its
\* brocas never hear of the command.
DropChange ==
  /\ todo[Decoder] # <<>> /\ Head(todo[Decoder]) \in Encoders
  /\ todo' = [todo EXCEPT ![Decoder] = Tail(@)]
  /\ missed' = missed + 1 + Cardinality(Targets(Head(todo[Decoder])))
  /\ UNCHANGED <<decoded, inbox, now, events, lost, publishVars, shut, signalled>>

-----------------------------------------------------------------------------
(* The threads of the publish queues.                                      *)

Top(q) ==
  /\ publish[q] = "top"
  /\ publish' = [publish EXCEPT ![q] = IF signalled THEN "done" ELSE "get"]
  /\ UNCHANGED <<actorVars, events, lost, event, published, shut, signalled>>

GetEvent(q) ==
  /\ publish[q] = "get" /\ events[q] # <<>>
  /\ event' = [event EXCEPT ![q] = Head(events[q])]
  /\ events' = [events EXCEPT ![q] = Tail(@)]
  /\ publish' = [publish EXCEPT ![q] = "write"]
  /\ UNCHANGED <<actorVars, lost, published, shut, signalled>>

\* Seeded fault: events left in a closed queue are forgotten.
GetNothing_Closed(q) ==
  /\ publish[q] = "get" /\ shut
  /\ publish' = [publish EXCEPT ![q] = "done"]
  /\ UNCHANGED <<actorVars, events, lost, event, published, shut, signalled>>

\* Seeded fault: only a signal ends the thread.
GetNothing_Signal(q) ==
  /\ publish[q] = "get" /\ events[q] = <<>> /\ shut /\ signalled
  /\ publish' = [publish EXCEPT ![q] = "done"]
  /\ UNCHANGED <<actorVars, events, lost, event, published, shut, signalled>>

\* get() returns nothing: run() returns.
GetNothing(q) ==
  /\ publish[q] = "get" /\ events[q] = <<>> /\ shut
  /\ publish' = [publish EXCEPT ![q] = "done"]
  /\ UNCHANGED <<actorVars, events, lost, event, published, shut, signalled>>

\* The event is converted and written, which may take long.
WriteEvent(q) ==
  /\ publish[q] = "write"
  /\ published' = [published EXCEPT ![q] = Append(@, event[q])]
  /\ publish' = [publish EXCEPT ![q] = "top"]
  /\ UNCHANGED <<actorVars, events, lost, event, shut, signalled>>

-----------------------------------------------------------------------------
(* The server.                                                             *)

Idle == /\ \A a \in Actors : todo[a] = <<>>
        /\ \A a \in Encoders \cup Brocas : inbox[a] = <<>>

\* After jobs, encoders and brocas were joined, or because of a signal.
Close ==
  /\ ~shut
  /\ Idle \/ signalled
  /\ shut' = TRUE
  /\ UNCHANGED <<actorVars, events, lost, publishVars, signalled>>

Terminate ==
  /\ ~signalled
  /\ signalled' = TRUE
  /\ UNCHANGED <<actorVars, events, lost, publishVars, shut>>

-----------------------------------------------------------------------------
PublishStep(q) == Top(q) \/ GetEvent(q) \/ GetNothing(q) \/ WriteEvent(q)

PublisherNext ==
  \/ Decode
  \/ \E a \in Encoders \cup Brocas : Arrive(a)
  \/ \E a \in Actors : Push(a) \/ Send(a)
  \/ DropChange
  \/ \E q \in Queues : PublishStep(q)
  \/ Close \/ Terminate

\* The threads of the publish queues keep running; a write returns.
PublisherFairness == \A q \in Queues : WF_publisherVars(PublishStep(q))

PublisherSpec == PublisherInit /\ [][PublisherNext]_publisherVars /\ PublisherFairness

-----------------------------------------------------------------------------
(* Properties.                                                             *)

\* The variables hold what their declarations say; in particular a queue
\* never holds more events than it has room for.
TypeOK ==
  /\ decoded \in 0 .. MaxCommands /\ missed \in Nat
  /\ inbox \in [Encoders \cup Brocas -> Seq(1 .. MaxCommands)]
  /\ now \in [Actors -> 0 .. MaxCommands]
  /\ todo \in [Actors -> Seq(Queues \cup Encoders \cup Brocas)]
  /\ \A q \in Queues : Len(events[q]) <= Room
  /\ lost \in [Queues -> Nat]
  /\ publish \in [Queues -> {"top", "get", "write", "done"}]
  /\ shut \in BOOLEAN /\ signalled \in BOOLEAN

\* Whether a gets its commands from b, directly or not.
Behind(a, b) ==
  \/ b = Decoder /\ a # Decoder
  \/ a \in Brocas /\ b = Source[a]

\* In what is published, a command acknowledged by a broca or an encoder is
\* never acknowledged afterwards by the encoder or the decoder it came from,
\* nor is an earlier command; and nobody acknowledges a command twice or two
\* commands in the wrong order.  Events may be missing.
AcknowledgedInOrder ==
  /\ TypeOK
  /\ \A q \in Queues : \A i, j \in 1 .. Len(published[q]) :
       LET e == published[q][i]
           f == published[q][j]
       IN  i < j /\ (e.source = f.source \/ Behind(e.source, f.source)) =>
             f.command > e.command

\* After an orderly end every acknowledgment is accounted for: it was
\* published, or it found no room, or its track change was dropped.
EventsAccounted ==
  \A q \in Queues : publish[q] = "done" /\ ~signalled =>
    Len(published[q]) + lost[q] + missed
      = decoded * (1 + Cardinality(Encoders) + Cardinality(Brocas))

\* Once closed, every publish queue ends, which the server waits for.
PublisherEnds == shut ~> \A q \in Queues : publish[q] = "done"

=============================================================================
