--------------------------- MODULE CommandProofs ---------------------------
(***************************************************************************)
(* Proofs about what becomes of commands.                                  *)
(*                                                                         *)
(* Of the acknowledgments that are published, whatever the encoders,       *)
(* brocas and queues are, however small the queues, and whatever track     *)
(* changes are dropped: that they come in an order that agrees with the    *)
(* way of the commands, and that an orderly end accounts for each.         *)
(*                                                                         *)
(* Of the tracks that are played, whatever the configuration, the values   *)
(* that are read and the media files are, and whatever fails: that they    *)
(* are passed on one after the other, in the order of the commands, and    *)
(* each in the order of its packets.                                       *)
(***************************************************************************)
EXTENDS Publisher, Decoding, TLAPS, FiniteSetTheorems, SequenceTheorems

(***************************************************************************)
(* The acknowledgments.                                                    *)
(***************************************************************************)


Events == [source : Actors, command : Nat]

\* From whom an encoder or a broca gets its commands.
Up(a) == IF a \in Encoders THEN Decoder ELSE Source[a]

\* What was pushed to a queue so far and found room, in order.
Log(q) ==
  published[q] \o (IF publish[q] = "write" THEN <<event[q]>> ELSE <<>>) \o events[q]

Rising(s) == \A i, j \in DOMAIN s : i < j => s[i] < s[j]

QueuesFirst(s) == \A i, j \in DOMAIN s : i < j /\ s[j] \in Queues => s[i] \in Queues

Types ==
  /\ decoded \in 0 .. MaxCommands /\ missed \in Nat
  /\ inbox \in [Encoders \cup Brocas -> Seq(1 .. MaxCommands)]
  /\ now \in [Actors -> 0 .. MaxCommands]
  /\ todo \in [Actors -> Seq(Queues \cup Encoders \cup Brocas)]
  /\ events \in [Queues -> Seq(Events)] /\ event \in [Queues -> Events]
  /\ published \in [Queues -> Seq(Events)] /\ lost \in [Queues -> Nat]
  /\ \A q \in Queues : Len(events[q]) <= Room
  /\ publish \in [Queues -> {"top", "get", "write", "done"}]
  /\ shut \in BOOLEAN /\ signalled \in BOOLEAN

\* Each acknowledges first, then passes on, and does neither twice.
Tasks ==
  \A a \in Actors :
    /\ IsInjective(todo[a]) /\ QueuesFirst(todo[a])
    /\ Range(todo[a]) \subseteq Queues \cup Targets(a)
    /\ Range(todo[a]) \cap Queues # {} => Targets(a) \subseteq Range(todo[a])
    /\ todo[a] # <<>> => now[a] > 0

\* The commands on the way to t come after the one it is at, and none comes
\* after the one that the actor it gets them from is at, or is about to pass.
Way(t) ==
  /\ Rising(inbox[t])
  /\ \A c \in Range(inbox[t]) : now[t] < c /\ c <= now[Up(t)]
  /\ now[t] <= now[Up(t)]
  /\ t \in Range(todo[Up(t)]) =>
       now[t] < now[Up(t)] /\ \A c \in Range(inbox[t]) : c < now[Up(t)]

Ways == now[Decoder] = decoded /\ \A t \in Encoders \cup Brocas : Way(t)

\* Of the events of a queue, none is of a command that its source has not
\* come to, or not acknowledged yet.
Sourced ==
  \A q \in Queues : \A e \in Range(Log(q)) :
    /\ e.command <= now[e.source]
    /\ q \in Range(todo[e.source]) => e.command < now[e.source]

Follows(e, f) ==
  e.source = f.source \/ Behind(e.source, f.source) => f.command > e.command

Ordered(s) == \A i, j \in DOMAIN s : i < j => Follows(s[i], s[j])

IInv == Types /\ Tasks /\ Ways /\ Sourced /\ \A q \in Queues : Ordered(Log(q))

\* Command c is on its way to t, from the actor next to it or further up.
Coming(t, c) ==
  c \in Range(inbox[t]) \/ (c = now[Up(t)] /\ t \in Range(todo[Up(t)]))

Ahead(t, c) == Coming(t, c) \/ (t \in Brocas /\ Coming(Source[t], c))

\* The acknowledgments that q will be given.
Owes(q, a, c) ==
  \/ c = now[a] /\ q \in Range(todo[a])
  \/ a # Decoder /\ Ahead(a, c)

Owed(q) == {p \in Actors \X (1 .. MaxCommands) : Owes(q, p[1], p[2])}

Accounted ==
  \A q \in Queues :
    Len(Log(q)) + lost[q] + missed + Cardinality(Owed(q)) = decoded * Cardinality(Actors)

\* Without a signal, nothing is closed before all is done.
Orderly ==
  /\ shut /\ ~signalled => Idle
  /\ \A q \in Queues :
       publish[q] = "done" /\ ~signalled => shut /\ events[q] = <<>>

-----------------------------------------------------------------------------
(* Sequences.                                                              *)

LEMMA RangeIn ==
  ASSUME NEW S, NEW s \in Seq(S), NEW x \in Range(s)
  PROVE  x \in S
  BY DEF Range

\* What is left of a sequence after its head is all but the head.
LEMMA TailRange ==
  ASSUME NEW S, NEW s \in Seq(S), s # <<>>
  PROVE  /\ Tail(s) \in Seq(S) /\ Head(s) \in S /\ Head(s) \in Range(s)
         /\ Range(s) = Range(Tail(s)) \cup {Head(s)}
         /\ IsInjective(s) => IsInjective(Tail(s)) /\ Head(s) \notin Range(Tail(s))
<1>1. /\ Tail(s) \in Seq(S) /\ Head(s) \in S /\ Len(s) \in Nat \ {0}
      /\ DOMAIN s = 1 .. Len(s) /\ DOMAIN Tail(s) = 1 .. Len(s) - 1
      /\ Head(s) = s[1] /\ \A i \in 1 .. Len(s) - 1 : Tail(s)[i] = s[i + 1]
  OBVIOUS
<1>2. \A x : x \in Range(s) <=> x = s[1] \/ x \in Range(Tail(s))
  <2>1. ASSUME NEW i \in 1 .. Len(s), i # 1
        PROVE  s[i] \in Range(Tail(s))
    <3>1. i - 1 \in 1 .. Len(s) - 1 /\ i - 1 + 1 = i
      BY <1>1, <2>1
    <3> QED
      BY <1>1, <3>1 DEF Range
  <2>2. \A i \in 1 .. Len(s) - 1 : i + 1 \in 1 .. Len(s)
    BY <1>1
  <2> QED
    BY <1>1, <2>1, <2>2 DEF Range
<1>3. IsInjective(s) => IsInjective(Tail(s)) /\ Head(s) \notin Range(Tail(s))
  <2> SUFFICES ASSUME IsInjective(s)
               PROVE  IsInjective(Tail(s)) /\ Head(s) \notin Range(Tail(s))
    OBVIOUS
  <2>1. \A i, j \in 1 .. Len(s) : s[i] = s[j] => i = j
    BY <1>1 DEF IsInjective
  <2>2. \A i \in 1 .. Len(s) - 1 : i + 1 \in 1 .. Len(s) /\ i + 1 # 1
    BY <1>1
  <2>3. \A i, j \in 1 .. Len(s) - 1 : Tail(s)[i] = Tail(s)[j] => i = j
    BY <1>1, <2>1, <2>2
  <2>4. \A i \in 1 .. Len(s) - 1 : Tail(s)[i] # s[1]
    BY <1>1, <2>1, <2>2
  <2> QED
    BY <1>1, <2>3, <2>4 DEF IsInjective, Range
<1> QED
  BY <1>1, <1>2, <1>3

\* What is left is in the order it was in.
LEMMA TailOrder ==
  ASSUME NEW S, NEW s \in Seq(S), s # <<>>
  PROVE  /\ QueuesFirst(s) => QueuesFirst(Tail(s))
         /\ QueuesFirst(s) /\ Range(s) \cap Queues # {} => Head(s) \in Queues
         /\ Rising(s) => Rising(Tail(s)) /\ \A c \in Range(Tail(s)) : Head(s) < c
<1>1. /\ Len(s) \in Nat \ {0}
      /\ DOMAIN s = 1 .. Len(s) /\ DOMAIN Tail(s) = 1 .. Len(s) - 1
      /\ Head(s) = s[1] /\ \A i \in 1 .. Len(s) - 1 : Tail(s)[i] = s[i + 1]
      /\ \A i \in 1 .. Len(s) - 1 : i + 1 \in 1 .. Len(s) /\ 1 < i + 1
  OBVIOUS
<1>2. \A i, j \in 1 .. Len(s) - 1 : i < j => i + 1 < j + 1
  BY <1>1
<1>3. QueuesFirst(s) => QueuesFirst(Tail(s))
  BY <1>1, <1>2 DEF QueuesFirst
<1>4. QueuesFirst(s) /\ Range(s) \cap Queues # {} => Head(s) \in Queues
  <2> SUFFICES ASSUME QueuesFirst(s), NEW i \in 1 .. Len(s), s[i] \in Queues
               PROVE  s[1] \in Queues
    BY <1>1 DEF Range
  <2>1. i = 1 \/ 1 < i
    BY <1>1
  <2> QED
    BY <1>1, <2>1 DEF QueuesFirst
<1>5. Rising(s) => Rising(Tail(s)) /\ \A c \in Range(Tail(s)) : Head(s) < c
  BY <1>1, <1>2 DEF Rising, Range
<1> QED
  BY <1>3, <1>4, <1>5

LEMMA AppendRange ==
  ASSUME NEW S, NEW s \in Seq(S), NEW x \in S
  PROVE  /\ Append(s, x) \in Seq(S) /\ Range(Append(s, x)) = Range(s) \cup {x}
         /\ Rising(s) /\ (\A c \in Range(s) : c < x) => Rising(Append(s, x))
<1>1. /\ Len(s) \in Nat /\ DOMAIN s = 1 .. Len(s) /\ Append(s, x) \in Seq(S)
      /\ DOMAIN Append(s, x) = 1 .. Len(s) + 1
      /\ \A i \in 1 .. Len(s) : Append(s, x)[i] = s[i]
      /\ Append(s, x)[Len(s) + 1] = x
  OBVIOUS
<1>2. \A i \in 1 .. Len(s) + 1 : i \in 1 .. Len(s) \/ i = Len(s) + 1
  BY <1>1
<1>3. 1 .. Len(s) \subseteq 1 .. Len(s) + 1 /\ Len(s) + 1 \in 1 .. Len(s) + 1
  BY <1>1
<1>4. Range(Append(s, x)) = Range(s) \cup {x}
  BY <1>1, <1>2, <1>3 DEF Range
<1>5. ASSUME Rising(s), \A c \in Range(s) : c < x
      PROVE  Rising(Append(s, x))
  <2> SUFFICES ASSUME NEW i \in 1 .. Len(s) + 1, NEW j \in 1 .. Len(s) + 1, i < j
               PROVE  Append(s, x)[i] < Append(s, x)[j]
    BY <1>1 DEF Rising
  <2>1. i \in 1 .. Len(s)
    BY <1>1
  <2>2. CASE j \in 1 .. Len(s)
    BY <1>1, <1>5, <2>1, <2>2 DEF Rising
  <2>3. CASE j = Len(s) + 1
    BY <1>1, <1>5, <2>1, <2>3 DEF Range
  <2> QED
    BY <1>2, <2>2, <2>3
<1> QED
  BY <1>1, <1>4, <1>5

\* An enumeration holds every element, and none twice.
LEMMA Enumeration ==
  ASSUME NEW S, IsFiniteSet(S)
  PROVE  /\ SetToSeq(S) \in Seq(S) /\ IsInjective(SetToSeq(S)) /\ Range(SetToSeq(S)) = S
<1> DEFINE n == Cardinality(S)
<1>1. n \in Nat /\ \E f \in [1 .. n -> S] : IsInjective(f)
  <2>1. n \in Nat /\ ExistsBijection(1 .. n, S)
    BY FS_CardinalityType
  <2> QED
    BY <2>1 DEF ExistsBijection, Bijection, Injection, IsInjective
<1>2. SetToSeq(S) \in [1 .. n -> S] /\ IsInjective(SetToSeq(S))
  BY <1>1 DEF SetToSeq
<1>3. SetToSeq(S) \in Seq(S)
  BY <1>1, <1>2
<1>4. Range(SetToSeq(S)) = S
  <2> DEFINE R == Range(SetToSeq(S))
  <2>1. R \subseteq S /\ IsFiniteSet(R)
    BY <1>2, FS_Subset DEF Range
  <2>2. SetToSeq(S) \in Bijection(1 .. n, R)
    BY <1>2 DEF Bijection, Injection, Surjection, IsInjective, Range
  <2>3. Cardinality(R) = n
    BY <1>1, <2>2, FS_CountingElements DEF ExistsBijection
  <2> QED
    BY <2>1, <2>3, FS_Subset
<1> QED
  BY <1>2, <1>3, <1>4

LEMMA ConcatRange ==
  ASSUME NEW S, NEW s \in Seq(S), NEW t \in Seq(S)
  PROVE  /\ s \o t \in Seq(S) /\ Range(s \o t) = Range(s) \cup Range(t)
         /\ IsInjective(s) /\ IsInjective(t) /\ Range(s) \cap Range(t) = {}
              => IsInjective(s \o t)
         /\ Range(s) \subseteq Queues /\ Range(t) \cap Queues = {} => QueuesFirst(s \o t)
<1>1. /\ Len(s) \in Nat /\ Len(t) \in Nat /\ s \o t \in Seq(S)
      /\ DOMAIN s = 1 .. Len(s) /\ DOMAIN t = 1 .. Len(t)
      /\ DOMAIN (s \o t) = 1 .. Len(s) + Len(t)
      /\ \A i \in 1 .. Len(s) : (s \o t)[i] = s[i]
      /\ \A i \in 1 .. Len(t) : (s \o t)[Len(s) + i] = t[i]
  OBVIOUS
<1>2. ASSUME NEW i \in 1 .. Len(s) + Len(t), i \notin 1 .. Len(s)
      PROVE  i - Len(s) \in 1 .. Len(t) /\ (s \o t)[i] = t[i - Len(s)]
  <2>1. i - Len(s) \in 1 .. Len(t) /\ Len(s) + (i - Len(s)) = i
    BY <1>1, <1>2
  <2> QED
    BY <1>1, <2>1
<1>3. /\ 1 .. Len(s) \subseteq 1 .. Len(s) + Len(t)
      /\ \A i \in 1 .. Len(t) : Len(s) + i \in 1 .. Len(s) + Len(t)
  BY <1>1
<1>4. Range(s \o t) = Range(s) \cup Range(t)
  <2>1. Range(s \o t) \subseteq Range(s) \cup Range(t)
    BY <1>1, <1>2 DEF Range
  <2>2. Range(s) \subseteq Range(s \o t)
    BY <1>1, <1>3 DEF Range
  <2>3. Range(t) \subseteq Range(s \o t)
    BY <1>1, <1>3 DEF Range
  <2> QED
    BY <2>1, <2>2, <2>3
<1>5. ASSUME IsInjective(s), IsInjective(t), Range(s) \cap Range(t) = {}
      PROVE  IsInjective(s \o t)
  <2> SUFFICES ASSUME NEW i \in 1 .. Len(s) + Len(t), NEW j \in 1 .. Len(s) + Len(t),
                      (s \o t)[i] = (s \o t)[j]
               PROVE  i = j
    BY <1>1 DEF IsInjective
  <2>1. CASE i \in 1 .. Len(s) /\ j \in 1 .. Len(s)
    BY <1>1, <1>5, <2>1 DEF IsInjective
  <2>2. CASE i \notin 1 .. Len(s) /\ j \notin 1 .. Len(s)
    <3>1. i - Len(s) = j - Len(s)
      BY <1>1, <1>2, <1>5, <2>2 DEF IsInjective
    <3> QED
      BY <1>1, <3>1
  <2>3. CASE (i \in 1 .. Len(s)) # (j \in 1 .. Len(s))
    <3>1. ASSUME NEW k \in 1 .. Len(s), NEW l \in 1 .. Len(t)
          PROVE  s[k] # t[l]
      BY <1>1, <1>5 DEF Range
    <3> QED
      BY <1>1, <1>2, <2>3, <3>1
  <2> QED
    BY <2>1, <2>2, <2>3
<1>6. ASSUME Range(s) \subseteq Queues, Range(t) \cap Queues = {}
      PROVE  QueuesFirst(s \o t)
  <2> SUFFICES ASSUME NEW i \in 1 .. Len(s) + Len(t), NEW j \in 1 .. Len(s) + Len(t),
                      i < j, (s \o t)[j] \in Queues
               PROVE  (s \o t)[i] \in Queues
    BY <1>1 DEF QueuesFirst
  <2>1. j \in 1 .. Len(s)
    <3>1. \A l \in 1 .. Len(t) : t[l] \notin Queues
      BY <1>1, <1>6 DEF Range
    <3> QED
      BY <1>2, <3>1
  <2>2. i \in 1 .. Len(s)
    BY <1>1, <2>1
  <2> QED
    BY <1>1, <1>6, <2>2 DEF Range
<1> QED
  BY <1>1, <1>4, <1>5, <1>6

\* What comes at the end of the second of two sequences comes at the end.
LEMMA ConcatAppend ==
  ASSUME NEW S, NEW s \in Seq(S), NEW t \in Seq(S), NEW x \in S
  PROVE  s \o Append(t, x) = Append(s \o t, x)
  OBVIOUS

LEMMA HeadMoves ==
  ASSUME NEW S, NEW s \in Seq(S), NEW t \in Seq(S), t # <<>>
  PROVE  s \o <<Head(t)>> \o Tail(t) = s \o <<>> \o t
  OBVIOUS

LEMMA AppendMoves ==
  ASSUME NEW S, NEW s \in Seq(S), NEW t \in Seq(S), NEW x \in S
  PROVE  Append(s, x) \o <<>> \o t = s \o <<x>> \o t
  OBVIOUS

-----------------------------------------------------------------------------
(* What an actor has to do.                                                *)

LEMMA TargetsOf ==
  ASSUME NEW a \in Actors
  PROVE  /\ Targets(a) \subseteq Encoders \cup Brocas /\ IsFiniteSet(Targets(a))
         /\ Targets(a) \cap Queues = {}
         /\ \A t \in Encoders \cup Brocas : t \in Targets(a) <=> Up(t) = a
<1>1. Targets(a) \subseteq Encoders \cup Brocas
  BY DEF Targets
<1>2. IsFiniteSet(Targets(a))
  <2>1. Targets(a) \subseteq Encoders \/ Targets(a) \subseteq Brocas
    BY DEF Targets
  <2> QED
    BY <2>1, FiniteAssumption, FS_Subset
<1>3. \A t \in Encoders \cup Brocas : t \in Targets(a) <=> Up(t) = a
  BY ActorsAssumption, SourceAssumption DEF Targets, Up, Actors
<1> QED
  BY <1>1, <1>2, <1>3, QueuesAssumption

LEMMA DutiesOf ==
  ASSUME NEW a \in Actors
  PROVE  /\ Duties(a) \in Seq(Queues \cup Encoders \cup Brocas)
         /\ IsInjective(Duties(a)) /\ QueuesFirst(Duties(a))
         /\ Range(Duties(a)) = Queues \cup Targets(a)
<1> DEFINE s == SetToSeq(Queues)
           t == SetToSeq(Targets(a))
           S == Queues \cup Encoders \cup Brocas
<1>1. s \in Seq(Queues) /\ IsInjective(s) /\ Range(s) = Queues
  BY FiniteAssumption, Enumeration
<1>2. t \in Seq(Targets(a)) /\ IsInjective(t) /\ Range(t) = Targets(a)
  BY TargetsOf, Enumeration
<1>3. s \in Seq(S) /\ t \in Seq(S) /\ Targets(a) \cap Queues = {}
  BY <1>1, <1>2, TargetsOf
<1> HIDE DEF s, t, S
<1>4. /\ s \o t \in Seq(S) /\ IsInjective(s \o t) /\ QueuesFirst(s \o t)
      /\ Range(s \o t) = Queues \cup Targets(a)
  BY <1>1, <1>2, <1>3, ConcatRange
<1> QED
  BY <1>4 DEF Duties, s, t, S

\* Whoever comes to a command takes on what it has to do with it.
LEMMA TakesOn ==
  ASSUME Types, Tasks, NEW a \in Actors, NEW c \in 1 .. MaxCommands,
         todo' = [todo EXCEPT ![a] = Duties(a)], now' = [now EXCEPT ![a] = c]
  PROVE  Tasks' /\ Range(todo'[a]) = Queues \cup Targets(a)
<1>1. /\ todo'[a] = Duties(a) /\ now'[a] = c
      /\ \A b \in Actors : b # a => todo'[b] = todo[b] /\ now'[b] = now[b]
  BY DEF Types
<1>2. ASSUME NEW b \in Actors, b # a
      PROVE  /\ IsInjective(todo'[b]) /\ QueuesFirst(todo'[b])
             /\ Range(todo'[b]) \subseteq Queues \cup Targets(b)
             /\ Range(todo'[b]) \cap Queues # {} => Targets(b) \subseteq Range(todo'[b])
             /\ todo'[b] # <<>> => now'[b] > 0
  BY <1>1, <1>2 DEF Tasks
<1>3. /\ IsInjective(todo'[a]) /\ QueuesFirst(todo'[a])
      /\ Range(todo'[a]) = Queues \cup Targets(a) /\ now'[a] > 0
  BY <1>1, DutiesOf
<1>4. ASSUME NEW b \in Actors
      PROVE  /\ IsInjective(todo'[b]) /\ QueuesFirst(todo'[b])
             /\ Range(todo'[b]) \subseteq Queues \cup Targets(b)
             /\ Range(todo'[b]) \cap Queues # {} => Targets(b) \subseteq Range(todo'[b])
             /\ todo'[b] # <<>> => now'[b] > 0
  BY <1>2, <1>3
<1> QED
  BY <1>3, <1>4 DEF Tasks, QueuesFirst, Targets

\* What was done is off the list.
LEMMA TicksOff ==
  ASSUME Types, Tasks, NEW a \in Actors, todo[a] # <<>>,
         todo' = [todo EXCEPT ![a] = Tail(todo[a])], now' = now
  PROVE  /\ Tasks' /\ todo' \in [Actors -> Seq(Queues \cup Encoders \cup Brocas)]
         /\ Head(todo[a]) \in Range(todo[a])
         /\ Range(todo'[a]) = Range(todo[a]) \ {Head(todo[a])}
         /\ Head(todo[a]) \notin Queues => Range(todo[a]) \cap Queues = {}
<1>1. /\ todo'[a] = Tail(todo[a])
      /\ \A b \in Actors : b # a => todo'[b] = todo[b]
      /\ todo[a] \in Seq(Queues \cup Encoders \cup Brocas)
  BY DEF Types
<1>2. IsInjective(todo[a]) /\ QueuesFirst(todo[a])
  BY DEF Tasks
<1>3. /\ IsInjective(Tail(todo[a])) /\ QueuesFirst(Tail(todo[a]))
      /\ Head(todo[a]) \in Range(todo[a])
      /\ Range(todo'[a]) = Range(todo[a]) \ {Head(todo[a])}
      /\ todo'[a] \in Seq(Queues \cup Encoders \cup Brocas)
      /\ Head(todo[a]) \notin Queues => Range(todo[a]) \cap Queues = {}
  BY <1>1, <1>2, TailRange, TailOrder
<1>4. ASSUME NEW b \in Actors
      PROVE  /\ IsInjective(todo'[b]) /\ QueuesFirst(todo'[b])
             /\ Range(todo'[b]) \subseteq Queues \cup Targets(b)
             /\ Range(todo'[b]) \cap Queues # {} => Targets(b) \subseteq Range(todo'[b])
             /\ todo'[b] # <<>> => now'[b] > 0
  <2>1. CASE b # a
    BY <1>1, <2>1 DEF Tasks
  <2>2. CASE b = a
    <3>1. /\ Range(todo[a]) \subseteq Queues \cup Targets(a) /\ now[a] > 0
          /\ Range(todo[a]) \cap Queues # {} => Targets(a) \subseteq Range(todo[a])
      BY DEF Tasks
    <3>2. Targets(a) \cap Queues = {}
      BY TargetsOf
    <3>3. Range(todo'[a]) \cap Queues # {} => Targets(a) \subseteq Range(todo'[a])
      BY <1>3, <3>1, <3>2
    <3> QED
      BY <1>1, <1>3, <2>2, <3>1, <3>3
  <2> QED
    BY <2>1, <2>2
<1>5. todo' \in [Actors -> Seq(Queues \cup Encoders \cup Brocas)]
  BY <1>1, <1>3 DEF Types
<1> QED
  BY <1>3, <1>4, <1>5 DEF Tasks, QueuesFirst, Targets

-----------------------------------------------------------------------------
(* The way of the commands.                                                *)

\* Whoever has not acknowledged a command to a queue is ahead of all behind it.
LEMMA AheadOf ==
  ASSUME Types, Tasks, Ways, NEW a \in Actors, NEW x \in Actors, Behind(x, a)
  PROVE  /\ now[x] <= now[a]
         /\ Range(todo[a]) \cap Queues # {} => now[x] < now[a]
<1>0. now[a] \in Nat /\ now[x] \in Nat
  BY BoundAssumption DEF Types
<1>1. CASE x \in Targets(a)
  <2>1. x \in Encoders \cup Brocas /\ Up(x) = a /\ Way(x)
    BY <1>1, TargetsOf DEF Ways
  <2> QED
    BY <1>1, <2>1 DEF Way, Tasks
<1>2. CASE x \notin Targets(a)
  <2>1. /\ a = Decoder /\ x \in Brocas /\ Source[x] \in Targets(a) /\ Up(x) = Source[x]
        /\ Up(Source[x]) = a /\ Source[x] \in Encoders /\ Way(x) /\ Way(Source[x])
    BY <1>2, ActorsAssumption, SourceAssumption DEF Behind, Targets, Actors, Up, Ways
  <2>2. now[Source[x]] \in Nat
    BY <2>1, BoundAssumption DEF Types, Actors
  <2>3. now[x] <= now[Source[x]] /\ now[Source[x]] <= now[a]
    BY <2>1 DEF Way
  <2>4. Range(todo[a]) \cap Queues # {} => now[Source[x]] < now[a]
    BY <2>1 DEF Way, Tasks
  <2> QED
    BY <1>0, <2>2, <2>3, <2>4
<1> QED
  BY <1>1, <1>2

\* An actor that comes to a later command is ahead of all behind it.
LEMMA WaysUp ==
  ASSUME Types, Tasks, Ways, NEW a \in Actors, NEW c \in Nat, now[a] < c,
         now' = [now EXCEPT ![a] = c], NEW t \in Encoders \cup Brocas, Up(t) = a,
         inbox'[t] = inbox[t]
  PROVE  Way(t)'
<1>1. /\ now'[a] = c /\ now[a] \in Nat /\ t # a /\ now'[t] = now[t] /\ now[t] \in Nat
      /\ inbox[t] \in Seq(1 .. MaxCommands) /\ Way(t) /\ Up(t)' = Up(t)
  BY ActorsAssumption, SourceAssumption, BoundAssumption DEF Types, Actors, Up, Ways
<1>2. \A d \in Range(inbox[t]) : d \in Nat
  BY <1>1, BoundAssumption DEF Range
<1>3. now[t] < c /\ \A d \in Range(inbox[t]) : now[t] < d /\ d < c
  BY <1>1, <1>2 DEF Way
<1> QED
  BY <1>1, <1>2, <1>3 DEF Way, Rising

\* The others do not notice.
LEMMA WaysStay ==
  ASSUME Ways, NEW t \in Encoders \cup Brocas, inbox'[t] = inbox[t], now'[t] = now[t],
         now'[Up(t)] = now[Up(t)],
         t \in Range(todo'[Up(t)]) => t \in Range(todo[Up(t)])
  PROVE  Way(t)'
<1>1. Way(t) /\ Up(t)' = Up(t)
  BY DEF Ways, Up
<1> QED
  BY <1>1 DEF Way, Rising

LEMMA DecodeWays == Types /\ Tasks /\ Ways /\ Decode => Ways'
<1> SUFFICES ASSUME Types, Tasks, Ways, Decode PROVE Ways'
  OBVIOUS
<1>1. /\ Decoder \in Actors /\ decoded \in Nat /\ now[Decoder] = decoded
      /\ now' = [now EXCEPT ![Decoder] = decoded + 1] /\ decoded' = decoded + 1
      /\ inbox' = inbox /\ todo' = [todo EXCEPT ![Decoder] = Duties(Decoder)]
      /\ now \in [Actors -> 0 .. MaxCommands]
      /\ todo \in [Actors -> Seq(Queues \cup Encoders \cup Brocas)]
  BY BoundAssumption DEF Decode, Types, Ways, Actors
<1>2. ASSUME NEW t \in Encoders \cup Brocas
      PROVE  Way(t)'
  <2>1. t \in Actors /\ t # Decoder /\ Up(t) \in Actors
    BY ActorsAssumption, SourceAssumption DEF Actors, Up
  <2>2. CASE Up(t) = Decoder
    <3>1. decoded + 1 \in Nat /\ now[Decoder] < decoded + 1 /\ inbox'[t] = inbox[t]
      BY <1>1
    <3> QED
      BY <1>1, <2>2, <3>1, WaysUp
  <2>3. CASE Up(t) # Decoder
    <3>1. now'[t] = now[t] /\ now'[Up(t)] = now[Up(t)] /\ todo'[Up(t)] = todo[Up(t)]
      BY <1>1, <2>1, <2>3
    <3> QED
      BY <1>1, <3>1, WaysStay
  <2> QED
    BY <2>2, <2>3
<1> QED
  BY <1>1, <1>2 DEF Ways

LEMMA ReceiveWays ==
  ASSUME Types, Tasks, Ways, NEW a \in Encoders \cup Brocas, Arrive(a)
  PROVE  Ways'
<1> DEFINE c == Head(inbox[a])
<1>1. /\ a \in Actors /\ a # Decoder /\ decoded' = decoded
      /\ inbox[a] \in Seq(1 .. MaxCommands) /\ inbox[a] # <<>>
      /\ now' = [now EXCEPT ![a] = c] /\ inbox' = [inbox EXCEPT ![a] = Tail(inbox[a])]
      /\ todo' = [todo EXCEPT ![a] = Duties(a)]
      /\ now \in [Actors -> 0 .. MaxCommands]
      /\ todo \in [Actors -> Seq(Queues \cup Encoders \cup Brocas)]
      /\ inbox \in [Encoders \cup Brocas -> Seq(1 .. MaxCommands)]
  BY ActorsAssumption DEF Arrive, Types, Actors
<1>2. /\ c \in Nat /\ c \in Range(inbox[a])
      /\ Range(Tail(inbox[a])) \subseteq Range(inbox[a])
      /\ Rising(Tail(inbox[a])) /\ \A d \in Range(Tail(inbox[a])) : c < d
      /\ now[a] < c
  BY <1>1, TailRange, TailOrder, BoundAssumption DEF Ways, Way
<1> HIDE DEF c
<1>3. ASSUME NEW t \in Encoders \cup Brocas
      PROVE  Way(t)'
  <2>1. t \in Actors /\ t # Decoder /\ Up(t) \in Actors /\ Up(t) # t /\ Up(t)' = Up(t)
    BY ActorsAssumption, SourceAssumption DEF Actors, Up
  <2>2. CASE Up(t) = a
    <3>1. inbox'[t] = inbox[t]
      BY <1>1, <2>1, <2>2
    <3> QED
      BY <1>1, <1>2, <2>2, <3>1, WaysUp
  <2>3. CASE t = a
    <3>1. /\ now'[Up(t)] = now[Up(t)] /\ todo'[Up(t)] = todo[Up(t)] /\ now'[t] = c
          /\ inbox'[t] = Tail(inbox[t]) /\ Way(t)
      BY <1>1, <2>1, <2>3 DEF Ways
    <3>2. /\ \A d \in Range(inbox[t]) : d <= now[Up(t)]
          /\ t \in Range(todo[Up(t)]) => \A d \in Range(inbox[t]) : d < now[Up(t)]
      BY <3>1 DEF Way
    <3> QED
      BY <1>2, <2>1, <2>3, <3>1, <3>2 DEF Way, Rising
  <2>4. CASE t # a /\ Up(t) # a
    <3>1. /\ now'[t] = now[t] /\ now'[Up(t)] = now[Up(t)] /\ todo'[Up(t)] = todo[Up(t)]
          /\ inbox'[t] = inbox[t]
      BY <1>1, <2>1, <2>4
    <3> QED
      BY <3>1, WaysStay
  <2> QED
    BY <2>2, <2>3, <2>4
<1>4. now'[Decoder] = decoded'
  BY <1>1 DEF Ways, Actors
<1> QED
  BY <1>3, <1>4 DEF Ways

\* The one at the head of the list of things to do hears of the command, or not.
LEMMA SendWays ==
  ASSUME Types, Tasks, Ways, NEW a \in Actors, todo[a] # <<>>,
         todo' = [todo EXCEPT ![a] = Tail(todo[a])], UNCHANGED <<now, decoded>>,
         \/ inbox' = inbox
         \/ /\ Head(todo[a]) \in Actors
            /\ inbox' = [inbox EXCEPT ![Head(todo[a])] = Append(inbox[Head(todo[a])], now[a])]
  PROVE  Ways' /\ inbox' \in [Encoders \cup Brocas -> Seq(1 .. MaxCommands)]
<1> DEFINE h == Head(todo[a])
<1>1. /\ h \in Range(todo[a]) /\ Range(todo'[a]) = Range(todo[a]) \ {h}
      /\ now \in [Actors -> 0 .. MaxCommands] /\ now[a] \in 1 .. MaxCommands
      /\ inbox \in [Encoders \cup Brocas -> Seq(1 .. MaxCommands)]
      /\ \A b \in Actors : b # a => todo'[b] = todo[b]
  <2>1. now[a] > 0 /\ now[a] \in 0 .. MaxCommands
    BY DEF Tasks, Types
  <2>2. now[a] \in 1 .. MaxCommands
    BY <2>1, BoundAssumption
  <2> QED
    BY <2>2, TicksOff DEF Types
<1> HIDE DEF h
<1>2. ASSUME NEW t \in Encoders \cup Brocas, inbox'[t] = inbox[t]
      PROVE  Way(t)'
  <2>1. Up(t) \in Actors
    BY SourceAssumption DEF Actors, Up
  <2>2. t \in Range(todo'[Up(t)]) => t \in Range(todo[Up(t)])
    BY <1>1, <2>1
  <2> QED
    BY <1>2, <2>2, WaysStay
<1>3. CASE inbox' = inbox
  BY <1>1, <1>2, <1>3 DEF Ways
<1>4. CASE h \in Actors /\ inbox' = [inbox EXCEPT ![h] = Append(inbox[h], now[a])]
  <2>1. h \in Targets(a) /\ h \in Encoders \cup Brocas /\ Up(h) = a /\ h # a
    <3>1. h \in Targets(a)
      BY <1>1, <1>4, QueuesAssumption DEF Tasks, Actors
    <3> QED
      BY <3>1, TargetsOf, ActorsAssumption, SourceAssumption DEF Up, Actors
  <2>2. /\ inbox[h] \in Seq(1 .. MaxCommands) /\ Way(h) /\ now[h] < now[a]
        /\ \A c \in Range(inbox[h]) : c < now[a] /\ now[h] < c
        /\ Rising(inbox[h])
    BY <1>1, <2>1 DEF Way, Ways
  <2>3. /\ Append(inbox[h], now[a]) \in Seq(1 .. MaxCommands)
        /\ Range(Append(inbox[h], now[a])) = Range(inbox[h]) \cup {now[a]}
        /\ Rising(Append(inbox[h], now[a]))
    <3>1. \A c \in Range(inbox[h]) : c < now[a]
      BY <2>2
    <3>2. /\ Append(inbox[h], now[a]) \in Seq(1 .. MaxCommands)
          /\ Range(Append(inbox[h], now[a])) = Range(inbox[h]) \cup {now[a]}
      <4> DEFINE C == 1 .. MaxCommands
      <4>1. inbox[h] \in Seq(C) /\ now[a] \in C
        BY <1>1, <2>2
      <4> HIDE DEF C
      <4>2. /\ Append(inbox[h], now[a]) \in Seq(C)
            /\ Range(Append(inbox[h], now[a])) = Range(inbox[h]) \cup {now[a]}
        BY <4>1, AppendRange
      <4> QED
        BY <4>2 DEF C
    <3>3. Rising(Append(inbox[h], now[a]))
      BY <1>1, <2>2, <3>1, AppendRange
    <3> QED
      BY <3>2, <3>3
  <2>4. /\ inbox' \in [Encoders \cup Brocas -> Seq(1 .. MaxCommands)]
        /\ inbox'[h] = Append(inbox[h], now[a])
        /\ \A t \in Encoders \cup Brocas : t # h => inbox'[t] = inbox[t]
    BY <1>1, <1>4, <2>1, <2>3
  <2>5. ASSUME NEW t \in Encoders \cup Brocas, t = h
        PROVE  Way(t)'
    <3>1. /\ now[t] \in Nat /\ now[a] \in Nat /\ now[t] < now[a] /\ Up(t) = a
          /\ \A c \in Range(inbox[t]) : c \in Nat /\ c < now[a] /\ now[t] < c
      BY <1>1, <2>1, <2>2, <2>5, BoundAssumption DEF Range, Actors
    <3>2. Range(inbox'[t]) = Range(inbox[t]) \cup {now[a]} /\ Rising(inbox'[t])
      BY <2>3, <2>4, <2>5
    <3>3. \A c \in Range(inbox'[t]) : now[t] < c /\ c <= now[a]
      BY <3>1, <3>2
    <3>4. t \notin Range(todo'[a])
      BY <1>1, <2>5
    <3>5. Up(t)' = a /\ now[t] <= now[a]
      BY <3>1 DEF Up
    <3> QED
      BY <3>2, <3>3, <3>4, <3>5 DEF Way, Rising
  <2>6. \A t \in Encoders \cup Brocas : Way(t)'
    BY <1>2, <2>4, <2>5
  <2> QED
    BY <2>4, <2>6 DEF Ways
<1> QED
  BY <1>3, <1>4 DEF h

-----------------------------------------------------------------------------
(* The actions.                                                            *)

\* The steps of the threads of the queues, and of the server.
OtherStep == (\E q \in Queues : PublishStep(q)) \/ Close \/ Terminate \/ UNCHANGED publisherVars

LEMMA OtherTypes == Types /\ OtherStep => Types'
<1> SUFFICES ASSUME Types, OtherStep PROVE Types'
  OBVIOUS
<1>1. UNCHANGED <<actorVars, lost>>
  BY DEF OtherStep, PublishStep, Top, GetEvent, GetNothing, WriteEvent, Close, Terminate,
         publisherVars
<1>2. /\ events' \in [Queues -> Seq(Events)] /\ event' \in [Queues -> Events]
      /\ published' \in [Queues -> Seq(Events)]
      /\ \A p \in Queues : Len(events'[p]) <= Room
  <2>1. CASE UNCHANGED <<events, event, published>>
    BY <2>1 DEF Types
  <2>2. ASSUME NEW q \in Queues, GetEvent(q)
        PROVE  /\ events' \in [Queues -> Seq(Events)] /\ event' \in [Queues -> Events]
               /\ \A p \in Queues : Len(events'[p]) <= Room
               /\ published' = published
    <3>1. /\ events' = [events EXCEPT ![q] = Tail(events[q])] /\ events[q] # <<>>
          /\ event' = [event EXCEPT ![q] = Head(events[q])] /\ published' = published
          /\ events[q] \in Seq(Events) /\ Len(events[q]) <= Room
      BY <2>2 DEF GetEvent, Types
    <3>2. /\ Tail(events[q]) \in Seq(Events) /\ Head(events[q]) \in Events
          /\ Len(Tail(events[q])) <= Room
      <4>1. Tail(events[q]) \in Seq(Events) /\ Head(events[q]) \in Events
        BY <3>1, TailRange
      <4>2. Len(Tail(events[q])) = Len(events[q]) - 1 /\ Len(events[q]) \in Nat
        BY <3>1
      <4> QED
        BY <3>1, <4>1, <4>2, RoomAssumption
    <3>3. \A p \in Queues : Len(events'[p]) <= Room
      BY <3>1, <3>2 DEF Types
    <3> QED
      BY <3>1, <3>2, <3>3 DEF Types
  <2>3. ASSUME NEW q \in Queues, WriteEvent(q)
        PROVE  published' \in [Queues -> Seq(Events)] /\ UNCHANGED <<events, event>>
    BY <2>3 DEF WriteEvent, Types
  <2>4. CASE \E q \in Queues : WriteEvent(q)
    BY <2>3, <2>4 DEF Types
  <2>5. CASE \E q \in Queues : GetEvent(q)
    BY <2>2, <2>5 DEF Types
  <2>6. CASE ~(\E q \in Queues : WriteEvent(q)) /\ ~(\E q \in Queues : GetEvent(q))
    BY <2>1, <2>6 DEF OtherStep, PublishStep, Top, GetNothing, Close, Terminate,
                      publisherVars, publishVars
  <2> QED
    BY <2>4, <2>5, <2>6
<1>3. publish' \in [Queues -> {"top", "get", "write", "done"}]
  BY DEF OtherStep, PublishStep, Top, GetEvent, GetNothing, WriteEvent, Close, Terminate,
         publisherVars, publishVars, Types
<1>4. {shut', signalled'} \subseteq BOOLEAN
  BY DEF OtherStep, PublishStep, Top, GetEvent, GetNothing, WriteEvent, Close, Terminate,
         publisherVars, Types
<1> QED
  BY <1>1, <1>2, <1>3, <1>4 DEF Types, actorVars

\* An actor does what is next.
LEMMA PushTypes == ASSUME Types, Tasks, NEW a \in Actors, Push(a) PROVE Types'
<1> DEFINE q == Head(todo[a])
           e == Event(a, now[a])
<1>1. /\ q \in Queues /\ todo[a] # <<>>
      /\ todo' = [todo EXCEPT ![a] = Tail(todo[a])]
      /\ UNCHANGED <<decoded, inbox, now, missed, publishVars, shut, signalled>>
  BY DEF Push
<1>2. todo' \in [Actors -> Seq(Queues \cup Encoders \cup Brocas)]
  BY <1>1, TicksOff
<1>3. e \in Events
  BY BoundAssumption DEF Types, Event, Events
<1>4. IF HasRoom(q) THEN events' = [events EXCEPT ![q] = Append(events[q], e)] /\ lost' = lost
                    ELSE lost' = [lost EXCEPT ![q] = lost[q] + 1] /\ events' = events
  BY DEF Push
<1> HIDE DEF q, e
<1>5. /\ events' \in [Queues -> Seq(Events)] /\ lost' \in [Queues -> Nat]
      /\ \A p \in Queues : Len(events'[p]) <= Room
  <2>1. CASE HasRoom(q)
    <3>1. /\ events[q] \in Seq(Events) /\ Len(events[q]) \in Nat /\ Len(events[q]) < Room
          /\ events \in [Queues -> Seq(Events)]
      BY <1>1, <2>1 DEF Types, HasRoom
    <3>2. Append(events[q], e) \in Seq(Events) /\ Len(Append(events[q], e)) <= Room
      BY <1>3, <3>1, RoomAssumption
    <3>3. events' = [events EXCEPT ![q] = Append(events[q], e)] /\ lost' = lost
      BY <1>4, <2>1
    <3>4. \A p \in Queues : Len(events'[p]) <= Room
      BY <1>1, <3>1, <3>2, <3>3 DEF Types
    <3> QED
      BY <1>1, <3>1, <3>2, <3>3, <3>4 DEF Types
  <2>2. CASE ~HasRoom(q)
    <3>1. lost' = [lost EXCEPT ![q] = lost[q] + 1] /\ events' = events
      BY <1>4, <2>2
    <3>2. lost' \in [Queues -> Nat]
      BY <1>1, <3>1 DEF Types
    <3> QED
      BY <3>1, <3>2 DEF Types
  <2> QED
    BY <2>1, <2>2
<1> QED
  BY <1>1, <1>2, <1>5 DEF Types, publishVars

LEMMA ActorTypes ==
  ASSUME Types, Tasks, Ways,
         \/ Decode \/ (\E a \in Encoders \cup Brocas : Arrive(a))
         \/ (\E a \in Actors : Push(a) \/ Send(a)) \/ DropChange
  PROVE  Types'
<1>1. CASE Decode
  <2>1. /\ Decoder \in Actors /\ decoded < MaxCommands /\ decoded' = decoded + 1
        /\ now' = [now EXCEPT ![Decoder] = decoded + 1]
        /\ todo' = [todo EXCEPT ![Decoder] = Duties(Decoder)]
        /\ UNCHANGED <<inbox, missed, events, lost, publishVars, shut, signalled>>
    BY <1>1 DEF Decode, Actors
  <2>2. todo' \in [Actors -> Seq(Queues \cup Encoders \cup Brocas)]
    BY <2>1, DutiesOf DEF Types
  <2>3. decoded' \in 0 .. MaxCommands /\ now' \in [Actors -> 0 .. MaxCommands]
    BY <2>1, BoundAssumption DEF Types
  <2> QED
    BY <2>1, <2>2, <2>3 DEF Types, publishVars
<1>2. ASSUME NEW a \in Encoders \cup Brocas, Arrive(a)
      PROVE  Types'
  <2>1. /\ a \in Actors /\ inbox[a] # <<>> /\ inbox[a] \in Seq(1 .. MaxCommands)
        /\ inbox' = [inbox EXCEPT ![a] = Tail(inbox[a])]
        /\ now' = [now EXCEPT ![a] = Head(inbox[a])]
        /\ todo' = [todo EXCEPT ![a] = Duties(a)]
        /\ UNCHANGED <<decoded, missed, events, lost, publishVars, shut, signalled>>
    BY <1>2 DEF Arrive, Actors, Types
  <2>2. todo' \in [Actors -> Seq(Queues \cup Encoders \cup Brocas)]
    BY <2>1, DutiesOf DEF Types
  <2>3. Tail(inbox[a]) \in Seq(1 .. MaxCommands) /\ Head(inbox[a]) \in 1 .. MaxCommands
    BY <2>1, TailRange
  <2>4. inbox' \in [Encoders \cup Brocas -> Seq(1 .. MaxCommands)]
    BY <2>1, <2>3 DEF Types
  <2>5. now' \in [Actors -> 0 .. MaxCommands]
    <3>1. Head(inbox[a]) \in 0 .. MaxCommands
      BY <2>3, BoundAssumption
    <3> QED
      BY <2>1, <3>1 DEF Types
  <2> QED
    BY <2>1, <2>2, <2>4, <2>5 DEF Types, publishVars
<1>3. ASSUME NEW a \in Actors, Send(a)
      PROVE  Types'
  <2>1. /\ todo[a] # <<>> /\ todo' = [todo EXCEPT ![a] = Tail(todo[a])]
        /\ Head(todo[a]) \in Actors
        /\ inbox' = [inbox EXCEPT ![Head(todo[a])] = Append(inbox[Head(todo[a])], now[a])]
        /\ UNCHANGED <<decoded, now, missed, events, lost, publishVars, shut, signalled>>
    BY <1>3 DEF Send
  <2>2. todo' \in [Actors -> Seq(Queues \cup Encoders \cup Brocas)]
    BY <2>1, TicksOff
  <2>3. inbox' \in [Encoders \cup Brocas -> Seq(1 .. MaxCommands)]
    BY <2>1, SendWays
  <2> QED
    BY <2>1, <2>2, <2>3 DEF Types, publishVars
<1>4. CASE DropChange
  <2>1. /\ Decoder \in Actors /\ todo[Decoder] # <<>> /\ Head(todo[Decoder]) \in Actors
        /\ todo' = [todo EXCEPT ![Decoder] = Tail(todo[Decoder])]
        /\ missed' = missed + 1 + Cardinality(Targets(Head(todo[Decoder])))
        /\ UNCHANGED <<decoded, inbox, now, events, lost, publishVars, shut, signalled>>
    BY <1>4 DEF DropChange, Actors
  <2>2. todo' \in [Actors -> Seq(Queues \cup Encoders \cup Brocas)]
    BY <2>1, TicksOff
  <2>3. missed' \in Nat
    <3>1. Cardinality(Targets(Head(todo[Decoder]))) \in Nat
      BY <2>1, TargetsOf, FS_CardinalityType
    <3> QED
      BY <2>1, <3>1 DEF Types
  <2> QED
    BY <2>1, <2>2, <2>3 DEF Types, publishVars
<1> QED
  BY <1>1, <1>2, <1>3, <1>4, PushTypes

LEMMA TasksStep == Types /\ Tasks /\ Ways /\ [PublisherNext]_publisherVars => Tasks'
<1> SUFFICES ASSUME Types, Tasks, Ways, [PublisherNext]_publisherVars PROVE Tasks'
  OBVIOUS
<1>1. CASE Decode
  <2>1. /\ Decoder \in Actors /\ decoded + 1 \in 1 .. MaxCommands
    BY <1>1, BoundAssumption DEF Decode, Types, Actors
  <2> QED
    BY <1>1, <2>1, TakesOn DEF Decode
<1>2. ASSUME NEW a \in Encoders \cup Brocas, Arrive(a)
      PROVE  Tasks'
  <2>1. a \in Actors /\ inbox[a] \in Seq(1 .. MaxCommands) /\ inbox[a] # <<>>
    BY <1>2 DEF Arrive, Types, Actors
  <2>2. Head(inbox[a]) \in 1 .. MaxCommands
    BY <2>1, TailRange
  <2> QED
    BY <1>2, <2>1, <2>2, TakesOn DEF Arrive
<1>3. ASSUME NEW a \in Actors, Push(a) \/ Send(a)
      PROVE  Tasks'
  BY <1>3, TicksOff DEF Push, Send
<1>4. CASE DropChange
  BY <1>4, TicksOff DEF DropChange, Actors
<1>5. CASE OtherStep
  <2>1. todo' = todo /\ now' = now
    BY <1>5 DEF OtherStep, PublishStep, Top, GetEvent, GetNothing, WriteEvent, Close,
                Terminate, publisherVars, actorVars
  <2> QED
    BY <2>1 DEF Tasks, QueuesFirst, Targets
<1> QED
  BY <1>1, <1>2, <1>3, <1>4, <1>5 DEF PublisherNext, OtherStep

LEMMA WaysStep == Types /\ Tasks /\ Ways /\ [PublisherNext]_publisherVars => Ways'
<1> SUFFICES ASSUME Types, Tasks, Ways, [PublisherNext]_publisherVars PROVE Ways'
  OBVIOUS
<1>1. ASSUME NEW a \in Actors, Push(a) \/ Send(a)
      PROVE  Ways'
  BY <1>1, SendWays DEF Push, Send
<1>2. CASE DropChange
  BY <1>2, SendWays DEF DropChange, Actors
<1>3. CASE OtherStep
  <2>1. UNCHANGED <<todo, now, inbox, decoded>>
    BY <1>3 DEF OtherStep, PublishStep, Top, GetEvent, GetNothing, WriteEvent, Close,
                Terminate, publisherVars, actorVars
  <2> QED
    BY <2>1, WaysStay DEF Ways
<1> QED
  BY <1>1, <1>2, <1>3, DecodeWays, ReceiveWays DEF PublisherNext, OtherStep

-----------------------------------------------------------------------------
(* The events of a queue.                                                  *)

LEMMA LogTypes ==
  ASSUME Types, NEW q \in Queues
  PROVE  Log(q) \in Seq(Events) /\ DOMAIN Log(q) = 1 .. Len(Log(q)) /\ Len(Log(q)) \in Nat
<1>1. published[q] \in Seq(Events) /\ events[q] \in Seq(Events) /\ event[q] \in Events
  BY DEF Types
<1>2. Log(q) \in Seq(Events)
  BY <1>1 DEF Log
<1> QED
  BY <1>2

LEMMA LogEvents ==
  ASSUME Types, NEW q \in Queues, NEW e \in Range(Log(q))
  PROVE  e \in Events /\ e.source \in Actors /\ e.command \in Nat
<1>1. e \in Events
  BY RangeIn, LogTypes
<1> QED
  BY <1>1 DEF Events

LEMMA LogPrefix ==
  ASSUME NEW S, NEW s \in Seq(S), NEW t \in Seq(S), NEW u \in Seq(S), NEW k \in 1 .. Len(s)
  PROVE  k \in DOMAIN (s \o t \o u) /\ (s \o t \o u)[k] = s[k]
<1>1. /\ s \o t \in Seq(S) /\ Len(s \o t) = Len(s) + Len(t) /\ (s \o t)[k] = s[k]
      /\ Len(s) \in Nat /\ Len(t) \in Nat
  OBVIOUS
<1> DEFINE v == s \o t
<1>2. v \in Seq(S) /\ k \in 1 .. Len(v) /\ v[k] = s[k]
  BY <1>1
<1> HIDE DEF v
<1>3. k \in DOMAIN (v \o u) /\ (v \o u)[k] = v[k]
  BY <1>2
<1> QED
  BY <1>2, <1>3 DEF v

\* The thread of a queue moves its events on, and none gets lost or passes another.
LEMMA LogStays ==
  ASSUME Types, OtherStep, NEW q \in Queues
  PROVE  Log(q)' = Log(q)
<1>1. /\ published[q] \in Seq(Events) /\ events[q] \in Seq(Events) /\ event[q] \in Events
      /\ publish \in [Queues -> {"top", "get", "write", "done"}]
      /\ event \in [Queues -> Events] /\ published \in [Queues -> Seq(Events)]
      /\ events \in [Queues -> Seq(Events)]
  BY DEF Types
<1>2. CASE UNCHANGED <<events[q], published[q], event[q]>>
           /\ (publish'[q] = "write" <=> publish[q] = "write")
  BY <1>2 DEF Log
<1>3. CASE GetEvent(q)
  <2>1. /\ publish[q] = "get" /\ publish'[q] = "write" /\ event'[q] = Head(events[q])
        /\ events'[q] = Tail(events[q]) /\ published' = published /\ events[q] # <<>>
    BY <1>1, <1>3 DEF GetEvent
  <2> QED
    BY <1>1, <2>1, HeadMoves DEF Log
<1>4. CASE WriteEvent(q)
  <2>1. /\ publish[q] = "write" /\ publish'[q] = "top" /\ events' = events
        /\ published'[q] = Append(published[q], event[q])
    BY <1>1, <1>4 DEF WriteEvent
  <2> QED
    BY <1>1, <2>1, AppendMoves DEF Log
<1>5. CASE ~GetEvent(q) /\ ~WriteEvent(q)
  <2>1. CASE Top(q) \/ GetNothing(q) \/ Close \/ Terminate \/ UNCHANGED publisherVars
    BY <1>1, <1>2, <2>1 DEF Top, GetNothing, Close, Terminate, publisherVars, publishVars
  <2>2. ASSUME NEW p \in Queues, p # q, PublishStep(p)
        PROVE  UNCHANGED <<events[q], published[q], event[q], publish[q]>>
    BY <1>1, <2>2 DEF PublishStep, Top, GetEvent, GetNothing, WriteEvent
  <2> QED
    BY <1>2, <1>5, <2>1, <2>2 DEF OtherStep, PublishStep
<1> QED
  BY <1>3, <1>4, <1>5

\* An event that finds room is the last of its queue.
LEMMA LogPush ==
  ASSUME Types, NEW a \in Actors, Push(a), NEW q \in Queues
  PROVE  IF q = Head(todo[a]) /\ HasRoom(q)
         THEN Log(q)' = Append(Log(q), Event(a, now[a]))
         ELSE Log(q)' = Log(q)
<1>1. /\ Head(todo[a]) \in Queues /\ UNCHANGED <<published, publish, event>>
      /\ events \in [Queues -> Seq(Events)] /\ published[q] \in Seq(Events)
      /\ event[q] \in Events /\ events[q] \in Seq(Events)
      /\ Event(a, now[a]) \in Events
  BY BoundAssumption DEF Push, publishVars, Types, Event, Events
<1>2. CASE ~HasRoom(Head(todo[a]))
  <2>1. events' = events
    BY <1>2 DEF Push
  <2> QED
    BY <1>1, <1>2, <2>1 DEF Log
<1>3. CASE HasRoom(Head(todo[a])) /\ events' = [events EXCEPT ![Head(todo[a])] =
                                       Append(events[Head(todo[a])], Event(a, now[a]))]
  <2>1. CASE q # Head(todo[a])
    BY <1>1, <1>3, <2>1 DEF Log
  <2>2. CASE q = Head(todo[a])
    <3> DEFINE s == published[q] \o (IF publish[q] = "write" THEN <<event[q]>> ELSE <<>>)
               e == Event(a, now[a])
    <3>1. s \in Seq(Events) /\ e \in Events
      BY <1>1
    <3>2. events'[q] = Append(events[q], e)
      BY <1>1, <1>3, <2>2
    <3>3. Log(q) = s \o events[q]
      BY DEF Log
    <3>4. Log(q)' = s \o Append(events[q], e)
      BY <1>1, <3>2 DEF Log
    <3> HIDE DEF s, e
    <3>5. Log(q)' = Append(Log(q), e)
      BY <1>1, <3>1, <3>3, <3>4, ConcatAppend
    <3> QED
      BY <1>3, <2>2, <3>5 DEF e
  <2> QED
    BY <2>1, <2>2
<1> QED
  BY <1>2, <1>3 DEF Push

\* Who comes to the next command has acknowledged none as late.
LEMMA TakesOnSourced ==
  ASSUME Types, Sourced, NEW a \in Actors, NEW c \in Nat, now[a] < c,
         now' = [now EXCEPT ![a] = c], \A b \in Actors : b # a => todo'[b] = todo[b],
         UNCHANGED <<publish, event, published, events>>
  PROVE  Sourced'
<1> SUFFICES ASSUME NEW q \in Queues, NEW e \in Range(Log(q))
             PROVE  /\ e.command <= now'[e.source]
                    /\ q \in Range(todo'[e.source]) => e.command < now'[e.source]
  BY DEF Sourced, Log
<1>1. /\ e.source \in Actors /\ e.command \in Nat
  BY LogEvents
<1>2. e.command <= now[e.source]
      /\ (q \in Range(todo[e.source]) => e.command < now[e.source])
  BY DEF Sourced
<1>3. CASE e.source = a
  <2>1. now'[e.source] = c /\ now[a] \in Nat
    BY <1>3, BoundAssumption DEF Types
  <2> QED
    BY <1>1, <1>2, <1>3, <2>1
<1>4. CASE e.source # a
  BY <1>1, <1>2, <1>4 DEF Types
<1> QED
  BY <1>3, <1>4

LEMMA SourcedStep == IInv /\ [PublisherNext]_publisherVars => Sourced'
<1> SUFFICES ASSUME IInv, [PublisherNext]_publisherVars PROVE Sourced'
  OBVIOUS
<1> USE DEF IInv
<1>0. ASSUME UNCHANGED now, \A b \in Actors : Range(todo'[b]) \subseteq Range(todo[b]),
             \A q \in Queues : Log(q)' = Log(q)
      PROVE  Sourced'
  <2> SUFFICES ASSUME NEW q \in Queues, NEW e \in Range(Log(q))
               PROVE  /\ e.command <= now[e.source]
                      /\ q \in Range(todo'[e.source]) => e.command < now[e.source]
    BY <1>0 DEF Sourced
  <2>1. e.source \in Actors
    BY LogEvents
  <2> QED
    BY <1>0, <2>1 DEF Sourced
<1>1. CASE Decode
  <2>1. /\ Decoder \in Actors /\ now[Decoder] < decoded + 1 /\ decoded + 1 \in Nat
    BY <1>1, BoundAssumption DEF Types, Ways, Actors
  <2> QED
    BY <1>1, <2>1, TakesOnSourced DEF Decode, publishVars, Types
<1>2. ASSUME NEW a \in Encoders \cup Brocas, Arrive(a)
      PROVE  Sourced'
  <2>1. a \in Actors /\ inbox[a] \in Seq(1 .. MaxCommands) /\ inbox[a] # <<>> /\ Way(a)
    BY <1>2 DEF Arrive, Types, Actors, Ways
  <2>2. Head(inbox[a]) \in Nat /\ now[a] < Head(inbox[a])
    <3>1. Head(inbox[a]) \in Range(inbox[a]) /\ Head(inbox[a]) \in 1 .. MaxCommands
      BY <2>1, TailRange
    <3> QED
      BY <2>1, <3>1, BoundAssumption DEF Way
  <2> QED
    BY <1>2, <2>1, <2>2, TakesOnSourced DEF Arrive, publishVars, Types
<1>3. ASSUME NEW a \in Actors, Push(a)
      PROVE  Sourced'
  <2>1. /\ now' = now /\ Range(todo'[a]) = Range(todo[a]) \ {Head(todo[a])}
        /\ \A b \in Actors : Range(todo'[b]) \subseteq Range(todo[b])
    <3>1. todo' = [todo EXCEPT ![a] = Tail(todo[a])] /\ now' = now /\ todo[a] # <<>>
      BY <1>3 DEF Push
    <3>2. Range(todo'[a]) = Range(todo[a]) \ {Head(todo[a])}
      BY <3>1, TicksOff
    <3> QED
      BY <3>1, <3>2 DEF Types
  <2> SUFFICES ASSUME NEW q \in Queues, NEW e \in Range(Log(q)')
               PROVE  /\ e.command <= now[e.source]
                      /\ q \in Range(todo'[e.source]) => e.command < now[e.source]
    BY <2>1 DEF Sourced
  <2>2. CASE e \in Range(Log(q))
    <3>1. e.source \in Actors
      BY <2>2, LogEvents
    <3> QED
      BY <2>1, <2>2, <3>1 DEF Sourced
  <2>3. CASE e \notin Range(Log(q))
    <3>1. q = Head(todo[a]) /\ Log(q)' = Append(Log(q), Event(a, now[a]))
      BY <1>3, <2>3, LogPush
    <3>2. Event(a, now[a]) \in Events /\ now[a] \in Nat
      BY BoundAssumption DEF Types, Event, Events
    <3>3. e = Event(a, now[a])
      <4>1. Log(q) \in Seq(Events)
        BY LogTypes
      <4>2. Range(Append(Log(q), Event(a, now[a]))) = Range(Log(q)) \cup {Event(a, now[a])}
        BY <3>2, <4>1, AppendRange
      <4> QED
        BY <2>3, <3>1, <4>2
    <3> QED
      BY <2>1, <3>1, <3>2, <3>3 DEF Event
  <2> QED
    BY <2>2, <2>3
<1>4. ASSUME NEW a \in Actors, todo[a] # <<>>,
             todo' = [todo EXCEPT ![a] = Tail(todo[a])], now' = now,
             UNCHANGED <<publish, event, published, events>>
      PROVE  Sourced'
  <2>1. Range(todo'[a]) = Range(todo[a]) \ {Head(todo[a])}
    BY <1>4, TicksOff
  <2>2. \A b \in Actors : Range(todo'[b]) \subseteq Range(todo[b])
    BY <1>4, <2>1 DEF Types
  <2>3. \A q \in Queues : Log(q)' = Log(q)
    BY <1>4 DEF Log
  <2> QED
    BY <1>0, <1>4, <2>2, <2>3
<1>5. ASSUME NEW a \in Actors, Send(a)
      PROVE  Sourced'
  BY <1>4, <1>5 DEF Send, publishVars
<1>6. CASE DropChange
  BY <1>4, <1>6 DEF DropChange, publishVars, Actors
<1>7. CASE OtherStep
  <2>1. todo' = todo /\ now' = now
    BY <1>7 DEF OtherStep, PublishStep, Top, GetEvent, GetNothing, WriteEvent, Close,
                Terminate, publisherVars, actorVars
  <2> QED
    BY <1>0, <1>7, <2>1, LogStays
<1> QED
  BY <1>1, <1>2, <1>3, <1>5, <1>6, <1>7 DEF PublisherNext, OtherStep

\* What is added comes after all that it has to follow.
LEMMA OrderedAppend ==
  ASSUME NEW s \in Seq(Events), NEW x \in Events, Ordered(s),
         \A e \in Range(s) : Follows(e, x)
  PROVE  Ordered(Append(s, x))
<1>1. /\ Len(s) \in Nat /\ DOMAIN s = 1 .. Len(s)
      /\ DOMAIN Append(s, x) = 1 .. Len(s) + 1
      /\ \A i \in 1 .. Len(s) : Append(s, x)[i] = s[i]
      /\ Append(s, x)[Len(s) + 1] = x
  OBVIOUS
<1> SUFFICES ASSUME NEW i \in 1 .. Len(s) + 1, NEW j \in 1 .. Len(s) + 1, i < j
             PROVE  Follows(Append(s, x)[i], Append(s, x)[j])
  BY <1>1 DEF Ordered
<1>2. i \in 1 .. Len(s)
  BY <1>1
<1>3. CASE j \in 1 .. Len(s)
  BY <1>1, <1>2, <1>3 DEF Ordered
<1>4. CASE j = Len(s) + 1
  BY <1>1, <1>2, <1>4 DEF Range
<1> QED
  BY <1>1, <1>3, <1>4

LEMMA OrderedStep ==
  ASSUME IInv, [PublisherNext]_publisherVars, NEW q \in Queues
  PROVE  Ordered(Log(q)')
<1> USE DEF IInv
<1>1. CASE Log(q)' = Log(q)
  BY <1>1
<1>2. ASSUME NEW a \in Actors, Push(a)
      PROVE  Ordered(Log(q)')
  <2>1. CASE q = Head(todo[a]) /\ Log(q)' = Append(Log(q), Event(a, now[a]))
    <3>1. q \in Range(todo[a]) /\ Range(todo[a]) \cap Queues # {}
      <4>1. todo[a] # <<>> /\ todo[a] \in Seq(Queues \cup Encoders \cup Brocas)
        BY <1>2 DEF Push, Types
      <4> QED
        BY <2>1, <4>1, TailRange
    <3>2. Event(a, now[a]) \in Events /\ now[a] \in Nat
      BY BoundAssumption DEF Types, Event, Events
    <3>3. ASSUME NEW e \in Range(Log(q))
          PROVE  Follows(e, Event(a, now[a]))
      <4>1. /\ e.source \in Actors /\ e.command \in Nat /\ now[e.source] \in Nat
        BY LogEvents, BoundAssumption DEF Types
      <4>2. e.command <= now[e.source]
            /\ (q \in Range(todo[e.source]) => e.command < now[e.source])
        BY DEF Sourced
      <4>3. Behind(e.source, a) => now[e.source] < now[a]
        BY <3>1, <4>1, AheadOf
      <4>4. e.source = a \/ Behind(e.source, a) => now[a] > e.command
        BY <3>1, <3>2, <4>1, <4>2, <4>3
      <4> QED
        BY <4>4 DEF Follows, Event
    <3> QED
      BY <2>1, <3>2, <3>3, LogTypes, OrderedAppend
  <2> QED
    BY <1>1, <1>2, <2>1, LogPush
<1>3. CASE OtherStep
  BY <1>1, <1>3, LogStays
<1>4. CASE UNCHANGED <<publish, event, published, events>>
  BY <1>1, <1>4 DEF Log
<1> QED
  BY <1>2, <1>3, <1>4 DEF PublisherNext, OtherStep, Decode, Arrive, Send, DropChange, publishVars

-----------------------------------------------------------------------------
LEMMA InitInv == PublisherInit => IInv
<1> SUFFICES ASSUME PublisherInit PROVE IInv
  OBVIOUS
<1>1. Types
  <2>1. /\ <<>> \in Seq(1 .. MaxCommands) /\ <<>> \in Seq(Queues \cup Encoders \cup Brocas)
        /\ <<>> \in Seq(Events) /\ Event(Decoder, 0) \in Events /\ Len(<<>>) <= Room
    BY RoomAssumption DEF Event, Events, Actors
  <2>2. {shut, signalled} \subseteq BOOLEAN
    BY DEF PublisherInit
  <2> QED
    BY <2>1, <2>2, BoundAssumption DEF PublisherInit, Types
<1>2. Range(<<>>) = {} /\ IsInjective(<<>>) /\ QueuesFirst(<<>>) /\ Rising(<<>>)
      /\ Ordered(<<>>)
  BY DEF Range, IsInjective, QueuesFirst, Rising, Ordered
<1>3. Tasks
  BY <1>2 DEF PublisherInit, Tasks
<1>4. Ways
  <2>1. ASSUME NEW t \in Encoders \cup Brocas
        PROVE  Way(t)
    <3>1. t \in Actors /\ Up(t) \in Actors
      BY SourceAssumption DEF Actors, Up
    <3> QED
      BY <1>2, <3>1 DEF PublisherInit, Way
  <2> QED
    BY <2>1 DEF PublisherInit, Ways, Actors
<1>5. \A q \in Queues : Log(q) = <<>>
  BY DEF PublisherInit, Log
<1>6. Sourced /\ \A q \in Queues : Ordered(Log(q))
  BY <1>2, <1>5 DEF Sourced
<1> QED
  BY <1>1, <1>3, <1>4, <1>6 DEF IInv

LEMMA Invariance == PublisherSpec => []IInv
<1>1. IInv /\ [PublisherNext]_publisherVars => IInv'
  <2> SUFFICES ASSUME IInv, [PublisherNext]_publisherVars PROVE IInv'
    OBVIOUS
  <2>1. Types'
    BY OtherTypes, ActorTypes DEF IInv, PublisherNext, OtherStep
  <2>2. Tasks' /\ Ways' /\ Sourced'
    BY TasksStep, WaysStep, SourcedStep DEF IInv
  <2>3. \A q \in Queues : Ordered(Log(q)')
    BY OrderedStep
  <2> QED
    BY <2>1, <2>2, <2>3 DEF IInv, Ordered, Follows, Behind
<1> QED
  BY InitInv, <1>1, PTL DEF PublisherSpec

\* Whoever reads a publish queue learns of a command from the decoder, an
\* encoder and its brocas in this order, and from each of them of no command
\* after a later one, though events may have found no room in the queue and
\* track changes may have been dropped on the way.
THEOREM PublishedInOrder == PublisherSpec => []AcknowledgedInOrder
<1>1. IInv => TypeOK
  BY DEF IInv, Types, TypeOK
<1>2. IInv => AcknowledgedInOrder
  <2> SUFFICES ASSUME IInv, NEW q \in Queues, NEW i \in 1 .. Len(published[q]),
                      NEW j \in 1 .. Len(published[q]), i < j
               PROVE  Follows(published[q][i], published[q][j])
    BY <1>1 DEF AcknowledgedInOrder, Follows
  <2>1. published[q] \in Seq(Events) /\ events[q] \in Seq(Events) /\ event[q] \in Events
    BY DEF IInv, Types
  <2>2. /\ \A k \in 1 .. Len(published[q]) : k \in DOMAIN Log(q) /\ Log(q)[k] = published[q][k]
    <3> DEFINE m == IF publish[q] = "write" THEN <<event[q]>> ELSE <<>>
    <3>1. m \in Seq(Events)
      BY <2>1
    <3>2. Log(q) = published[q] \o m \o events[q]
      BY DEF Log
    <3> HIDE DEF m
    <3>3. ASSUME NEW k \in 1 .. Len(published[q])
          PROVE  k \in DOMAIN (published[q] \o m \o events[q])
                 /\ (published[q] \o m \o events[q])[k] = published[q][k]
      <4>1. ASSUME NEW s \in Seq(Events), NEW u \in Seq(Events), NEW l \in 1 .. Len(s)
            PROVE  l \in DOMAIN (s \o m \o u) /\ (s \o m \o u)[l] = s[l]
        BY <3>1, <4>1, LogPrefix
      <4> QED
        BY <2>1, <4>1
    <3> QED
      BY <3>2, <3>3
  <2>3. Ordered(Log(q))
    BY DEF IInv
  <2> QED
    BY <2>2, <2>3 DEF Ordered
<1> QED
  BY Invariance, <1>2, PTL

-----------------------------------------------------------------------------
(* What is owed to a queue.                                                *)

\* What is on its way to t comes after what it is at.
LEMMA ComingLater ==
  ASSUME IInv, NEW t \in Encoders \cup Brocas, NEW c, Coming(t, c)
  PROVE  c \in 1 .. MaxCommands /\ now[t] < c /\ c <= now[Up(t)]
<1> USE DEF IInv
<1>1. /\ Way(t) /\ t \in Actors /\ Up(t) \in Actors /\ now[t] \in 0 .. MaxCommands
      /\ now[Up(t)] \in 0 .. MaxCommands /\ inbox[t] \in Seq(1 .. MaxCommands)
  BY SourceAssumption DEF Ways, Types, Actors, Up
<1>2. CASE c \in Range(inbox[t])
  <2>1. c \in 1 .. MaxCommands
    BY <1>1, <1>2, RangeIn
  <2> QED
    BY <1>1, <1>2, <2>1 DEF Way
<1>3. CASE c = now[Up(t)] /\ t \in Range(todo[Up(t)])
  <2>1. now[t] < now[Up(t)]
    BY <1>1, <1>3 DEF Way
  <2> QED
    BY <1>1, <1>3, <2>1, BoundAssumption
<1> QED
  BY <1>2, <1>3 DEF Coming

LEMMA AheadLater ==
  ASSUME IInv, NEW t \in Encoders \cup Brocas, NEW c, Ahead(t, c)
  PROVE  c \in 1 .. MaxCommands /\ now[t] < c /\ c <= decoded
<1> USE DEF IInv
<1>1. decoded \in Nat /\ \A x \in Actors : now[x] \in Nat /\ now[x] <= decoded
  <2>1. \A x \in Actors : now[x] \in Nat
    BY BoundAssumption DEF Types
  <2>2. decoded \in Nat /\ now[Decoder] = decoded /\ Decoder \in Actors
    BY BoundAssumption DEF Types, Ways, Actors
  <2>3. \A x \in Actors : x # Decoder => now[x] <= decoded
    BY <2>2, AheadOf DEF Behind
  <2> QED
    BY <2>1, <2>2, <2>3
<1>2. t \in Actors /\ Up(t) \in Actors
  BY SourceAssumption DEF Actors, Up
<1>3. CASE Coming(t, c)
  <2>1. c \in 1 .. MaxCommands /\ now[t] < c /\ c <= now[Up(t)]
    BY <1>3, ComingLater
  <2>2. now[Up(t)] <= decoded /\ now[Up(t)] \in Nat /\ c \in Nat
    BY <1>1, <1>2, <2>1
  <2> QED
    BY <1>1, <2>1, <2>2
<1>4. CASE t \in Brocas /\ Coming(Source[t], c)
  <2>1. Source[t] \in Encoders /\ Up(t) = Source[t] /\ Up(Source[t]) = Decoder
    BY <1>4, ActorsAssumption, SourceAssumption DEF Up
  <2>2. c \in 1 .. MaxCommands /\ now[Source[t]] < c /\ c <= now[Decoder]
    BY <1>4, <2>1, ComingLater
  <2>3. now[t] <= now[Source[t]]
    BY <2>1 DEF Ways, Way
  <2>4. /\ now[t] \in Nat /\ now[Source[t]] \in Nat /\ now[Decoder] <= decoded
        /\ now[Decoder] \in Nat /\ c \in Nat
    BY <1>1, <1>2, <2>1, <2>2 DEF Actors
  <2> QED
    BY <1>1, <2>2, <2>3, <2>4
<1> QED
  BY <1>3, <1>4 DEF Ahead

\* The command an actor is about to acknowledge is not owed by it otherwise,
\* and what is owed has been decoded.
LEMMA OwesLater ==
  ASSUME IInv, NEW q \in Queues, NEW a \in Actors, NEW c, Owes(q, a, c)
  PROVE  c \in 1 .. MaxCommands /\ c <= decoded
<1> USE DEF IInv
<1>1. CASE c = now[a] /\ q \in Range(todo[a])
  <2>1. todo[a] # <<>>
    BY <1>1 DEF Range
  <2>2. now[a] > 0 /\ now[a] \in 0 .. MaxCommands
    BY <2>1 DEF Tasks, Types
  <2>3. now[a] <= decoded
    <3>1. CASE a = Decoder
      BY <2>2, <3>1, BoundAssumption DEF Ways, Types
    <3>2. CASE a # Decoder
      BY <3>2, AheadOf DEF Behind, Ways, Actors
    <3> QED
      BY <3>1, <3>2
  <2> QED
    BY <1>1, <2>2, <2>3, BoundAssumption
<1>2. CASE a # Decoder /\ Ahead(a, c)
  BY <1>2, AheadLater DEF Actors
<1> QED
  BY <1>1, <1>2 DEF Owes

LEMMA OwedFinite ==
  ASSUME NEW q
  PROVE  /\ IsFiniteSet(Owed(q)) /\ Cardinality(Owed(q)) \in Nat
         /\ IsFiniteSet(Owed(q)') /\ Cardinality(Owed(q)') \in Nat
<1>1. IsFiniteSet(Actors)
  BY FiniteAssumption, FS_Union, FS_Singleton DEF Actors
<1>2. IsFiniteSet(1 .. MaxCommands)
  BY BoundAssumption, FS_Interval
<1>3. IsFiniteSet(Actors \X (1 .. MaxCommands))
  BY <1>1, <1>2, FS_Product
<1>4. /\ Owed(q) \in SUBSET (Actors \X (1 .. MaxCommands))
      /\ Owed(q)' \in SUBSET (Actors \X (1 .. MaxCommands))
  BY DEF Owed
<1> QED
  BY <1>3, <1>4, FS_Subset, FS_CardinalityType

\* As many as there are actors owe a command.
LEMMA PairsCounted ==
  ASSUME NEW S, IsFiniteSet(S), NEW c
  PROVE  /\ IsFiniteSet(S \X {c}) /\ Cardinality(S) \in Nat
         /\ Cardinality(S \X {c}) = Cardinality(S)
<1>1. IsFiniteSet({c}) /\ Cardinality({c}) = 1
  BY FS_Singleton
<1>2. IsFiniteSet(S \X {c}) /\ Cardinality(S \X {c}) = Cardinality(S) * 1
  BY <1>1, FS_Product
<1>3. Cardinality(S) \in Nat
  BY FS_CardinalityType
<1> QED
  BY <1>2, <1>3

LEMMA UnionCounted ==
  ASSUME NEW S, NEW T, IsFiniteSet(S), IsFiniteSet(T), S \cap T = {}
  PROVE  Cardinality(S \cup T) = Cardinality(S) + Cardinality(T)
<1>1. /\ Cardinality(S \cup T) = Cardinality(S) + Cardinality(T) - Cardinality(S \cap T)
      /\ Cardinality(S) \in Nat /\ Cardinality(T) \in Nat
  BY FS_Union, FS_CardinalityType
<1>2. Cardinality(S \cap T) = 0
  BY FS_EmptySet
<1> QED
  BY <1>1, <1>2

\* Everybody owes a new command.
LEMMA DecodeOwes ==
  ASSUME IInv, Decode, NEW q \in Queues
  PROVE  Cardinality(Owed(q)') = Cardinality(Owed(q)) + Cardinality(Actors)
<1> USE DEF IInv
<1> DEFINE c0 == decoded + 1
<1>1. /\ decoded \in Nat /\ c0 \in 1 .. MaxCommands /\ inbox' = inbox
      /\ todo[Decoder] = <<>> /\ Decoder \in Actors
      /\ now'[Decoder] = c0 /\ Range(todo'[Decoder]) = Queues \cup Encoders
      /\ \A a \in Actors : a # Decoder => now'[a] = now[a] /\ todo'[a] = todo[a]
  <2>1. Decoder \in Actors /\ Range(Duties(Decoder)) = Queues \cup Encoders
    BY DutiesOf DEF Actors, Targets
  <2> QED
    BY <2>1, BoundAssumption DEF Decode, Types
<1> HIDE DEF c0
<1>2. ASSUME NEW t \in Encoders, NEW c
      PROVE  Coming(t, c)' <=> Coming(t, c) \/ c = c0
  <2>1. Up(t) = Decoder /\ Up(t)' = Decoder
    BY DEF Up
  <2>2. Coming(t, c) <=> c \in Range(inbox[t])
    BY <1>1, <2>1 DEF Coming, Range
  <2>3. Coming(t, c)' <=> c \in Range(inbox[t]) \/ c = c0
    BY <1>1, <2>1 DEF Coming
  <2> QED
    BY <2>2, <2>3
<1>3. ASSUME NEW t \in Brocas, NEW c
      PROVE  Coming(t, c)' <=> Coming(t, c)
  <2>1. Up(t) \in Actors /\ Up(t) # Decoder /\ Up(t)' = Up(t)
    BY ActorsAssumption, SourceAssumption DEF Up, Actors
  <2> QED
    BY <1>1, <2>1 DEF Coming
<1>4. ASSUME NEW a \in Actors, NEW c
      PROVE  Owes(q, a, c)' <=> Owes(q, a, c) \/ c = c0
  <2>1. CASE a = Decoder
    <3>1. ~Owes(q, a, c)
      BY <1>1, <2>1 DEF Owes, Range
    <3>2. Owes(q, a, c)' <=> c = c0
      BY <1>1, <2>1 DEF Owes
    <3> QED
      BY <3>1, <3>2
  <2>2. CASE a \in Encoders
    <3>1. a # Decoder /\ a \notin Brocas
      BY <2>2, ActorsAssumption
    <3> QED
      BY <1>1, <1>2, <2>2, <3>1 DEF Owes, Ahead
  <2>3. CASE a \in Brocas
    <3>1. a # Decoder /\ Source[a] \in Encoders
      BY <2>3, ActorsAssumption, SourceAssumption
    <3> QED
      BY <1>1, <1>2, <1>3, <2>3, <3>1 DEF Owes, Ahead
  <2> QED
    BY <2>1, <2>2, <2>3 DEF Actors
<1>5. Owed(q)' = Owed(q) \cup (Actors \X {c0})
  BY <1>1, <1>4 DEF Owed
<1>6. Owed(q) \cap (Actors \X {c0}) = {}
  <2>1. ASSUME NEW p \in Owed(q), p \in Actors \X {c0}
        PROVE  FALSE
    <3>1. p[1] \in Actors /\ p[2] = c0 /\ Owes(q, p[1], p[2])
      BY <2>1 DEF Owed
    <3>2. c0 <= decoded
      BY <3>1, OwesLater
    <3> QED
      BY <1>1, <3>2 DEF c0
  <2> QED
    BY <2>1
<1>7. IsFiniteSet(Actors)
  BY FiniteAssumption, FS_Union, FS_Singleton DEF Actors
<1>8. /\ IsFiniteSet(Owed(q)) /\ IsFiniteSet(Actors \X {c0})
      /\ Cardinality(Actors \X {c0}) = Cardinality(Actors)
  BY <1>7, OwedFinite, PairsCounted
<1> QED
  BY <1>5, <1>6, <1>8, UnionCounted

\* A command that is taken on was on its way before, and those behind wait for
\* it as before.
LEMMA ReceiveOwes ==
  ASSUME IInv, NEW a \in Encoders \cup Brocas, Arrive(a), NEW q \in Queues
  PROVE  Owed(q)' = Owed(q)
<1> USE DEF IInv
<1>1. /\ a \in Actors /\ a # Decoder /\ Range(todo[a]) = {}
      /\ now'[a] = Head(inbox[a]) /\ Range(todo'[a]) = Queues \cup Targets(a)
      /\ Range(inbox[a]) = Range(inbox'[a]) \cup {Head(inbox[a])}
      /\ \A x \in Actors : x # a => now'[x] = now[x] /\ todo'[x] = todo[x]
      /\ \A x \in Encoders \cup Brocas : x # a => inbox'[x] = inbox[x]
  <2>1. a \in Actors /\ a # Decoder /\ Range(Duties(a)) = Queues \cup Targets(a)
    BY DutiesOf, ActorsAssumption DEF Actors
  <2>2. /\ inbox[a] \in Seq(1 .. MaxCommands) /\ inbox[a] # <<>> /\ todo[a] = <<>>
        /\ inbox' = [inbox EXCEPT ![a] = Tail(inbox[a])]
        /\ now' = [now EXCEPT ![a] = Head(inbox[a])]
        /\ todo' = [todo EXCEPT ![a] = Duties(a)]
        /\ inbox'[a] = Tail(inbox[a])
    BY DEF Arrive, Types
  <2>3. Range(inbox[a]) = Range(Tail(inbox[a])) \cup {Head(inbox[a])}
    BY <2>2, TailRange
  <2>4. Range(<<>>) = {}
    BY DEF Range
  <2> QED
    BY <2>1, <2>2, <2>3, <2>4 DEF Types
<1>2. ASSUME NEW t \in Encoders \cup Brocas
      PROVE  t \in Actors /\ Up(t) \in Actors /\ Up(t)' = Up(t) /\ Up(t) # t
  BY ActorsAssumption, SourceAssumption DEF Up, Actors
<1>3. ASSUME NEW t \in Encoders \cup Brocas, NEW c, t # a, Up(t) # a
      PROVE  Coming(t, c)' <=> Coming(t, c)
  BY <1>1, <1>2, <1>3 DEF Coming
<1>4. ASSUME NEW c
      PROVE  Coming(a, c) <=> Coming(a, c)' \/ c = Head(inbox[a])
  BY <1>1, <1>2 DEF Coming
<1>5. ASSUME NEW t \in Encoders \cup Brocas, NEW c, Up(t) = a
      PROVE  Coming(t, c)' <=> Coming(t, c) \/ c = Head(inbox[a])
  <2>1. t \in Targets(a)
    BY <1>1, <1>5, TargetsOf
  <2> QED
    BY <1>1, <1>2, <1>5, <2>1 DEF Coming
<1>6. ASSUME NEW x \in Actors, NEW c
      PROVE  Owes(q, x, c)' <=> Owes(q, x, c)
  <2>1. CASE x = Decoder
    BY <1>1, <2>1 DEF Owes
  <2>2. CASE x = a
    <3>1. Owes(q, x, c) <=> Ahead(a, c)
      BY <1>1, <2>2 DEF Owes
    <3>2. Owes(q, x, c)' <=> c = Head(inbox[a]) \/ Ahead(a, c)'
      BY <1>1, <2>2 DEF Owes
    <3>3. a \in Brocas => (Coming(Source[a], c)' <=> Coming(Source[a], c))
      BY <1>3, ActorsAssumption, SourceAssumption DEF Up
    <3> QED
      BY <1>4, <3>1, <3>2, <3>3 DEF Ahead
  <2>3. CASE x # Decoder /\ x # a
    <3>1. x \in Encoders \cup Brocas
      BY <2>3 DEF Actors
    <3>2. Owes(q, x, c)' <=> (c = now[x] /\ q \in Range(todo[x])) \/ Ahead(x, c)'
      BY <1>1, <2>3 DEF Owes
    <3>3. CASE Up(x) = a
      <4>1. x \in Brocas /\ Source[x] = a
        BY <1>1, <3>1, <3>3 DEF Up
      <4>2. Ahead(x, c)' <=> Ahead(x, c)
        BY <1>4, <1>5, <3>1, <3>3, <4>1 DEF Ahead
      <4> QED
        BY <2>3, <3>2, <4>2 DEF Owes
    <3>4. CASE Up(x) # a
      <4>1. x \in Brocas => (Coming(Source[x], c)' <=> Coming(Source[x], c))
        <5>1. x \in Brocas => /\ Source[x] \in Encoders /\ Source[x] # a
                              /\ Up(Source[x]) = Decoder
          BY <3>4, ActorsAssumption, SourceAssumption DEF Up
        <5> QED
          BY <1>1, <1>3, <5>1
      <4>2. Ahead(x, c)' <=> Ahead(x, c)
        BY <1>3, <2>3, <3>1, <3>4, <4>1 DEF Ahead
      <4> QED
        BY <2>3, <3>2, <4>2 DEF Owes
    <3> QED
      BY <3>3, <3>4
  <2> QED
    BY <2>1, <2>2, <2>3
<1> QED
  BY <1>6 DEF Owed

\* What an actor pushes to q it does not owe any more.
LEMMA PushOwes ==
  ASSUME IInv, NEW a \in Actors, Push(a), NEW q \in Queues
  PROVE  Cardinality(Owed(q)) =
           IF q = Head(todo[a]) THEN Cardinality(Owed(q)') + 1 ELSE Cardinality(Owed(q)')
<1> USE DEF IInv
<1>1. /\ Head(todo[a]) \in Queues /\ Head(todo[a]) \in Range(todo[a])
      /\ Range(todo'[a]) = Range(todo[a]) \ {Head(todo[a])}
      /\ \A x \in Actors : x # a => todo'[x] = todo[x]
      /\ now' = now /\ inbox' = inbox /\ now[a] \in 1 .. MaxCommands
  <2>1. /\ todo[a] # <<>> /\ todo' = [todo EXCEPT ![a] = Tail(todo[a])]
        /\ now' = now /\ inbox' = inbox /\ Head(todo[a]) \in Queues
    BY DEF Push
  <2>2. now[a] > 0 /\ now[a] \in 0 .. MaxCommands
    BY <2>1 DEF Tasks, Types
  <2>3. now[a] \in 1 .. MaxCommands
    BY <2>2, BoundAssumption
  <2>4. /\ Head(todo[a]) \in Range(todo[a])
        /\ Range(todo'[a]) = Range(todo[a]) \ {Head(todo[a])}
    BY <2>1, TicksOff
  <2> QED
    BY <2>1, <2>3, <2>4 DEF Types
<1>2. ASSUME NEW t \in Encoders \cup Brocas, NEW c
      PROVE  Coming(t, c)' <=> Coming(t, c)
  <2>1. Up(t) \in Actors /\ Up(t)' = Up(t) /\ t \notin Queues
    BY QueuesAssumption, SourceAssumption DEF Up, Actors
  <2>2. t \in Range(todo'[Up(t)]) <=> t \in Range(todo[Up(t)])
    BY <1>1, <2>1
  <2> QED
    BY <1>1, <2>1, <2>2 DEF Coming
<1>3. ASSUME NEW t \in Encoders \cup Brocas, NEW c
      PROVE  Ahead(t, c)' <=> Ahead(t, c)
  BY <1>2, SourceAssumption DEF Ahead
<1>4. ASSUME NEW x \in Actors, NEW c
      PROVE  Owes(q, x, c)' <=>
               Owes(q, x, c) /\ ~(q = Head(todo[a]) /\ x = a /\ c = now[a])
  <2>1. CASE x # a \/ q # Head(todo[a])
    <3>1. q \in Range(todo'[x]) <=> q \in Range(todo[x])
      BY <1>1, <2>1
    <3> QED
      BY <1>1, <1>3, <2>1, <3>1 DEF Owes, Actors
  <2>2. CASE x = a /\ q = Head(todo[a])
    <3>1. Owes(q, x, c)' <=> a # Decoder /\ Ahead(a, c)
      BY <1>1, <1>3, <2>2 DEF Owes, Actors
    <3>2. a # Decoder /\ Ahead(a, c) => c # now[a]
      <4>1. a # Decoder /\ Ahead(a, c) => now[a] < c /\ c \in 1 .. MaxCommands
        BY AheadLater DEF Actors
      <4> QED
        BY <1>1, <4>1, BoundAssumption
    <3>3. Owes(q, x, c) <=> c = now[a] \/ (a # Decoder /\ Ahead(a, c))
      BY <1>1, <2>2 DEF Owes
    <3> QED
      BY <2>2, <3>1, <3>2, <3>3
  <2> QED
    BY <2>1, <2>2
<1>5. CASE q # Head(todo[a])
  <2>1. Owed(q)' = Owed(q)
    BY <1>4, <1>5 DEF Owed
  <2> QED
    BY <1>5, <2>1
<1>6. CASE q = Head(todo[a])
  <2>1. <<a, now[a]>> \in Owed(q)
    BY <1>1, <1>6 DEF Owed, Owes
  <2>2. Owed(q)' = Owed(q) \ {<<a, now[a]>>}
    <3>1. \A p \in Actors \X (1 .. MaxCommands) :
            p = <<a, now[a]>> <=> p[1] = a /\ p[2] = now[a]
      OBVIOUS
    <3> QED
      BY <1>4, <1>6, <3>1 DEF Owed
  <2>3. IsFiniteSet(Owed(q)) /\ Cardinality(Owed(q)) \in Nat
    BY OwedFinite
  <2>4. Cardinality(Owed(q)') = Cardinality(Owed(q)) - 1
    BY <2>1, <2>2, <2>3, FS_RemoveElement
  <2> QED
    BY <1>6, <2>3, <2>4
<1> QED
  BY <1>5, <1>6

\* What both ways of passing a command on have in common.
LEMMA PassedOn ==
  ASSUME IInv, NEW a \in Actors, todo[a] # <<>>, Head(todo[a]) \notin Queues,
         todo' = [todo EXCEPT ![a] = Tail(todo[a])], now' = now
  PROVE  /\ Head(todo[a]) \in Targets(a) /\ Head(todo[a]) \in Encoders \cup Brocas
         /\ Up(Head(todo[a])) = a
         /\ Head(todo[a]) \in Range(todo[a]) /\ now[a] \in 1 .. MaxCommands
         /\ Range(todo'[a]) = Range(todo[a]) \ {Head(todo[a])}
         /\ \A q \in Queues, x \in Actors : q \in Range(todo'[x]) <=> q \in Range(todo[x])
         /\ \A t \in Encoders \cup Brocas : t # Head(todo[a]) =>
              (t \in Range(todo'[Up(t)]) <=> t \in Range(todo[Up(t)]))
<1> USE DEF IInv
<1>1. now[a] \in 1 .. MaxCommands
  <2>1. now[a] > 0 /\ now[a] \in 0 .. MaxCommands
    BY DEF Tasks, Types
  <2> QED
    BY <2>1, BoundAssumption
<1>2. /\ Head(todo[a]) \in Range(todo[a])
      /\ Range(todo'[a]) = Range(todo[a]) \ {Head(todo[a])}
      /\ \A x \in Actors : x # a => todo'[x] = todo[x]
  BY TicksOff DEF Types
<1>3. Head(todo[a]) \in Targets(a)
  BY <1>2 DEF Tasks
<1>4. Head(todo[a]) \in Encoders \cup Brocas /\ Up(Head(todo[a])) = a
  BY <1>3, TargetsOf
<1>5. \A q \in Queues, x \in Actors : q \in Range(todo'[x]) <=> q \in Range(todo[x])
  BY <1>2
<1>6. \A t \in Encoders \cup Brocas : Up(t) \in Actors
  BY SourceAssumption DEF Up, Actors
<1>7. \A t \in Encoders \cup Brocas : t # Head(todo[a]) =>
        (t \in Range(todo'[Up(t)]) <=> t \in Range(todo[Up(t)]))
  BY <1>2, <1>6
<1> QED
  BY <1>1, <1>2, <1>3, <1>4, <1>5, <1>7

\* A command that is passed on is still on its way.
LEMMA SendOwes ==
  ASSUME IInv, NEW a \in Actors, Send(a), NEW q \in Queues
  PROVE  Owed(q)' = Owed(q)
<1> USE DEF IInv
<1>1. /\ todo[a] # <<>> /\ Head(todo[a]) \in Actors /\ Head(todo[a]) \notin Queues
      /\ todo' = [todo EXCEPT ![a] = Tail(todo[a])] /\ now' = now
      /\ inbox' = [inbox EXCEPT ![Head(todo[a])] = Append(inbox[Head(todo[a])], now[a])]
  BY QueuesAssumption DEF Send, Actors
<1>2. ASSUME NEW t \in Encoders \cup Brocas, NEW c
      PROVE  Coming(t, c)' <=> Coming(t, c)
  <2>1. CASE t = Head(todo[a])
    <3>1. /\ Up(t) = a /\ Up(t)' = a /\ t \in Range(todo[a]) /\ t \notin Range(todo'[a])
      <4>1. /\ Up(Head(todo[a])) = a /\ Head(todo[a]) \in Range(todo[a])
            /\ Range(todo'[a]) = Range(todo[a]) \ {Head(todo[a])}
        BY <1>1, PassedOn
      <4>2. Up(t) = a
        BY <2>1, <4>1
      <4> QED
        BY <2>1, <4>1, <4>2 DEF Up
    <3>2. Range(inbox'[t]) = Range(inbox[t]) \cup {now[a]}
      <4> DEFINE C == 1 .. MaxCommands
      <4>1. inbox[t] \in Seq(C) /\ now[a] \in C /\ inbox'[t] = Append(inbox[t], now[a])
        BY <1>1, <2>1, PassedOn DEF Types
      <4> HIDE DEF C
      <4> QED
        BY <4>1, AppendRange
    <3> QED
      BY <1>1, <3>1, <3>2 DEF Coming
  <2>2. CASE t # Head(todo[a])
    <3>1. /\ inbox'[t] = inbox[t] /\ Up(t)' = Up(t)
          /\ t \in Range(todo'[Up(t)]) <=> t \in Range(todo[Up(t)])
      BY <1>1, <2>2, PassedOn DEF Types, Up
    <3> QED
      BY <1>1, <3>1 DEF Coming
  <2> QED
    BY <2>1, <2>2
<1>3. ASSUME NEW t \in Encoders \cup Brocas, NEW c
      PROVE  Ahead(t, c)' <=> Ahead(t, c)
  BY <1>2, SourceAssumption DEF Ahead
<1>4. ASSUME NEW x \in Actors, NEW c
      PROVE  Owes(q, x, c)' <=> Owes(q, x, c)
  <2>1. q \in Range(todo'[x]) <=> q \in Range(todo[x])
    BY <1>1, PassedOn
  <2> QED
    BY <1>1, <1>3, <2>1 DEF Owes, Actors
<1> QED
  BY <1>4 DEF Owed

\* A track change that is dropped is owed neither by the encoder nor by those
\* that would have heard of it from there.
LEMMA DropOwes ==
  ASSUME IInv, DropChange, NEW q \in Queues
  PROVE  /\ Cardinality(Owed(q)) = Cardinality(Owed(q)') + (missed' - missed)
         /\ missed' \in Nat
<1> USE DEF IInv
<1> DEFINE h == Head(todo[Decoder])
           late == {h} \cup Targets(h)
<1>1. /\ Decoder \in Actors /\ todo[Decoder] # <<>> /\ h \in Encoders /\ h \notin Queues
      /\ todo' = [todo EXCEPT ![Decoder] = Tail(todo[Decoder])] /\ now' = now
      /\ inbox' = inbox /\ missed' = missed + 1 + Cardinality(Targets(h))
      /\ missed \in Nat /\ now[Decoder] = decoded
  BY QueuesAssumption DEF DropChange, Actors, Types, Ways
<1>2. /\ Up(h) = Decoder /\ h \in Range(todo[Decoder]) /\ decoded \in 1 .. MaxCommands
      /\ Range(todo'[Decoder]) = Range(todo[Decoder]) \ {h}
      /\ \A x \in Actors : q \in Range(todo'[x]) <=> q \in Range(todo[x])
      /\ \A t \in Encoders \cup Brocas : t # h =>
              (t \in Range(todo'[Up(t)]) <=> t \in Range(todo[Up(t)]))
  BY <1>1, PassedOn
<1> HIDE DEF h
<1>3. h \in Actors /\ \A t : t \in Targets(h) <=> t \in Brocas /\ Source[t] = h
  BY <1>1, ActorsAssumption DEF Targets, Actors
<1>4. ASSUME NEW t \in Encoders \cup Brocas, NEW c, t # h
      PROVE  Coming(t, c)' <=> Coming(t, c)
  <2>1. Up(t)' = Up(t)
    BY DEF Up
  <2> QED
    BY <1>1, <1>2, <1>4, <2>1 DEF Coming
<1>5. ASSUME NEW t, t = h, NEW c
      PROVE  Coming(t, c)' <=> Coming(t, c) /\ c # decoded
  <2>1. Up(t) = Decoder /\ Up(t)' = Decoder /\ t \in Range(todo[Decoder])
        /\ t \notin Range(todo'[Decoder]) /\ Way(t)
    BY <1>1, <1>2, <1>5 DEF Up, Ways
  <2>2. decoded \notin Range(inbox[t])
    <3>1. \A d \in Range(inbox[t]) : d < decoded
      BY <1>1, <2>1 DEF Way
    <3> QED
      BY <1>2, <3>1, BoundAssumption
  <2>3. Coming(t, c)' <=> c \in Range(inbox[t])
    BY <1>1, <2>1 DEF Coming
  <2>4. Coming(t, c) <=> c \in Range(inbox[t]) \/ c = decoded
    BY <1>1, <2>1 DEF Coming
  <2> QED
    BY <2>2, <2>3, <2>4
<1>6. now[h] < decoded
  BY <1>1, <1>2 DEF Ways, Way
<1>7. ASSUME NEW x \in Actors, NEW c
      PROVE  Owes(q, x, c)' <=> Owes(q, x, c) /\ ~(x \in late /\ c = decoded)
  <2>1. CASE x = h
    <3>1. x # Decoder /\ x \in late /\ x \in Encoders /\ x \notin Brocas
      BY <1>1, <2>1, ActorsAssumption
    <3>2. now[x] # decoded
      BY <1>2, <1>6, <2>1, BoundAssumption
    <3>3. Ahead(x, c)' <=> Ahead(x, c) /\ c # decoded
      BY <1>5, <2>1, <3>1 DEF Ahead
    <3> QED
      BY <1>1, <1>2, <3>1, <3>2, <3>3 DEF Owes
  <2>2. CASE x \in Targets(h)
    <3>1. x # Decoder /\ x \in late /\ x \in Brocas /\ Source[x] = h /\ Up(x) = h /\ x # h
      BY <1>1, <1>3, <2>2, ActorsAssumption DEF Up
    <3>2. now[x] \in Nat /\ now[x] <= now[h] /\ now[h] \in Nat
      BY <1>3, <3>1, BoundAssumption DEF Ways, Way, Types
    <3>3. now[x] # decoded
      BY <1>2, <1>6, <3>2, BoundAssumption
    <3>4. Coming(x, c) => c # decoded
      <4>1. Coming(x, c) => c <= now[h]
        BY <3>1, ComingLater
      <4> QED
        BY <1>2, <1>6, <3>2, <4>1, BoundAssumption
    <3>5. Ahead(x, c)' <=> Ahead(x, c) /\ c # decoded
      BY <1>4, <1>5, <3>1, <3>4 DEF Ahead
    <3> QED
      BY <1>1, <1>2, <3>1, <3>3, <3>5 DEF Owes
  <2>3. CASE x \notin late
    <3>1. x # h /\ (x \in Brocas => Source[x] # h /\ Source[x] \in Encoders)
      BY <1>3, <2>3, SourceAssumption
    <3>2. x # Decoder => (Ahead(x, c)' <=> Ahead(x, c))
      BY <1>4, <3>1 DEF Ahead, Actors
    <3> QED
      BY <1>1, <1>2, <2>3, <3>2 DEF Owes
  <2> QED
    BY <2>1, <2>2, <2>3
<1>8. ASSUME NEW x \in late
      PROVE  x \in Actors /\ Owes(q, x, decoded)
  <2>1. Coming(h, decoded)
    BY <1>1, <1>2 DEF Coming
  <2>2. x \in Actors /\ x # Decoder /\ Ahead(x, decoded)
    BY <1>1, <1>3, <2>1, ActorsAssumption DEF Ahead, Actors
  <2> QED
    BY <2>2 DEF Owes
<1>9. /\ Owed(q) = Owed(q)' \cup (late \X {decoded})
      /\ Owed(q)' \cap (late \X {decoded}) = {}
  <2>1. \A p \in Actors \X (1 .. MaxCommands) :
          p \in late \X {decoded} <=> p[1] \in late /\ p[2] = decoded
    OBVIOUS
  <2>2. late \X {decoded} \subseteq Owed(q)
    BY <1>2, <1>8 DEF Owed
  <2>3. Owed(q)' = Owed(q) \ (late \X {decoded})
    BY <1>7, <2>1 DEF Owed
  <2> QED
    BY <2>2, <2>3
<1>10. IsFiniteSet(late) /\ Cardinality(late) = Cardinality(Targets(h)) + 1
       /\ Cardinality(Targets(h)) \in Nat
  <2>1. IsFiniteSet(Targets(h)) /\ h \notin Targets(h)
    BY <1>1, <1>3, TargetsOf, ActorsAssumption
  <2>2. IsFiniteSet(Targets(h) \cup {h}) /\ Cardinality(Targets(h)) \in Nat
        /\ Cardinality(Targets(h) \cup {h}) = Cardinality(Targets(h)) + 1
    BY <2>1, FS_AddElement, FS_CardinalityType
  <2>3. late = Targets(h) \cup {h}
    OBVIOUS
  <2> QED
    BY <2>2, <2>3
<1> HIDE DEF late
<1>11. IsFiniteSet(Owed(q)') /\ Cardinality(Owed(q)') \in Nat
  BY OwedFinite
<1>12. /\ IsFiniteSet(late \X {decoded})
       /\ Cardinality(late \X {decoded}) = Cardinality(Targets(h)) + 1
  BY <1>10, PairsCounted
<1>13. Cardinality(Owed(q)) = Cardinality(Owed(q)') + (Cardinality(Targets(h)) + 1)
  BY <1>9, <1>11, <1>12, UnionCounted
<1> QED
  BY <1>1, <1>10, <1>11, <1>13

\* An event that is pushed is not owed any more.
LEMMA Balances ==
  ASSUME NEW l \in Nat, NEW k \in Nat, NEW m \in Nat, NEW o \in Nat
  PROVE  /\ l + 1 + k + m + o = l + k + m + (o + 1)
         /\ l + (k + 1) + m + o = l + k + m + (o + 1)
  OBVIOUS

LEMMA AccountedStep == IInv /\ Accounted /\ [PublisherNext]_publisherVars => Accounted'
<1> SUFFICES ASSUME IInv, Accounted, [PublisherNext]_publisherVars, NEW q \in Queues
             PROVE  (Len(Log(q)) + lost[q] + missed + Cardinality(Owed(q))
                       = decoded * Cardinality(Actors))'
  BY DEF Accounted
<1> USE DEF IInv
<1> DEFINE owed == Cardinality(Owed(q))
           n == Cardinality(Actors)
           length == Len(Log(q))
<1>1. /\ owed \in Nat /\ n \in Nat /\ length \in Nat /\ lost[q] \in Nat /\ missed \in Nat
      /\ decoded \in Nat /\ n' = n
      /\ length + lost[q] + missed + owed = decoded * n
  <2>1. IsFiniteSet(Actors)
    BY FiniteAssumption, FS_Union, FS_Singleton DEF Actors
  <2>2. n \in Nat
    BY <2>1, FS_CardinalityType
  <2>3. owed \in Nat /\ length \in Nat
    BY OwedFinite, LogTypes
  <2>4. length + lost[q] + missed + owed = decoded * n
    BY DEF Accounted
  <2> QED
    BY <2>2, <2>3, <2>4, BoundAssumption DEF Types, Actors
<1>2. CASE /\ length' + lost'[q] + missed' + owed' = length + lost[q] + missed + owed
           /\ decoded' = decoded
  <2> HIDE DEF owed, n, length
  <2>1. length' + lost'[q] + missed' + owed' = decoded' * n'
    BY <1>1, <1>2
  <2> QED
    BY <2>1 DEF owed, n, length
<1>3. CASE Decode
  <2>1. /\ decoded' = decoded + 1 /\ length' = length /\ lost' = lost /\ missed' = missed
    BY <1>3 DEF Decode, publishVars, Log
  <2>2. owed' = owed + n
    BY <1>3, DecodeOwes
  <2> HIDE DEF owed, n, length
  <2>3. (decoded + 1) * n = decoded * n + n /\ decoded * n \in Nat
    BY <1>1
  <2>4. length' + lost'[q] + missed' + owed' = decoded' * n'
    BY <1>1, <2>1, <2>2, <2>3
  <2> QED
    BY <2>4 DEF owed, n, length
<1>4. ASSUME NEW a \in Encoders \cup Brocas, Arrive(a)
      PROVE  (length + lost[q] + missed + owed = decoded * n)'
  <2>1. /\ length' = length /\ lost' = lost /\ missed' = missed /\ decoded' = decoded
        /\ owed' = owed
    BY <1>4, ReceiveOwes DEF Arrive, publishVars, Log
  <2> QED
    BY <1>1, <2>1
<1>5. ASSUME NEW a \in Actors, Send(a)
      PROVE  (length + lost[q] + missed + owed = decoded * n)'
  <2>1. /\ length' = length /\ lost' = lost /\ missed' = missed /\ decoded' = decoded
        /\ owed' = owed
    BY <1>5, SendOwes DEF Send, publishVars, Log
  <2> QED
    BY <1>1, <2>1
<1>6. CASE DropChange
  <2>1. length' = length /\ lost' = lost /\ decoded' = decoded
    BY <1>6 DEF DropChange, publishVars, Log
  <2>2. owed = owed' + (missed' - missed) /\ missed' \in Nat
    BY <1>6, DropOwes
  <2>3. owed' \in Nat
    BY OwedFinite
  <2>4. length' + lost'[q] + missed' + owed' = length + lost[q] + missed + owed
    <3>1. ASSUME NEW l \in Nat, NEW o \in Nat, NEW o1 \in Nat, NEW m \in Nat, NEW m1 \in Nat,
                 o = o1 + (m1 - m)
          PROVE  l + lost[q] + m1 + o1 = l + lost[q] + m + o
      BY <1>1, <3>1, SMTT(30)
    <3> QED
      BY <1>1, <2>1, <2>2, <2>3, <3>1
  <2> QED
    BY <1>1, <1>2, <2>1, <2>4
<1>7. ASSUME NEW a \in Actors, Push(a)
      PROVE  (length + lost[q] + missed + owed = decoded * n)'
  <2>1. /\ missed' = missed /\ decoded' = decoded /\ Event(a, now[a]) \in Events
        /\ Head(todo[a]) \in Queues /\ lost \in [Queues -> Nat]
    BY <1>7, BoundAssumption DEF Push, Types, Event, Events
  <2>2. owed' \in Nat /\ owed = IF q = Head(todo[a]) THEN owed' + 1 ELSE owed'
    BY <1>7, PushOwes, OwedFinite
  <2>3. Log(q) \in Seq(Events)
    BY LogTypes
  <2>4. CASE HasRoom(Head(todo[a]))
    <3>1. /\ lost' = lost
          /\ events' = [events EXCEPT ![Head(todo[a])] =
                          Append(events[Head(todo[a])], Event(a, now[a]))]
      BY <1>7, <2>4 DEF Push
    <3>2. CASE q = Head(todo[a])
      <4>1. Log(q)' = Append(Log(q), Event(a, now[a]))
        BY <1>7, <2>4, <3>2, LogPush
      <4>2. length' = length + 1
        BY <2>1, <2>3, <4>1
      <4>3. length + 1 + lost[q] + missed + owed' = length + lost[q] + missed + (owed' + 1)
        BY <1>1, <2>2, Balances, SMTT(30)
      <4>4. owed = owed' + 1 /\ lost'[q] = lost[q]
        BY <2>2, <3>1, <3>2
      <4>5. length' + lost'[q] + missed' + owed' = length + lost[q] + missed + owed
        BY <2>1, <4>2, <4>3, <4>4
      <4> QED
        BY <1>2, <2>1, <4>5
    <3>3. CASE q # Head(todo[a])
      <4>1. length' = length
        BY <1>7, <3>3, LogPush
      <4> QED
        BY <1>1, <1>2, <2>1, <2>2, <3>1, <3>3, <4>1
    <3> QED
      BY <3>2, <3>3
  <2>5. CASE ~HasRoom(Head(todo[a]))
    <3>1. /\ lost' = [lost EXCEPT ![Head(todo[a])] = lost[Head(todo[a])] + 1]
          /\ length' = length
      BY <1>7, <2>5 DEF Push, Log, publishVars
    <3>2. lost'[q] = IF q = Head(todo[a]) THEN lost[q] + 1 ELSE lost[q]
      BY <2>1, <3>1
    <3>3. length + (lost[q] + 1) + missed + owed' = length + lost[q] + missed + (owed' + 1)
      <4>1. length \in Nat /\ lost[q] \in Nat /\ missed \in Nat /\ owed' \in Nat
        BY <1>1, <2>2
      <4> HIDE DEF owed, length
      <4> QED
        BY <4>1
    <3>4. length' + lost'[q] + missed' + owed' = length + lost[q] + missed + owed
      <4>1. CASE q = Head(todo[a])
        BY <2>1, <2>2, <3>1, <3>2, <3>3, <4>1
      <4>2. CASE q # Head(todo[a])
        BY <2>1, <2>2, <3>1, <3>2, <4>2
      <4> QED
        BY <4>1, <4>2
    <3> QED
      BY <1>2, <2>1, <3>4
  <2> QED
    BY <2>4, <2>5
<1>8. CASE OtherStep
  <2>1. /\ lost' = lost /\ missed' = missed /\ decoded' = decoded /\ now' = now
        /\ todo' = todo /\ inbox' = inbox
    BY <1>8 DEF OtherStep, PublishStep, Top, GetEvent, GetNothing, WriteEvent, Close,
                Terminate, publisherVars, actorVars
  <2>2. length' = length
    BY <1>8, LogStays
  <2>3. owed' = owed
    BY <2>1 DEF Owed, Owes, Ahead, Coming, Up
  <2> QED
    BY <1>1, <2>1, <2>2, <2>3
<1> QED
  BY <1>3, <1>4, <1>5, <1>6, <1>7, <1>8 DEF PublisherNext, OtherStep

-----------------------------------------------------------------------------
(* The end.                                                                *)

LEMMA OrderlyStep == IInv /\ Orderly /\ [PublisherNext]_publisherVars => Orderly'
<1> SUFFICES ASSUME IInv, Orderly, [PublisherNext]_publisherVars PROVE Orderly'
  OBVIOUS
<1> USE DEF IInv
\* Once all is done and closed, no actor does anything.
<1>1. ASSUME shut, ~signalled
      PROVE  /\ Idle /\ ~Decode /\ ~DropChange
             /\ \A a \in Encoders \cup Brocas : ~Arrive(a)
             /\ \A a \in Actors : ~Push(a) /\ ~Send(a)
  <2>1. Idle
    BY <1>1 DEF Orderly
  <2> QED
    BY <1>1, <2>1 DEF Idle, Decode, DropChange, Arrive, Push, Send, Actors
<1>2. (shut /\ ~signalled => Idle)'
  <2> SUFFICES ASSUME shut', ~signalled' PROVE Idle'
    OBVIOUS
  <2>1. CASE Close
    <3>1. Idle /\ UNCHANGED <<todo, inbox>>
      BY <2>1 DEF Close, actorVars
    <3> QED
      BY <3>1 DEF Idle
  <2>2. CASE ~Close
    <3>1. shut /\ ~signalled
      <4>1. shut' = shut
        BY <2>2 DEF PublisherNext, Decode, Arrive, Push, Send, DropChange, PublishStep, Top,
                    GetEvent, GetNothing, WriteEvent, Terminate, publisherVars
      <4>2. CASE Terminate
        BY <4>2 DEF Terminate
      <4>3. CASE ~Terminate
        <5>1. signalled' = signalled
          BY <4>3 DEF PublisherNext, Decode, Arrive, Push, Send, DropChange, PublishStep, Top,
                      GetEvent, GetNothing, WriteEvent, Close, publisherVars
        <5> QED
          BY <4>1, <5>1
      <4> QED
        BY <4>2, <4>3
    <3>2. UNCHANGED <<todo, inbox>> /\ Idle
      BY <1>1, <2>2, <3>1 DEF PublisherNext, PublishStep, Top, GetEvent, GetNothing, WriteEvent,
                              Terminate, publisherVars, actorVars
    <3> QED
      BY <3>2 DEF Idle
  <2> QED
    BY <2>1, <2>2
<1>3. ASSUME NEW q \in Queues, publish'[q] = "done", ~signalled'
      PROVE  shut' /\ events'[q] = <<>>
  <2>1. publish \in [Queues -> {"top", "get", "write", "done"}]
    BY DEF Types
  <2>2. CASE GetNothing(q)
    BY <2>2 DEF GetNothing
  <2>3. CASE ~GetNothing(q) /\ publish[q] # "done"
    <3>1. ~PublishStep(q)
      BY <1>3, <2>1, <2>3, SMTT(30) DEF PublishStep, Top, GetEvent, WriteEvent
    <3>2. publish'[q] = publish[q]
      BY <2>1, <3>1 DEF PublisherNext, Decode, Arrive, Push, Send, DropChange, PublishStep, Top,
                        GetEvent, GetNothing, WriteEvent, Close, Terminate, publisherVars,
                        publishVars
    <3> QED
      BY <1>3, <2>3, <3>2
  <2>4. CASE publish[q] = "done"
    <3>1. ~signalled
      BY <1>3 DEF PublisherNext, Decode, Arrive, Push, Send, DropChange, PublishStep, Top, GetEvent,
                  GetNothing, WriteEvent, Close, Terminate, publisherVars
    <3>2. shut /\ events[q] = <<>>
      BY <2>4, <3>1 DEF Orderly
    <3>3. shut'
      BY <3>2 DEF PublisherNext, Decode, Arrive, Push, Send, DropChange, PublishStep, Top, GetEvent,
                  GetNothing, WriteEvent, Close, Terminate, publisherVars
    <3>4. events'[q] = events[q]
      <4>1. ASSUME NEW p \in Queues, GetEvent(p)
            PROVE  events'[q] = events[q]
        BY <2>4, <4>1 DEF GetEvent, Types
      <4> QED
        BY <1>1, <3>1, <3>2, <4>1 DEF PublisherNext, PublishStep, Top, GetNothing, WriteEvent, Close,
                                      Terminate, publisherVars
    <3> QED
      BY <3>2, <3>3, <3>4
  <2> QED
    BY <2>2, <2>3, <2>4
<1> QED
  BY <1>2, <1>3 DEF Orderly

LEMMA BooksInit == PublisherInit => Accounted /\ Orderly
<1> SUFFICES ASSUME PublisherInit PROVE Accounted /\ Orderly
  OBVIOUS
<1>1. Orderly
  BY DEF PublisherInit, Orderly
<1>2. ASSUME NEW q \in Queues
      PROVE  /\ Log(q) = <<>> /\ lost[q] = 0 /\ missed = 0 /\ decoded = 0 /\ Owed(q) = {}
  <2>1. Range(<<>>) = {}
    BY DEF Range
  <2>2. ASSUME NEW t \in Encoders \cup Brocas, NEW c
        PROVE  ~Coming(t, c)
    <3>1. Up(t) \in Actors
      BY SourceAssumption DEF Up, Actors
    <3> QED
      BY <2>1, <3>1 DEF PublisherInit, Coming
  <2>3. ASSUME NEW a \in Actors, NEW c
        PROVE  ~Owes(q, a, c)
    BY <2>1, <2>2, SourceAssumption DEF PublisherInit, Owes, Ahead, Actors
  <2>4. Owed(q) = {}
    BY <2>3 DEF Owed
  <2> QED
    BY <2>4 DEF PublisherInit, Log
<1>3. Cardinality({}) = 0 /\ Len(<<>>) = 0 /\ Cardinality(Actors) \in Nat
  <2>1. IsFiniteSet(Actors)
    BY FiniteAssumption, FS_Union, FS_Singleton DEF Actors
  <2> QED
    BY <2>1, FS_EmptySet, FS_CardinalityType
<1>4. Accounted
  <2>1. 0 + 0 + 0 + 0 = 0 * Cardinality(Actors)
    BY <1>3
  <2> QED
    BY <1>2, <1>3, <2>1 DEF Accounted
<1> QED
  BY <1>1, <1>4

LEMMA ActorsCounted ==
  /\ Cardinality(Actors) = 1 + Cardinality(Encoders) + Cardinality(Brocas)
  /\ Cardinality(Encoders) \in Nat /\ Cardinality(Brocas) \in Nat
<1>1. /\ IsFiniteSet({Decoder}) /\ Cardinality({Decoder}) = 1
      /\ Cardinality(Encoders) \in Nat /\ Cardinality(Brocas) \in Nat
  BY FS_Singleton, FiniteAssumption, FS_CardinalityType
<1>2. IsFiniteSet({Decoder} \cup Encoders)
      /\ Cardinality({Decoder} \cup Encoders) = 1 + Cardinality(Encoders)
  <2>1. {Decoder} \cap Encoders = {}
    BY ActorsAssumption
  <2>2. Cardinality({Decoder} \cup Encoders)
          = Cardinality({Decoder}) + Cardinality(Encoders)
    BY <1>1, <2>1, FiniteAssumption, UnionCounted
  <2>3. IsFiniteSet({Decoder} \cup Encoders)
    BY <1>1, FiniteAssumption, FS_Union
  <2> QED
    BY <1>1, <2>2, <2>3
<1>3. Cardinality(({Decoder} \cup Encoders) \cup Brocas)
        = 1 + Cardinality(Encoders) + Cardinality(Brocas)
  <2>1. ({Decoder} \cup Encoders) \cap Brocas = {}
    BY ActorsAssumption
  <2> QED
    BY <1>1, <1>2, <2>1, FiniteAssumption, UnionCounted
<1> QED
  BY <1>1, <1>3 DEF Actors

\* After an orderly end, whatever the order in which the threads ran and
\* however slow the publishers were, every acknowledgment of every command was
\* published, or found no room in the queue, or is one of a track change that
\* was dropped: PublishQueue loses none that it accepted.
THEOREM AllEventsAccounted == PublisherSpec => []EventsAccounted
<1>1. IInv /\ Accounted /\ Orderly => EventsAccounted
  <2> SUFFICES ASSUME IInv, Accounted, Orderly,
                      NEW q \in Queues, publish[q] = "done", ~signalled
               PROVE  Len(published[q]) + lost[q] + missed
                        = decoded * (1 + Cardinality(Encoders) + Cardinality(Brocas))
    BY DEF EventsAccounted
  <2>1. events[q] = <<>> /\ Idle
    BY DEF Orderly
  <2>2. Log(q) = published[q]
    <3>1. published[q] \in Seq(Events)
      BY DEF IInv, Types
    <3> QED
      BY <2>1, <3>1 DEF Log
  <2>3. Owed(q) = {}
    <3>1. Range(<<>>) = {}
      BY DEF Range
    <3>2. ASSUME NEW t \in Encoders \cup Brocas, NEW c
          PROVE  ~Coming(t, c)
      <4>1. Up(t) \in Actors
        BY SourceAssumption DEF Up, Actors
      <4> QED
        BY <2>1, <3>1, <4>1 DEF Idle, Coming
    <3>3. ASSUME NEW a \in Actors, NEW c
          PROVE  ~Owes(q, a, c)
      BY <2>1, <3>1, <3>2, SourceAssumption DEF Idle, Owes, Ahead, Actors
    <3> QED
      BY <3>3 DEF Owed
  <2>4. Len(published[q]) + lost[q] + missed + 0 = decoded * Cardinality(Actors)
    BY <2>2, <2>3, FS_EmptySet DEF Accounted
  <2>5. Len(published[q]) + lost[q] + missed + 0 = Len(published[q]) + lost[q] + missed
    <3>1. Len(published[q]) \in Nat /\ lost[q] \in Nat /\ missed \in Nat
      BY DEF IInv, Types
    <3> QED
      BY <3>1
  <2> QED
    BY <2>4, <2>5, ActorsCounted
<1> QED
  BY <1>1, BooksInit, AccountedStep, OrderlyStep, Invariance, PTL DEF PublisherSpec

(***************************************************************************)
(* The tracks.                                                             *)
(***************************************************************************)

Listed(s) == s \in Seq(Range(s))

LastOf(s) == s[Len(s)]

Increasing(s) == \A i, j \in DOMAIN s : i < j => s[i] < s[j]

\* A job is of a command that was heard, and would pass on what that command
\* asks for.
JobMade(job) ==
  /\ job.command \in 1 .. Len(heard)
  /\ \/ /\ job.blocks \in Nat \ {0}
        /\ IsTrack(heard[job.command])
        /\ Frames(heard[job.command]) = 1 .. job.blocks
     \/ /\ job.blocks = 0
        /\ job.path \in DOMAIN Media =>
             /\ IsTrack(heard[job.command])
             /\ Frames(heard[job.command])
                  = {i \in DOMAIN Media[job.path].packets : Media[job.path].packets[i]}

Holding == reader \in {"got", "command", "add"}

PlayType ==
  [step : Steps, left : Nat, codec : Seq(Nat), graph : Seq(Nat),
   draining : BOOLEAN, flushed : SUBSET {"codec", "graph"}]

ListsOK ==
  /\ Listed(heard) /\ Listed(jobs) /\ Listed(taken) /\ Listed(written)
  /\ play \in PlayType

JobsMade ==
  /\ \A i \in DOMAIN jobs : JobMade(jobs[i])
  /\ \A i \in DOMAIN taken :
       /\ JobMade(taken[i].job)
       /\ taken[i].opened => taken[i].job.blocks > 0 \/ taken[i].job.path \in DOMAIN Media

\* The thread that reads commands has the last value it heard, of which no job
\* was made yet.
NewestHeld ==
  Holding =>
    /\ heard # <<>> /\ line = LastOf(heard)
    /\ \A i \in DOMAIN jobs : jobs[i].command < Len(heard)
    /\ \A i \in DOMAIN taken : taken[i].job.command < Len(heard)
    /\ \A i \in DOMAIN written : written[i].command < Len(heard)

MakesHeld == reader = "add" => Makes(line)

InOrder ==
  /\ \A i, j \in DOMAIN jobs : i < j => jobs[i].command < jobs[j].command
  /\ \A i, j \in DOMAIN taken : i < j => taken[i].job.command < taken[j].job.command
  /\ \A i \in DOMAIN taken, j \in DOMAIN jobs : taken[i].job.command < jobs[j].command
  /\ \A i \in DOMAIN written, j \in DOMAIN jobs : written[i].command < jobs[j].command
  /\ \A i \in DOMAIN written, j \in DOMAIN taken :
       \/ written[i].command < taken[j].job.command
       \/ j = 1 /\ play.step # "idle" /\ written[i].command = taken[j].job.command

\* The job that is played has passed on what it is given up to here.
Playing ==
  play.step # "idle" =>
    /\ taken # <<>> /\ Current.opened
    /\ written # <<>> /\ LastOf(written).command = Current.job.command
    /\ play.step = "blocks" => Current.job.blocks > 0

BlocksPlayed ==
  play.step = "blocks" =>
    /\ play.left <= Current.job.blocks
    /\ LastOf(written).frame = Current.job.blocks - play.left

\* Packets that have been read and are neither passed on nor lost.
Held == Range(play.codec) \cup Range(play.graph)

PacketsPlayed ==
  play.step \notin {"idle", "blocks"} =>
    /\ Current.job.blocks = 0 /\ play.left <= Len(Packets)
    /\ Increasing(play.codec) /\ Increasing(play.graph)
    /\ \A g \in Range(play.graph), c \in Range(play.codec) : g < c
    /\ LastOf(written).frame \in 0 .. Len(Packets) - play.left
    /\ \A k \in Held :
         /\ k \in 1 .. Len(Packets) - play.left /\ Packets[k]
         /\ LastOf(written).frame < k

WrittenApart ==
  \A i \in DOMAIN written :
    LET number == written[i].command
        frame  == written[i].frame
    IN  /\ number \in 1 .. Len(heard)
        /\ IsTrack(heard[number])
        /\ frame \in Frames(heard[number]) \cup {0}
        /\ IF frame = 0 THEN i > 1 => written[i - 1].command < number
           ELSE i > 1 /\ written[i - 1].command = number /\ written[i - 1].frame < frame

TrackInv ==
  /\ ListsOK /\ JobsMade /\ NewestHeld /\ MakesHeld /\ InOrder
  /\ Playing /\ BlocksPlayed /\ PacketsPlayed /\ WrittenApart

-----------------------------------------------------------------------------
(* Lists of anything.                                                      *)

\* A sequence over any set is a list of its own elements.
LEMMA SeqIsListed ==
  ASSUME NEW S, NEW s \in Seq(S)
  PROVE  Listed(s)
PROOF
  <1>1. DOMAIN s = 1 .. Len(s) /\ Len(s) \in Nat
    OBVIOUS
  <1>2. \A i \in 1 .. Len(s) : s[i] \in Range(s)
    BY <1>1 DEF Range
  <1>3. s = [i \in 1 .. Len(s) |-> s[i]]
    OBVIOUS
  <1>4. [i \in 1 .. Len(s) |-> s[i]] \in Seq(Range(s))
    BY <1>1, <1>2
  <1> QED
    BY <1>3, <1>4 DEF Listed

\* The places of a list.
LEMMA ListPlaces ==
  ASSUME NEW s, Listed(s)
  PROVE  /\ Len(s) \in Nat /\ DOMAIN s = 1 .. Len(s)
         /\ s # <<>> <=> Len(s) > 0
PROOF
  <1> DEFINE S == Range(s)
  <1>1. s \in Seq(S)
    BY DEF Listed
  <1> HIDE DEF S
  <1> QED
    BY <1>1

\* What is appended to a list comes last, and the rest stays in its place.
LEMMA ListAppend ==
  ASSUME NEW s, NEW v, Listed(s)
  PROVE  /\ Listed(Append(s, v))
         /\ Append(s, v) # <<>>
         /\ Len(Append(s, v)) = Len(s) + 1
         /\ DOMAIN Append(s, v) = 1 .. Len(s) + 1
         /\ \A i \in 1 .. Len(s) : Append(s, v)[i] = s[i]
         /\ Append(s, v)[Len(s) + 1] = v
PROOF
  <1> DEFINE S == Range(s) \cup {v}
  <1>1. s \in Seq(S)
    BY SeqMonotonic DEF Listed
  <1>2. v \in S
    OBVIOUS
  <1> HIDE DEF S
  <1>3. Append(s, v) \in Seq(S)
    BY <1>1, <1>2
  <1>4. Listed(Append(s, v))
    BY <1>3, SeqIsListed
  <1> QED
    BY <1>1, <1>2, <1>3, <1>4

\* The tail of a list is the list without its first place.
LEMMA ListTail ==
  ASSUME NEW s, Listed(s), s # <<>>
  PROVE  /\ Listed(Tail(s))
         /\ Len(Tail(s)) = Len(s) - 1
         /\ DOMAIN Tail(s) = 1 .. Len(s) - 1
         /\ \A i \in 1 .. Len(s) - 1 : Tail(s)[i] = s[i + 1]
         /\ Head(s) = s[1]
PROOF
  <1> DEFINE S == Range(s)
  <1>1. s \in Seq(S)
    BY DEF Listed
  <1> HIDE DEF S
  <1>2. Tail(s) \in Seq(S)
    BY <1>1
  <1>3. Listed(Tail(s))
    BY <1>2, SeqIsListed
  <1>4. DOMAIN Tail(s) = 1 .. Len(Tail(s))
    BY <1>2
  <1> QED
    BY <1>1, <1>3, <1>4

\* Two lists one after the other.
LEMMA ListConcat ==
  ASSUME NEW s, NEW t, Listed(s), Listed(t)
  PROVE  /\ Listed(s \o t)
         /\ Len(s \o t) = Len(s) + Len(t)
         /\ DOMAIN (s \o t) = 1 .. Len(s) + Len(t)
         /\ \A i \in 1 .. Len(s) : (s \o t)[i] = s[i]
         /\ \A i \in 1 .. Len(t) : (s \o t)[Len(s) + i] = t[i]
PROOF
  <1> DEFINE S == Range(s) \cup Range(t)
  <1>1. s \in Seq(S) /\ t \in Seq(S)
    BY SeqMonotonic DEF Listed
  <1> HIDE DEF S
  <1>2. s \o t \in Seq(S)
    BY <1>1
  <1>3. Listed(s \o t)
    BY <1>2, SeqIsListed
  <1>4. DOMAIN (s \o t) = 1 .. Len(s \o t) /\ Len(s \o t) = Len(s) + Len(t)
    BY <1>1, <1>2
  <1>5. Len(s) \in Nat /\ Len(t) \in Nat
    BY <1>1
  <1>6. \A i \in 1 .. Len(s) : (s \o t)[i] = s[i]
    BY <1>1
  <1>7. \A i \in 1 .. Len(t) : (s \o t)[Len(s) + i] = t[i]
    BY <1>1, ConcatProperties
  <1> QED
    BY <1>3, <1>4, <1>5, <1>6, <1>7

-----------------------------------------------------------------------------
(* Lists of packets.                                                       *)

\* The elements of a sequence of numbers.
LEMMA RangePlaces ==
  ASSUME NEW s \in Seq(Nat)
  PROVE  /\ \A i \in 1 .. Len(s) : s[i] \in Range(s) /\ s[i] \in Nat
         /\ \A k \in Range(s) : k \in Nat /\ \E i \in 1 .. Len(s) : s[i] = k
PROOF
  BY DEF Range

\* Taking the first of an increasing sequence, which is less than the others.
LEMMA IncreasingTail ==
  ASSUME NEW s \in Seq(Nat), Increasing(s), s # <<>>
  PROVE  /\ Tail(s) \in Seq(Nat) /\ Increasing(Tail(s))
         /\ Head(s) \in Range(s) /\ Head(s) \in Nat
         /\ Range(Tail(s)) \subseteq Range(s)
         /\ \A k \in Range(Tail(s)) : Head(s) < k
PROOF
  <1>1. Len(s) \in Nat \ {0} /\ Tail(s) \in Seq(Nat) /\ Len(Tail(s)) = Len(s) - 1
    OBVIOUS
  <1>2. \A i \in 1 .. Len(s) - 1 : Tail(s)[i] = s[i + 1] /\ i + 1 \in 1 .. Len(s)
    BY <1>1
  <1>3. Head(s) = s[1] /\ 1 \in 1 .. Len(s)
    BY <1>1
  <1>4. DOMAIN s = 1 .. Len(s) /\ DOMAIN Tail(s) = 1 .. Len(s) - 1
    BY <1>1
  <1>5. Increasing(Tail(s))
    BY <1>1, <1>2, <1>4 DEF Increasing
  <1>6. Head(s) \in Range(s) /\ Head(s) \in Nat
    BY <1>3, RangePlaces
  <1>7. ASSUME NEW k \in Range(Tail(s))
        PROVE  k \in Range(s) /\ Head(s) < k
    <2>1. PICK i \in 1 .. Len(s) - 1 : k = Tail(s)[i]
      BY <1>1, RangePlaces
    <2>2. k = s[i + 1] /\ i + 1 \in 1 .. Len(s) /\ 1 < i + 1
      BY <2>1, <1>1, <1>2
    <2>3. s[1] < s[i + 1]
      BY <2>2, <1>3, <1>4 DEF Increasing
    <2> QED
      BY <2>2, <2>3, <1>3, RangePlaces
  <1> QED
    BY <1>1, <1>5, <1>6, <1>7

\* Appending a number greater than all.
LEMMA IncreasingAppend ==
  ASSUME NEW s \in Seq(Nat), NEW n \in Nat, Increasing(s), \A k \in Range(s) : k < n
  PROVE  /\ Append(s, n) \in Seq(Nat) /\ Increasing(Append(s, n))
         /\ Range(Append(s, n)) = Range(s) \cup {n}
PROOF
  <1>1. /\ Append(s, n) \in Seq(Nat) /\ Len(Append(s, n)) = Len(s) + 1 /\ Len(s) \in Nat
        /\ DOMAIN Append(s, n) = 1 .. Len(s) + 1 /\ DOMAIN s = 1 .. Len(s)
    OBVIOUS
  <1>2. \A i \in 1 .. Len(s) : Append(s, n)[i] = s[i] /\ s[i] < n
    BY RangePlaces
  <1>3. Append(s, n)[Len(s) + 1] = n
    OBVIOUS
  <1>4. ASSUME NEW i \in 1 .. Len(s) + 1, NEW j \in 1 .. Len(s) + 1, i < j
        PROVE  Append(s, n)[i] < Append(s, n)[j]
    <2>1. i \in 1 .. Len(s)
      BY <1>1, <1>4
    <2>2. CASE j = Len(s) + 1
      BY <2>1, <2>2, <1>2, <1>3
    <2>3. CASE j \in 1 .. Len(s)
      BY <2>1, <2>3, <1>1, <1>2, <1>4 DEF Increasing
    <2> QED
      BY <2>2, <2>3, <1>1
  <1>5. Increasing(Append(s, n))
    BY <1>1, <1>4 DEF Increasing
  <1>6. Range(Append(s, n)) = Range(s) \cup {n}
    <2>1. ASSUME NEW k \in Range(Append(s, n))
          PROVE  k \in Range(s) \cup {n}
      <3>1. PICK i \in 1 .. Len(s) + 1 : k = Append(s, n)[i]
        BY <1>1, RangePlaces
      <3>2. i \in 1 .. Len(s) \/ i = Len(s) + 1
        BY <1>1
      <3> QED
        BY <3>1, <3>2, <1>2, <1>3, RangePlaces
    <2>2. ASSUME NEW k \in Range(s)
          PROVE  k \in Range(Append(s, n))
      <3>1. PICK i \in 1 .. Len(s) : k = s[i]
        BY RangePlaces
      <3>2. k = Append(s, n)[i] /\ i \in 1 .. Len(Append(s, n))
        BY <3>1, <1>1, <1>2
      <3> QED
        BY <3>2, <1>1, RangePlaces
    <2>3. n \in Range(Append(s, n))
      <3>1. Len(s) + 1 \in 1 .. Len(Append(s, n))
        BY <1>1
      <3> QED
        BY <3>1, <1>1, <1>3, RangePlaces
    <2> QED
      BY <2>1, <2>2, <2>3
  <1> QED
    BY <1>1, <1>5, <1>6

\* Cutting an increasing sequence in two.
LEMMA IncreasingCut ==
  ASSUME NEW s \in Seq(Nat), Increasing(s), NEW n \in 0 .. Len(s)
  PROVE  LET first  == SubSeq(s, 1, n)
             second == SubSeq(s, n + 1, Len(s))
         IN  /\ first \in Seq(Nat) /\ Len(first) = n
             /\ \A i \in 1 .. n : first[i] = s[i]
             /\ second \in Seq(Nat) /\ Increasing(second)
             /\ Range(second) \subseteq Range(s)
             /\ \A k \in Range(second), i \in 1 .. n : s[i] < k
PROOF
  <1> DEFINE first  == SubSeq(s, 1, n)
             second == SubSeq(s, n + 1, Len(s))
  <1>1. Len(s) \in Nat /\ DOMAIN s = 1 .. Len(s) /\ n \in Nat
    OBVIOUS
  <1>2. first \in Seq(Nat) /\ Len(first) = n /\ \A i \in 1 .. n : first[i] = s[i]
    BY <1>1, SubSeqProperties
  <1>3. /\ second \in Seq(Nat) /\ Len(second) = Len(s) - n
        /\ \A i \in 1 .. Len(s) - n : second[i] = s[n + i]
    <2> DEFINE m == n + 1
               len == Len(s)
    <2>1. m \in Nat /\ len \in Nat /\ m = n + 1 /\ n \in 0 .. len
      BY <1>1
    <2>2. \A i \in m .. len : s[i] \in Nat
      BY <1>1
    <2>3. /\ SubSeq(s, m, len) \in Seq(Nat)
          /\ Len(SubSeq(s, m, len)) = (IF m <= len THEN len - m + 1 ELSE 0)
          /\ \A i \in 1 .. len - m + 1 : SubSeq(s, m, len)[i] = s[m + i - 1]
      BY <2>1, <2>2, SubSeqProperties
    <2>4. \A i \in 1 .. len - n : i \in 1 .. len - m + 1 /\ m + i - 1 = n + i
      BY <2>1
    <2>5. (IF m <= len THEN len - m + 1 ELSE 0) = len - n
      BY <2>1
    <2>6. second = SubSeq(s, m, len)
      OBVIOUS
    <2> QED
      BY <2>3, <2>4, <2>5, <2>6
  <1>4. DOMAIN second = 1 .. Len(s) - n
    BY <1>3
  <1> HIDE DEF first, second
  <1>5. \A i \in 1 .. Len(s) - n : n + i \in 1 .. Len(s)
    BY <1>1
  <1>6. Increasing(second)
    <2>1. ASSUME NEW i \in 1 .. Len(s) - n, NEW j \in 1 .. Len(s) - n, i < j
          PROVE  second[i] < second[j]
      <3>1. n + i \in DOMAIN s /\ n + j \in DOMAIN s /\ n + i < n + j
        BY <1>1, <2>1
      <3>2. s[n + i] < s[n + j]
        BY <3>1 DEF Increasing
      <3> QED
        BY <3>2, <1>3
    <2> QED
      BY <2>1, <1>4 DEF Increasing
  <1>7. ASSUME NEW k \in Range(second)
        PROVE  k \in Range(s) /\ \A i \in 1 .. n : s[i] < k
    <2>1. PICK j \in 1 .. Len(s) - n : k = second[j]
      BY <1>3, RangePlaces
    <2>2. k = s[n + j] /\ n + j \in 1 .. Len(s)
      BY <2>1, <1>3, <1>5
    <2>3. \A i \in 1 .. n : i \in 1 .. Len(s) /\ i < n + j
      BY <1>1
    <2>4. \A i \in 1 .. n : s[i] < s[n + j]
      BY <2>2, <2>3, <1>1 DEF Increasing
    <2> QED
      BY <2>2, <2>4, RangePlaces
  <1> QED
    BY <1>2, <1>3, <1>6, <1>7 DEF first, second

-----------------------------------------------------------------------------
(* Jobs.                                                                   *)

\* Neither the configuration nor a value that was heard ever changes, and so
\* neither does what a command asks for.
LEMMA HeardStays ==
  ASSUME Listed(heard), named' = named,
         \/ heard' = heard
         \/ \E v : heard' = Append(heard, v)
  PROVE  /\ Listed(heard') /\ Len(heard) \in Nat /\ Len(heard') \in Nat
         /\ Len(heard) <= Len(heard')
         /\ \A n \in 1 .. Len(heard) :
              /\ n \in 1 .. Len(heard') /\ heard'[n] = heard[n]
              /\ IsTrack(heard[n])' <=> IsTrack(heard[n])
              /\ Frames(heard[n])' = Frames(heard[n])
         /\ \A job : JobMade(job) => JobMade(job)'
PROOF
  <1>1. /\ Listed(heard') /\ Len(heard) \in Nat /\ Len(heard') \in Nat
        /\ Len(heard) <= Len(heard')
        /\ \A n \in 1 .. Len(heard) : n \in 1 .. Len(heard') /\ heard'[n] = heard[n]
    <2>1. Len(heard) \in Nat
      BY ListPlaces
    <2>2. CASE heard' = heard
      BY <2>1, <2>2
    <2>3. CASE \E v : heard' = Append(heard, v)
      <3>1. PICK v : heard' = Append(heard, v)
        BY <2>3
      <3>2. /\ Listed(heard') /\ Len(heard') = Len(heard) + 1
            /\ \A n \in 1 .. Len(heard) : heard'[n] = heard[n]
        BY <3>1, ListAppend
      <3> QED
        BY <2>1, <3>2
    <2> QED
      BY <2>2, <2>3
  <1>2. Decoders' = Decoders
    BY DEF Decoders, config
  <1>3. ASSUME NEW n \in 1 .. Len(heard)
        PROVE  /\ IsTrack(heard[n])' <=> IsTrack(heard[n])
               /\ Frames(heard[n])' = Frames(heard[n])
    <2>1. heard'[n] = heard[n]
      BY <1>1
    <2> QED
      BY <1>2, <2>1 DEF IsTrack, Frames
  <1>4. ASSUME NEW job, JobMade(job)
        PROVE  JobMade(job)'
    <2>1. job.command \in 1 .. Len(heard)
      BY <1>4 DEF JobMade
    <2>2. /\ IsTrack(heard[job.command])' <=> IsTrack(heard[job.command])
          /\ Frames(heard[job.command])' = Frames(heard[job.command])
      BY <1>3, <2>1
    <2> QED
      BY <1>1, <1>4, <2>1, <2>2 DEF JobMade
  <1> QED
    BY <1>1, <1>3, <1>4

\* createJob() makes a job that passes on what the command asks for.
LEMMA JobCreated ==
  ASSUME Listed(heard), heard # <<>>, line = LastOf(heard), Makes(line)
  PROVE  \E job : CreateJob(line) = <<job>> /\ JobMade(job) /\ job.command = Len(heard)
PROOF
  <1> DEFINE decoder == Key(Decoders, Name(line))
             param   == Key(line, "param")
             lavc    == PartType(decoder) = "lavc"
             job     == [command |-> Len(heard),
                         blocks  |-> IF lavc THEN 0 ELSE param.number,
                         path    |-> IF lavc THEN Track(param).text ELSE "",
                         added   |-> IF lavc THEN Added(decoder, param) ELSE <<>>]
  <1>1. HasKey(Decoders, Name(line)) /\ CreateJob(line) # <<>>
    BY DEF Makes
  <1>2. /\ CreateJob(line) = <<job>>
        /\ IF lavc THEN IsA(Track(param), "string") ELSE Lasts(param)
    BY <1>1 DEF CreateJob
  <1>3. job.command = Len(heard) /\ Len(heard) \in 1 .. Len(heard)
    BY ListPlaces
  <1>4. heard[job.command] = line
    BY <1>3 DEF LastOf
  <1>5. CASE lavc
    <2>1. job.blocks = 0 /\ job.path = Track(param).text
      BY <1>5
    <2>2. IsA(Track(param), "string")
      BY <1>2, <1>5
    <2>3. FileOf(param) = Track(param).text
      BY <2>2 DEF FileOf, Track, IsA, Has, HasKey, KeyOrNull, Key, Accepted, Null, Value, Numbers
    <2>4. job.path \in DOMAIN Media => IsTrack(line)
      BY <1>1, <1>5, <2>1, <2>3 DEF IsTrack
    <2>5. Frames(line) = {i \in DOMAIN Media[job.path].packets : Media[job.path].packets[i]}
      BY <1>5, <2>1, <2>3 DEF Frames
    <2> QED
      BY <1>2, <1>3, <1>4, <2>1, <2>4, <2>5 DEF JobMade
  <1>6. CASE ~lavc
    <2>1. job.blocks = param.number /\ param.number \in Nat \ {0} /\ param.is \in Numbers
      BY <1>2, <1>6 DEF Lasts, IsA, Accepted
    <2>2. IsTrack(line)
      <3>1. param.number > 0
        BY <2>1
      <3> QED
        BY <1>1, <1>6, <2>1, <3>1 DEF IsTrack
    <2>3. Frames(line) = 1 .. job.blocks
      BY <1>6, <2>1 DEF Frames
    <2> QED
      BY <1>2, <1>3, <1>4, <2>1, <2>2, <2>3 DEF JobMade
  <1> QED
    BY <1>5, <1>6

\* Only a job that makes blocks, or of which there is a file, is played.
LEMMA JobOpened ==
  ASSUME NEW job, NEW opens \in BOOLEAN
  PROVE  /\ Open(job, opens).job = job
         /\ Open(job, opens).opened => job.blocks > 0 \/ job.path \in DOMAIN Media
PROOF
  BY DEF Open

-----------------------------------------------------------------------------
(* The thread that reads commands.                                         *)

\* A step that neither reads a value nor makes a job.
LEMMA ReaderStep ==
  ASSUME TrackInv, UNCHANGED <<named, heard, jobs, taken, play, written>>,
         Holding' => Holding /\ line' = line, MakesHeld'
  PROVE  TrackInv'
PROOF
  <1>0. /\ named' = named /\ heard' = heard /\ jobs' = jobs /\ taken' = taken
        /\ play' = play /\ written' = written
    OBVIOUS
  <1>1. ListsOK'
    BY <1>0 DEF TrackInv, ListsOK, PlayType, Steps
  <1>2. JobsMade'
    <2>1. \A job : JobMade(job) => JobMade(job)'
      BY <1>0, HeardStays DEF TrackInv, ListsOK
    <2> QED
      BY <1>0, <2>1 DEF TrackInv, JobsMade
  <1>3. NewestHeld'
    BY <1>0 DEF TrackInv, NewestHeld, LastOf
  <1>4. InOrder'
    BY <1>0 DEF TrackInv, InOrder
  <1>5. Playing' /\ BlocksPlayed'
    BY <1>0 DEF TrackInv, Playing, BlocksPlayed, Current, LastOf
  <1>6. PacketsPlayed'
    BY <1>0 DEF TrackInv, PacketsPlayed, Current, LastOf, Packets, Held
  <1>7. WrittenApart'
    <2>1. \A n \in 1 .. Len(heard) : /\ IsTrack(heard[n])' <=> IsTrack(heard[n])
                                     /\ Frames(heard[n])' = Frames(heard[n])
      BY <1>0, HeardStays DEF TrackInv, ListsOK
    <2> QED
      BY <1>0, <2>1 DEF TrackInv, WrittenApart
  <1> QED
    BY <1>1, <1>2, <1>3, <1>4, <1>5, <1>6, <1>7 DEF TrackInv

\* A value is heard.
LEMMA HeardStep ==
  ASSUME TrackInv, NEW v, UNCHANGED <<named, jobs, playVars>>,
         heard' = Append(heard, v), line' = v, reader' = "got"
  PROVE  TrackInv'
PROOF
  <1>0. /\ named' = named /\ jobs' = jobs /\ taken' = taken
        /\ play' = play /\ written' = written
    BY DEF playVars
  <1>h. Listed(heard) /\ Listed(written)
    BY DEF TrackInv, ListsOK
  <1>s. /\ Listed(heard') /\ Len(heard) \in Nat
        /\ \A n \in 1 .. Len(heard) :
             /\ n \in 1 .. Len(heard') /\ heard'[n] = heard[n]
             /\ IsTrack(heard[n])' <=> IsTrack(heard[n])
             /\ Frames(heard[n])' = Frames(heard[n])
        /\ \A job : JobMade(job) => JobMade(job)'
    BY <1>0, <1>h, HeardStays
  <1>l. Len(heard') = Len(heard) + 1 /\ LastOf(heard') = v /\ heard' # <<>>
    BY <1>h, ListAppend DEF LastOf
  <1>1. ListsOK'
    BY <1>0, <1>s DEF TrackInv, ListsOK, PlayType, Steps
  <1>2. JobsMade'
    BY <1>0, <1>s DEF TrackInv, JobsMade
  <1>3. NewestHeld'
    <2>1. \A i \in DOMAIN jobs : jobs[i].command < Len(heard')
      BY <1>l, <1>s DEF TrackInv, JobsMade, JobMade
    <2>2. \A i \in DOMAIN taken : taken[i].job.command < Len(heard')
      BY <1>l, <1>s DEF TrackInv, JobsMade, JobMade
    <2>3. \A i \in DOMAIN written : written[i].command < Len(heard')
      BY <1>l, <1>s DEF TrackInv, WrittenApart
    <2>4. line' = LastOf(heard')
      BY <1>l
    <2> QED
      BY <1>0, <1>l, <2>1, <2>2, <2>3, <2>4 DEF NewestHeld, LastOf
  <1>4. MakesHeld'
    BY DEF MakesHeld
  <1>5. InOrder'
    BY <1>0 DEF TrackInv, InOrder
  <1>6. Playing' /\ BlocksPlayed'
    BY <1>0 DEF TrackInv, Playing, BlocksPlayed, Current, LastOf
  <1>7. PacketsPlayed'
    BY <1>0 DEF TrackInv, PacketsPlayed, Current, LastOf, Packets, Held
  <1>8. WrittenApart'
    BY <1>0, <1>s DEF TrackInv, WrittenApart
  <1> QED
    BY <1>1, <1>2, <1>3, <1>4, <1>5, <1>6, <1>7, <1>8 DEF TrackInv

\* A value that is read is heard, or it is no JSON and passed over.
LEMMA AnswerStep ==
  ASSUME TrackInv, reader = "line", NEW v, Answer(v), UNCHANGED <<named, jobs, playVars>>
  PROVE  TrackInv'
PROOF
  <1>1. CASE v = Broken
    <2>1. reader' = "line" /\ heard' = heard
      BY <1>1 DEF Answer
    <2>2. ~Holding' /\ MakesHeld'
      BY <2>1 DEF Holding, MakesHeld
    <2> QED
      BY <2>1, <2>2, ReaderStep DEF playVars
  <1>2. CASE v # Broken
    <2>1. heard' = Append(heard, v) /\ line' = v /\ reader' = "got"
      BY <1>2 DEF Answer, GoTo
    <2> QED
      BY <2>1, HeardStep
  <1> QED
    BY <1>1, <1>2

\* A job is put into the queue: it is of a later command than all the others.
LEMMA AddJobStep ==
  ASSUME TrackInv, AddJob, UNCHANGED playVars
  PROVE  TrackInv'
PROOF
  <1>0. /\ named' = named /\ heard' = heard /\ line' = line /\ taken' = taken
        /\ play' = play /\ written' = written /\ reader' = "loop" /\ reader = "add"
    BY DEF AddJob, playVars, sourceVars, GoTo
  <1>1. ~Holding' /\ MakesHeld'
    BY <1>0 DEF Holding, MakesHeld
  <1>2. CASE closed
    <2>1. jobs' = jobs
      BY <1>2 DEF AddJob
    <2> QED
      BY <1>0, <1>1, <2>1, ReaderStep DEF AddJob
  <1>3. CASE ~closed
    <2>1. /\ Listed(heard) /\ heard # <<>> /\ line = LastOf(heard) /\ Makes(line)
          /\ \A i \in DOMAIN jobs : jobs[i].command < Len(heard)
          /\ \A i \in DOMAIN taken : taken[i].job.command < Len(heard)
          /\ \A i \in DOMAIN written : written[i].command < Len(heard)
      BY <1>0 DEF TrackInv, ListsOK, NewestHeld, MakesHeld, Holding
    <2>2. PICK job : CreateJob(line) = <<job>> /\ JobMade(job) /\ job.command = Len(heard)
      BY <2>1, JobCreated
    <2>3. jobs' = jobs \o <<job>>
      BY <1>3, <2>2 DEF AddJob
    <2>l. Listed(<<job>>) /\ Len(<<job>>) = 1 /\ <<job>>[1] = job
      <3>1. <<job>> \in Seq({job})
        OBVIOUS
      <3> QED
        BY <3>1, SeqIsListed
    <2>4. /\ Listed(jobs') /\ DOMAIN jobs' = 1 .. Len(jobs) + 1
          /\ Len(jobs) \in Nat /\ DOMAIN jobs = 1 .. Len(jobs)
          /\ \A i \in 1 .. Len(jobs) : jobs'[i] = jobs[i]
          /\ jobs'[Len(jobs) + 1] = job
      <3>1. Listed(jobs)
        BY DEF TrackInv, ListsOK
      <3>2. Len(jobs) \in Nat /\ DOMAIN jobs = 1 .. Len(jobs)
        BY <3>1, ListPlaces
      <3>3. /\ Listed(jobs') /\ DOMAIN jobs' = 1 .. Len(jobs) + 1
            /\ \A i \in 1 .. Len(jobs) : jobs'[i] = jobs[i]
        BY <2>3, <2>l, <3>1, ListConcat
      <3>4. \A i \in 1 .. Len(<<job>>) : jobs'[Len(jobs) + i] = <<job>>[i]
        BY <2>3, <2>l, <3>1, ListConcat
      <3> QED
        BY <3>2, <3>3, <3>4, <2>l
    <2>5. \A i \in DOMAIN jobs' :
            \/ i \in DOMAIN jobs /\ jobs'[i] = jobs[i] /\ i <= Len(jobs)
            \/ i = Len(jobs) + 1 /\ jobs'[i] = job
      BY <2>4
    <2>6. \A other : JobMade(other) => JobMade(other)'
      BY <1>0, <2>1, HeardStays
    <2>7. ListsOK'
      BY <1>0, <2>4 DEF TrackInv, ListsOK, PlayType, Steps
    <2>8. JobsMade'
      <3>1. \A i \in DOMAIN jobs' : JobMade(jobs'[i])
        BY <2>2, <2>5 DEF TrackInv, JobsMade
      <3>2. \A i \in DOMAIN jobs' : JobMade(jobs[i])'
        BY <3>1, <2>6
      <3> QED
        BY <1>0, <2>6, <3>2 DEF TrackInv, JobsMade
    <2>9. InOrder'
      <3>1. \A i, j \in DOMAIN jobs' : i < j => jobs'[i].command < jobs'[j].command
        <4> SUFFICES ASSUME NEW i \in DOMAIN jobs', NEW j \in DOMAIN jobs', i < j
                     PROVE  jobs'[i].command < jobs'[j].command
          OBVIOUS
        <4>1. i \in DOMAIN jobs /\ jobs'[i] = jobs[i]
          BY <2>4, <2>5
        <4>2. CASE j \in DOMAIN jobs /\ jobs'[j] = jobs[j]
          BY <4>1, <4>2 DEF TrackInv, InOrder
        <4>3. CASE jobs'[j] = job
          BY <4>1, <4>3, <2>1, <2>2
        <4> QED
          BY <4>2, <4>3, <2>5
      <3>2. \A i \in DOMAIN taken, j \in DOMAIN jobs' :
              taken[i].job.command < jobs'[j].command
        BY <2>1, <2>2, <2>5 DEF TrackInv, InOrder
      <3>3. \A i \in DOMAIN written, j \in DOMAIN jobs' :
              written[i].command < jobs'[j].command
        BY <2>1, <2>2, <2>5 DEF TrackInv, InOrder
      <3> QED
        BY <1>0, <3>1, <3>2, <3>3 DEF TrackInv, InOrder
    <2>10. Playing' /\ BlocksPlayed'
      BY <1>0 DEF TrackInv, Playing, BlocksPlayed, Current, LastOf
    <2>11. PacketsPlayed'
      BY <1>0 DEF TrackInv, PacketsPlayed, Current, LastOf, Packets, Held
    <2>12. WrittenApart'
      <3>1. \A n \in 1 .. Len(heard) : /\ IsTrack(heard[n])' <=> IsTrack(heard[n])
                                       /\ Frames(heard[n])' = Frames(heard[n])
        BY <1>0, <2>1, HeardStays
      <3> QED
        BY <1>0, <3>1 DEF TrackInv, WrittenApart
    <2> QED
      BY <1>1, <2>7, <2>8, <2>9, <2>10, <2>11, <2>12 DEF TrackInv, NewestHeld
  <1> QED
    BY <1>2, <1>3

\* Every step of the threads that do not play anything.
LEMMA ShellSteps ==
  ASSUME TrackInv, UNCHANGED playVars,
         Exit \/ Start \/ ReadCommands \/ Receive \/ ReceiveNothing \/ Signal \/ Main
  PROVE  TrackInv'
PROOF
  <1>1. CASE Exit \/ Signal \/ Main
    <2>1. UNCHANGED <<named, heard, jobs, reader, line>>
      BY <1>1 DEF Exit, Signal, Main, HandleSignal, CloseJobs, MainEnds, End, sourceVars,
                  queueVars
    <2>2. (Holding' => Holding /\ line' = line)
      BY <2>1 DEF Holding
    <2>3. MakesHeld'
      BY <2>1 DEF TrackInv, MakesHeld, Makes, Decoders, config, CreateJob
    <2> QED
      BY <2>1, <2>2, <2>3, ReaderStep DEF playVars
  <1>2. CASE Start \/ Loop \/ NoMoreLines \/ FileEnds \/ FileFails \/ Stop \/ Forget
    <2>1. UNCHANGED <<named, heard, jobs>> /\ reader' \in {"loop", "next", "line", "done"}
      BY <1>2 DEF Start, Loop, NoMoreLines, FileEnds, FileFails, Stop, Forget, GiveUp, GoTo,
                  sourceVars, queueVars
    <2>2. ~Holding' /\ MakesHeld'
      BY <2>1 DEF Holding, MakesHeld
    <2> QED
      BY <2>1, <2>2, ReaderStep DEF playVars
  <1>3. CASE Got
    <2>1. /\ UNCHANGED <<named, heard, jobs, line>> /\ reader = "got"
          /\ reader' \in {"done", "command", "next"}
      BY <1>3 DEF Got, GoTo, sourceVars, queueVars
    <2>2. (Holding' => Holding /\ line' = line) /\ MakesHeld'
      BY <2>1 DEF Holding, MakesHeld
    <2> QED
      BY <2>1, <2>2, ReaderStep DEF playVars
  <1>4. CASE Abort
    <2>1. UNCHANGED <<named, heard, jobs, line>> /\ reader = "command" /\ reader' = "command"
      BY <1>4 DEF Abort, Calls, sourceVars, queueVars
    <2>2. (Holding' => Holding /\ line' = line) /\ MakesHeld'
      BY <2>1 DEF Holding, MakesHeld
    <2> QED
      BY <2>1, <2>2, ReaderStep DEF playVars
  <1>5. CASE Create
    <2>1. /\ UNCHANGED <<named, heard, jobs, line>> /\ reader = "command" /\ reader' = "add"
          /\ Makes(line)
      BY <1>5 DEF Create, Calls, GoTo, sourceVars, queueVars
    <2>2. (Holding' => Holding /\ line' = line)
      BY <2>1 DEF Holding
    <2>3. MakesHeld'
      BY <2>1 DEF MakesHeld, Makes, Decoders, config, CreateJob
    <2> QED
      BY <2>1, <2>2, <2>3, ReaderStep DEF playVars
  <1>6. CASE ReadLine \/ Receive \/ ReceiveNothing
    <2>1. reader = "line" /\ UNCHANGED <<named, jobs>> /\ \E v : Answer(v)
      BY <1>6 DEF ReadLine, Receive, ReceiveNothing, Asks, queueVars
    <2> QED
      BY <2>1, AnswerStep
  <1>7. CASE AddJob
    BY <1>7, AddJobStep
  <1> QED
    BY <1>1, <1>2, <1>3, <1>4, <1>5, <1>6, <1>7 DEF ReadCommands

-----------------------------------------------------------------------------
(* The workers.                                                            *)

\* What the invariant says of the job that is played.
LEMMA CurrentJob ==
  ASSUME TrackInv, taken # <<>>
  PROVE  /\ Current = taken[1] /\ 1 \in DOMAIN taken
         /\ Len(taken) \in Nat \ {0} /\ DOMAIN taken = 1 .. Len(taken)
         /\ JobMade(Current.job)
         /\ Current.job.command \in 1 .. Len(heard) /\ Current.job.blocks \in Nat
         /\ Current.opened =>
              /\ IsTrack(heard[Current.job.command])
              /\ Current.job.blocks > 0 =>
                   Frames(heard[Current.job.command]) = 1 .. Current.job.blocks
              /\ Current.job.blocks = 0 =>
                   /\ Packets \in Seq(BOOLEAN)
                   /\ Frames(heard[Current.job.command])
                        = {i \in DOMAIN Packets : Packets[i]}
PROOF
  <1>1. Listed(taken)
    BY DEF TrackInv, ListsOK
  <1>2. Current = taken[1] /\ Len(taken) \in Nat \ {0} /\ DOMAIN taken = 1 .. Len(taken)
    BY <1>1, ListTail, ListPlaces DEF Current
  <1>3. 1 \in DOMAIN taken
    BY <1>2
  <1>4. JobMade(Current.job) /\ (Current.opened => Current.job.blocks > 0
                                                    \/ Current.job.path \in DOMAIN Media)
    BY <1>2, <1>3 DEF TrackInv, JobsMade
  <1>5. Current.job.path \in DOMAIN Media => Packets \in Seq(BOOLEAN)
    BY MediaAssumption DEF Packets
  <1>6. Current.job.command \in 1 .. Len(heard) /\ Current.job.blocks \in Nat
    BY <1>4 DEF JobMade
  <1>7. ASSUME Current.opened
        PROVE  /\ IsTrack(heard[Current.job.command])
               /\ Current.job.blocks > 0 =>
                    Frames(heard[Current.job.command]) = 1 .. Current.job.blocks
    BY <1>4, <1>7 DEF JobMade
  <1>8. ASSUME Current.opened, Current.job.blocks = 0
        PROVE  /\ Packets \in Seq(BOOLEAN)
               /\ Frames(heard[Current.job.command])
                    = {i \in DOMAIN Packets : Packets[i]}
    <2>1. Current.job.path \in DOMAIN Media
      BY <1>4, <1>8
    <2>2. Frames(heard[Current.job.command])
            = {i \in DOMAIN Media[Current.job.path].packets :
                 Media[Current.job.path].packets[i]}
      BY <1>4, <1>8, <2>1 DEF JobMade
    <2> QED
      BY <1>5, <2>1, <2>2 DEF Packets
  <1> QED
    BY <1>2, <1>3, <1>4, <1>6, <1>7, <1>8

\* A worker takes the next job, whose command is later than those of the jobs
\* that were taken before it.
LEMMA TakeJobStep ==
  ASSUME TrackInv, TakeJob
  PROVE  TrackInv'
PROOF
  <1>0. /\ named' = named /\ heard' = heard /\ line' = line /\ reader' = reader
        /\ play' = play /\ written' = written /\ jobs # <<>> /\ jobs' = Tail(jobs)
    BY DEF TakeJob
  <1>1. PICK opens \in BOOLEAN : taken' = Append(taken, Open(Head(jobs), opens))
    BY DEF TakeJob
  <1> DEFINE new == Open(Head(jobs), opens)
  <1>2. Listed(heard) /\ Listed(jobs) /\ Listed(taken)
    BY DEF TrackInv, ListsOK
  <1>3. /\ new.job = Head(jobs)
        /\ new.opened => new.job.blocks > 0 \/ new.job.path \in DOMAIN Media
    BY JobOpened
  <1> HIDE DEF new
  <1>4. /\ Listed(jobs') /\ Len(jobs) \in Nat \ {0} /\ DOMAIN jobs = 1 .. Len(jobs)
        /\ DOMAIN jobs' = 1 .. Len(jobs) - 1
        /\ \A i \in 1 .. Len(jobs) - 1 : jobs'[i] = jobs[i + 1]
        /\ Head(jobs) = jobs[1]
    BY <1>0, <1>2, ListTail, ListPlaces
  <1>5. /\ Listed(taken') /\ Len(taken) \in Nat /\ DOMAIN taken = 1 .. Len(taken)
        /\ taken' # <<>> /\ DOMAIN taken' = 1 .. Len(taken) + 1
        /\ \A i \in 1 .. Len(taken) : taken'[i] = taken[i]
        /\ taken'[Len(taken) + 1] = new
    BY <1>1, <1>2, ListAppend, ListPlaces DEF new
  <1>6. \A i \in DOMAIN jobs' :
          i + 1 \in DOMAIN jobs /\ jobs'[i] = jobs[i + 1] /\ 1 < i + 1
    BY <1>4
  <1>7. \A i \in DOMAIN taken' :
          \/ i \in DOMAIN taken /\ taken'[i] = taken[i] /\ i <= Len(taken)
          \/ i = Len(taken) + 1 /\ taken'[i] = new
    BY <1>5
  <1>8. 1 \in DOMAIN jobs /\ new.job = jobs[1] /\ JobMade(jobs[1])
    BY <1>3, <1>4 DEF TrackInv, JobsMade
  <1>s. /\ \A job : JobMade(job) => JobMade(job)'
        /\ \A n \in 1 .. Len(heard) : /\ IsTrack(heard[n])' <=> IsTrack(heard[n])
                                      /\ Frames(heard[n])' = Frames(heard[n])
    BY <1>0, <1>2, HeardStays
  <1>9. ListsOK'
    BY <1>0, <1>2, <1>4, <1>5 DEF TrackInv, ListsOK, PlayType, Steps
  <1>10. JobsMade'
    <2>1. \A i \in DOMAIN jobs' : JobMade(jobs'[i])
      BY <1>6 DEF TrackInv, JobsMade
    <2>2. \A i \in DOMAIN taken' :
            /\ JobMade(taken'[i].job)
            /\ taken'[i].opened =>
                 taken'[i].job.blocks > 0 \/ taken'[i].job.path \in DOMAIN Media
      BY <1>3, <1>7, <1>8 DEF TrackInv, JobsMade
    <2>3. \A i \in DOMAIN jobs' : JobMade(jobs[i])'
      BY <2>1, <1>s
    <2>4. \A i \in DOMAIN taken' : JobMade(taken[i].job)'
      BY <2>2, <1>s
    <2> QED
      BY <2>2, <2>3, <2>4 DEF JobsMade
  <1>11. NewestHeld' /\ MakesHeld'
    <2>1. MakesHeld'
      BY <1>0 DEF TrackInv, MakesHeld, Makes, Decoders, config, CreateJob
    <2>2. Holding' => Holding
      BY <1>0 DEF Holding
    <2>3. Holding => \A i \in DOMAIN jobs' : jobs'[i].command < Len(heard)
      BY <1>6 DEF TrackInv, NewestHeld
    <2>4. Holding => \A i \in DOMAIN taken' : taken'[i].job.command < Len(heard)
      BY <1>7, <1>8 DEF TrackInv, NewestHeld
    <2> QED
      BY <1>0, <2>1, <2>2, <2>3, <2>4 DEF TrackInv, NewestHeld, LastOf
  <1>12. InOrder'
    <2>1. \A i, j \in DOMAIN jobs' : i < j => jobs'[i].command < jobs'[j].command
      <3> SUFFICES ASSUME NEW i \in DOMAIN jobs', NEW j \in DOMAIN jobs', i < j
                   PROVE  jobs'[i].command < jobs'[j].command
        OBVIOUS
      <3>1. i + 1 < j + 1
        BY <1>4
      <3> QED
        BY <3>1, <1>6 DEF TrackInv, InOrder
    <2>2. \A i, j \in DOMAIN taken' : i < j => taken'[i].job.command < taken'[j].job.command
      <3> SUFFICES ASSUME NEW i \in DOMAIN taken', NEW j \in DOMAIN taken', i < j
                   PROVE  taken'[i].job.command < taken'[j].job.command
        OBVIOUS
      <3>1. i \in DOMAIN taken /\ taken'[i] = taken[i]
        BY <1>5, <1>7
      <3>2. CASE j \in DOMAIN taken /\ taken'[j] = taken[j]
        BY <3>1, <3>2 DEF TrackInv, InOrder
      <3>3. CASE taken'[j] = new
        BY <3>1, <3>3, <1>8 DEF TrackInv, InOrder
      <3> QED
        BY <3>2, <3>3, <1>7
    <2>3. \A i \in DOMAIN taken', j \in DOMAIN jobs' :
            taken'[i].job.command < jobs'[j].command
      <3> SUFFICES ASSUME NEW i \in DOMAIN taken', NEW j \in DOMAIN jobs'
                   PROVE  taken'[i].job.command < jobs'[j].command
        OBVIOUS
      <3>1. CASE i \in DOMAIN taken /\ taken'[i] = taken[i]
        BY <3>1, <1>6 DEF TrackInv, InOrder
      <3>2. CASE taken'[i] = new
        BY <3>2, <1>6, <1>8 DEF TrackInv, InOrder
      <3> QED
        BY <3>1, <3>2, <1>7
    <2>4. \A i \in DOMAIN written, j \in DOMAIN jobs' :
            written[i].command < jobs'[j].command
      BY <1>6 DEF TrackInv, InOrder
    <2>5. \A i \in DOMAIN written, j \in DOMAIN taken' :
            \/ written[i].command < taken'[j].job.command
            \/ j = 1 /\ play.step # "idle" /\ written[i].command = taken'[j].job.command
      <3> SUFFICES ASSUME NEW i \in DOMAIN written, NEW j \in DOMAIN taken'
                   PROVE  \/ written[i].command < taken'[j].job.command
                          \/ /\ j = 1 /\ play.step # "idle"
                             /\ written[i].command = taken'[j].job.command
        OBVIOUS
      <3>1. CASE j \in DOMAIN taken /\ taken'[j] = taken[j]
        BY <3>1 DEF TrackInv, InOrder
      <3>2. CASE taken'[j] = new
        BY <3>2, <1>8 DEF TrackInv, InOrder
      <3> QED
        BY <3>1, <3>2, <1>7
    <2> QED
      BY <1>0, <2>1, <2>2, <2>3, <2>4, <2>5 DEF InOrder
  <1>13. play.step # "idle" => taken # <<>> /\ Current' = Current
    <2>1. play.step # "idle" => taken # <<>>
      BY DEF TrackInv, Playing
    <2>2. taken # <<>> => Current = taken[1] /\ 1 \in 1 .. Len(taken)
      BY <1>2, <1>5, ListTail, ListPlaces DEF Current
    <2>3. Current' = taken'[1]
      BY <1>5, ListTail DEF Current
    <2> QED
      BY <2>1, <2>2, <2>3, <1>5
  <1>14. Playing' /\ BlocksPlayed'
    BY <1>0, <1>5, <1>13 DEF TrackInv, Playing, BlocksPlayed, LastOf
  <1>15. PacketsPlayed'
    BY <1>0, <1>13 DEF TrackInv, PacketsPlayed, LastOf, Packets, Held
  <1>16. WrittenApart'
    BY <1>0, <1>s DEF TrackInv, WrittenApart
  <1> QED
    BY <1>9, <1>10, <1>11, <1>12, <1>14, <1>15, <1>16 DEF TrackInv

\* A worker is done with the first of the jobs that were taken.
LEMMA EndJobStep ==
  ASSUME TrackInv, taken # <<>>, EndJob
  PROVE  TrackInv'
PROOF
  <1>0. /\ named' = named /\ heard' = heard /\ line' = line /\ reader' = reader
        /\ jobs' = jobs /\ written' = written /\ taken' = Tail(taken) /\ play' = NoPlay
    BY DEF EndJob, Only, queueVars
  <1>1. Listed(heard) /\ Listed(taken)
    BY DEF TrackInv, ListsOK
  <1>2. /\ Listed(taken') /\ Len(taken) \in Nat \ {0} /\ DOMAIN taken = 1 .. Len(taken)
        /\ DOMAIN taken' = 1 .. Len(taken) - 1
        /\ \A i \in 1 .. Len(taken) - 1 : taken'[i] = taken[i + 1]
    BY <1>0, <1>1, ListTail, ListPlaces
  <1>3. \A i \in DOMAIN taken' :
          i + 1 \in DOMAIN taken /\ taken'[i] = taken[i + 1] /\ i + 1 # 1 /\ i \in Int
    BY <1>2
  <1>s. /\ \A job : JobMade(job) => JobMade(job)'
        /\ \A n \in 1 .. Len(heard) : /\ IsTrack(heard[n])' <=> IsTrack(heard[n])
                                      /\ Frames(heard[n])' = Frames(heard[n])
    BY <1>0, <1>1, HeardStays
  <1>4. play' \in PlayType /\ play'.step = "idle"
    BY <1>0 DEF NoPlay, PlayType, Steps
  <1>5. ListsOK'
    BY <1>0, <1>1, <1>2, <1>4 DEF TrackInv, ListsOK, PlayType
  <1>6. JobsMade'
    <2>1. \A i \in DOMAIN taken' :
            /\ JobMade(taken'[i].job)
            /\ taken'[i].opened =>
                 taken'[i].job.blocks > 0 \/ taken'[i].job.path \in DOMAIN Media
      BY <1>3 DEF TrackInv, JobsMade
    <2>2. \A i \in DOMAIN taken' : JobMade(taken[i].job)'
      BY <2>1, <1>s
    <2> QED
      BY <1>0, <1>s, <2>1, <2>2 DEF TrackInv, JobsMade
  <1>7. NewestHeld' /\ MakesHeld'
    <2>1. MakesHeld'
      BY <1>0 DEF TrackInv, MakesHeld, Makes, Decoders, config, CreateJob
    <2>2. Holding' => Holding
      BY <1>0 DEF Holding
    <2>3. Holding => \A i \in DOMAIN taken' : taken'[i].job.command < Len(heard)
      BY <1>3 DEF TrackInv, NewestHeld
    <2> QED
      BY <1>0, <2>1, <2>2, <2>3 DEF TrackInv, NewestHeld, LastOf
  <1>8. InOrder'
    <2>1. \A i, j \in DOMAIN taken' : i < j => taken'[i].job.command < taken'[j].job.command
      <3> SUFFICES ASSUME NEW i \in DOMAIN taken', NEW j \in DOMAIN taken', i < j
                   PROVE  taken'[i].job.command < taken'[j].job.command
        OBVIOUS
      <3>1. i + 1 < j + 1
        BY <1>3
      <3> QED
        BY <3>1, <1>3 DEF TrackInv, InOrder
    <2>2. \A i \in DOMAIN taken', j \in DOMAIN jobs :
            taken'[i].job.command < jobs[j].command
      BY <1>3 DEF TrackInv, InOrder
    <2>3. \A i \in DOMAIN written, j \in DOMAIN taken' :
            written[i].command < taken'[j].job.command
      BY <1>3 DEF TrackInv, InOrder
    <2> QED
      BY <1>0, <2>1, <2>2, <2>3 DEF TrackInv, InOrder
  <1>9. Playing' /\ BlocksPlayed' /\ PacketsPlayed'
    BY <1>4 DEF Playing, BlocksPlayed, PacketsPlayed
  <1>10. WrittenApart'
    BY <1>0, <1>s DEF TrackInv, WrittenApart
  <1> QED
    BY <1>5, <1>6, <1>7, <1>8, <1>9, <1>10 DEF TrackInv

-----------------------------------------------------------------------------
(* Playing.                                                                *)

\* A step of run() that passes on frames of the job, later ones than before,
\* or nothing.
LEMMA PlayStep ==
  ASSUME TrackInv, Only, taken' = taken, play.step # "idle",
         play' \in PlayType, play'.step # "idle",
         play'.step = "blocks" => play.step = "blocks",
         Listed(written'), Len(written) <= Len(written'),
         \A i \in 1 .. Len(written) : written'[i] = written[i],
         \A i \in 1 .. Len(written') : i > Len(written) =>
           /\ written'[i].command = Current.job.command
           /\ written'[i].frame \in Frames(heard[Current.job.command]) \ {0}
           /\ i > 1 /\ written'[i - 1].command = Current.job.command
           /\ written'[i - 1].frame < written'[i].frame,
         BlocksPlayed', PacketsPlayed'
  PROVE  TrackInv'
PROOF
  <1>0. /\ named' = named /\ heard' = heard /\ line' = line /\ reader' = reader
        /\ jobs' = jobs
    BY DEF Only, queueVars
  <1>1. Listed(heard) /\ Listed(taken) /\ Listed(written)
    BY DEF TrackInv, ListsOK
  <1>2. /\ taken # <<>> /\ Current.opened /\ written # <<>>
        /\ LastOf(written).command = Current.job.command
        /\ play.step = "blocks" => Current.job.blocks > 0
    BY DEF TrackInv, Playing
  <1>3. /\ Current = taken[1] /\ 1 \in DOMAIN taken /\ DOMAIN taken = 1 .. Len(taken)
        /\ Current.job.command \in 1 .. Len(heard) /\ IsTrack(heard[Current.job.command])
    BY <1>2, CurrentJob
  <1>4. /\ Len(written) \in Nat \ {0} /\ DOMAIN written = 1 .. Len(written)
        /\ Len(written') \in Nat /\ DOMAIN written' = 1 .. Len(written')
        /\ written' # <<>>
    <2>1. Len(written) \in Nat \ {0} /\ DOMAIN written = 1 .. Len(written)
      BY <1>1, <1>2, ListPlaces
    <2>2. /\ Len(written') \in Nat /\ DOMAIN written' = 1 .. Len(written')
          /\ written' # <<>> <=> Len(written') > 0
      BY ListPlaces
    <2> QED
      BY <2>1, <2>2
  <1>5. \A i \in DOMAIN written' :
          \/ i \in DOMAIN written /\ written'[i] = written[i] /\ i <= Len(written)
          \/ i > Len(written) /\ written'[i].command = Current.job.command
    BY <1>4
  <1>s. /\ \A job : JobMade(job) => JobMade(job)'
        /\ \A n \in 1 .. Len(heard) : /\ IsTrack(heard[n])' <=> IsTrack(heard[n])
                                      /\ Frames(heard[n])' = Frames(heard[n])
    BY <1>0, <1>1, HeardStays
  <1>6. ListsOK'
    BY <1>0, <1>1 DEF TrackInv, ListsOK, PlayType, Steps
  <1>7. JobsMade'
    BY <1>0, <1>s DEF TrackInv, JobsMade
  <1>8. NewestHeld' /\ MakesHeld'
    <2>1. MakesHeld'
      BY <1>0 DEF TrackInv, MakesHeld, Makes, Decoders, config, CreateJob
    <2>2. Holding' => Holding
      BY <1>0 DEF Holding
    <2>3. Holding => \A i \in DOMAIN written' : written'[i].command < Len(heard)
      BY <1>3, <1>5 DEF TrackInv, NewestHeld
    <2> QED
      BY <1>0, <2>1, <2>2, <2>3 DEF TrackInv, NewestHeld, LastOf
  <1>9. InOrder'
    <2>1. \A i \in DOMAIN written', j \in DOMAIN jobs :
            written'[i].command < jobs[j].command
      BY <1>3, <1>5 DEF TrackInv, InOrder
    <2>2. \A i \in DOMAIN written', j \in DOMAIN taken :
            \/ written'[i].command < taken[j].job.command
            \/ j = 1 /\ written'[i].command = taken[j].job.command
      <3> SUFFICES ASSUME NEW i \in DOMAIN written', NEW j \in DOMAIN taken
                   PROVE  \/ written'[i].command < taken[j].job.command
                          \/ j = 1 /\ written'[i].command = taken[j].job.command
        OBVIOUS
      <3>1. CASE i \in DOMAIN written /\ written'[i] = written[i]
        BY <3>1 DEF TrackInv, InOrder
      <3>2. CASE written'[i].command = Current.job.command
        <4>1. CASE j = 1
          BY <3>2, <4>1, <1>3
        <4>2. CASE j # 1
          <5>1. 1 < j
            BY <4>2, <1>3
          <5> QED
            BY <3>2, <5>1, <1>3 DEF TrackInv, InOrder
        <4> QED
          BY <4>1, <4>2
      <3> QED
        BY <3>1, <3>2, <1>5
    <2> QED
      BY <1>0, <2>1, <2>2 DEF TrackInv, InOrder
  <1>10. Current' = Current
    BY DEF Current
  <1>11. Playing'
    <2>1. LastOf(written').command = Current.job.command
      <3>1. CASE Len(written') = Len(written)
        BY <3>1, <1>2, <1>4 DEF LastOf
      <3>2. CASE Len(written) < Len(written')
        BY <3>2, <1>4 DEF LastOf
      <3>3. Len(written') = Len(written) \/ Len(written) < Len(written')
        <4>1. PICK m \in Nat : m = Len(written')
          BY <1>4
        <4>2. PICK n \in Nat : n = Len(written)
          BY <1>4
        <4>3. n <= m
          BY <4>1, <4>2
        <4>4. m = n \/ n < m
          BY <4>3
        <4> QED
          BY <4>1, <4>2, <4>4
      <3> QED
        BY <3>1, <3>2, <3>3
    <2> QED
      BY <1>2, <1>4, <1>10, <2>1 DEF Playing, LastOf
  <1>12. WrittenApart'
    <2> SUFFICES ASSUME NEW i \in DOMAIN written'
                 PROVE  LET number == written'[i].command
                            frame  == written'[i].frame
                        IN  /\ number \in 1 .. Len(heard)
                            /\ IsTrack(heard[number])
                            /\ frame \in Frames(heard[number]) \cup {0}
                            /\ IF frame = 0 THEN i > 1 => written'[i - 1].command < number
                               ELSE /\ i > 1 /\ written'[i - 1].command = number
                                    /\ written'[i - 1].frame < frame
      <3>1. \A i \in DOMAIN written' :
              LET number == written'[i].command
              IN  /\ number \in 1 .. Len(heard)
                  /\ IsTrack(heard[number])
                  /\ written'[i].frame \in Frames(heard[number]) \cup {0}
        OBVIOUS
      <3>2. \A i \in DOMAIN written' :
              /\ IsTrack(heard[written[i].command])'
              /\ (written[i].frame \in Frames(heard[written[i].command]) \cup {0})'
        BY <3>1, <1>s
      <3> QED
        BY <1>0, <3>1, <3>2 DEF WrittenApart
    <2>1. CASE i > Len(written)
      BY <2>1, <1>3, <1>4
    <2>2. CASE i <= Len(written)
      <3>1. /\ i \in DOMAIN written /\ written'[i] = written[i]
            /\ i > 1 => written'[i - 1] = written[i - 1]
        BY <2>2, <1>4
      <3> QED
        BY <3>1 DEF TrackInv, WrittenApart
    <2> QED
      BY <2>1, <2>2, <1>4
  <1> QED
    BY <1>6, <1>7, <1>8, <1>9, <1>11, <1>12 DEF TrackInv

\* Frames are appended to what was passed on.
LEMMA PcmWritten ==
  ASSUME Listed(written), written # <<>>, LastOf(written).command = Current.job.command,
         NEW frames \in Seq(Nat), Increasing(frames),
         \A i \in 1 .. Len(frames) :
           /\ LastOf(written).frame < frames[i]
           /\ frames[i] \in Frames(heard[Current.job.command]) \ {0},
         Pcm(frames)
  PROVE  /\ Listed(written') /\ Len(written) <= Len(written')
         /\ \A i \in 1 .. Len(written) : written'[i] = written[i]
         /\ \A i \in 1 .. Len(written') : i > Len(written) =>
              /\ written'[i].command = Current.job.command
              /\ written'[i].frame \in Frames(heard[Current.job.command]) \ {0}
              /\ i > 1 /\ written'[i - 1].command = Current.job.command
              /\ written'[i - 1].frame < written'[i].frame
         /\ LastOf(written').frame = IF frames = <<>> THEN LastOf(written).frame
                                     ELSE LastOf(frames)
PROOF
  <1> DEFINE Passing(i) ==
        [command |-> Current.job.command, metadata |-> <<>>, frame |-> frames[i]]
      new == [i \in DOMAIN frames |-> Passing(i)]
      n   == Len(written)
      m   == Len(frames)
  <1>1. m \in Nat /\ DOMAIN frames = 1 .. m /\ (frames = <<>> <=> m = 0)
    OBVIOUS
  <1>2. new \in Seq({Passing(i) : i \in DOMAIN frames}) /\ Len(new) = m
    BY <1>1
  <1>3. Listed(new) /\ \A i \in 1 .. m : new[i] = Passing(i)
    BY <1>1, <1>2, SeqIsListed
  <1>4. n \in Nat \ {0}
    BY ListPlaces
  <1>5. written' = written \o new
    BY DEF Pcm
  <1> HIDE DEF new, Passing, m
  <1>6. /\ Listed(written') /\ Len(written') = n + m
        /\ \A i \in 1 .. n : written'[i] = written[i]
        /\ \A i \in 1 .. m : written'[n + i] = new[i]
    <2>1. Listed(new) /\ Len(new) = m
      BY <1>2, <1>3
    <2>2. /\ Listed(written \o new) /\ Len(written \o new) = Len(written) + Len(new)
          /\ \A i \in 1 .. Len(written) : (written \o new)[i] = written[i]
          /\ \A i \in 1 .. Len(new) : (written \o new)[Len(written) + i] = new[i]
      BY <2>1, ListConcat
    <2> QED
      BY <2>1, <2>2, <1>5
  <1>7. \A i \in 1 .. m : /\ written'[n + i].command = Current.job.command
                          /\ written'[n + i].frame = frames[i]
    <2>1. \A i \in 1 .. m : written'[n + i] = Passing(i)
      BY <1>3, <1>6
    <2>2. \A i \in 1 .. m : /\ Passing(i).command = Current.job.command
                            /\ Passing(i).frame = frames[i]
      BY DEF Passing
    <2> QED
      BY <2>1, <2>2
  <1> USE DEF m
  <1>8. written'[n] = LastOf(written)
    BY <1>4, <1>6 DEF LastOf
  <1>9. ASSUME NEW i \in 1 .. m
        PROVE  LET k == n + i
               IN  /\ written'[k].command = Current.job.command
                   /\ written'[k].frame \in Frames(heard[Current.job.command]) \ {0}
                   /\ k > 1 /\ written'[k - 1].command = Current.job.command
                   /\ written'[k - 1].frame < written'[k].frame
    <2>1. n + i > 1
      BY <1>1, <1>4
    <2>2. CASE i = 1
      <3>1. (n + i) - 1 = n
        BY <2>2, <1>4
      <3> QED
        BY <2>1, <2>2, <3>1, <1>7, <1>8
    <2>3. CASE i # 1
      <3>1. i - 1 \in 1 .. m /\ (n + i) - 1 = n + (i - 1)
        BY <2>3, <1>1, <1>4
      <3>2. frames[i - 1] < frames[i]
        BY <3>1, <1>1 DEF Increasing
      <3> QED
        BY <2>1, <3>1, <3>2, <1>7
    <2> QED
      BY <2>2, <2>3
  <1>10. ASSUME NEW k \in 1 .. n + m, k > n
         PROVE  \E i \in 1 .. m : k = n + i
    <2>1. k - n \in 1 .. m /\ k = n + (k - n)
      BY <1>1, <1>4, <1>10
    <2> QED
      BY <2>1
  <1>11. LastOf(written').frame = IF frames = <<>> THEN LastOf(written).frame
                                  ELSE LastOf(frames)
    <2>1. CASE m = 0
      <3>1. Len(written') = n
        BY <2>1, <1>4, <1>6
      <3> QED
        BY <2>1, <3>1, <1>1, <1>8 DEF LastOf
    <2>2. CASE m # 0
      <3>1. m \in 1 .. m
        BY <2>2, <1>1
      <3> QED
        BY <2>2, <3>1, <1>1, <1>6, <1>7 DEF LastOf
    <2> QED
      BY <2>1, <2>2
  <1>12. n <= n + m
    BY <1>1, <1>4
  <1> QED
    BY <1>6, <1>9, <1>10, <1>11, <1>12

\* run() of a file goes on without passing on anything, and keeps or loses what
\* it holds.
LEMMA SilentStep ==
  ASSUME TrackInv, Only, taken' = taken, written' = written,
         play.step \notin {"idle", "blocks"}, play' \in PlayType,
         play'.step \notin {"idle", "blocks"}, PacketsPlayed'
  PROVE  TrackInv'
PROOF
  <1>1. Listed(written)
    BY DEF TrackInv, ListsOK
  <1>2. Len(written) \in Nat
    BY <1>1, ListPlaces
  <1>3. Listed(written') /\ Len(written) <= Len(written')
    BY <1>1, <1>2
  <1>4. \A i \in 1 .. Len(written') : ~(i > Len(written))
    BY <1>2
  <1>5. BlocksPlayed'
    BY DEF BlocksPlayed
  <1> QED
    BY <1>3, <1>4, <1>5, PlayStep

\* The packets that are held stay in order if none is added.
LEMMA HeldStep ==
  ASSUME TrackInv, Only, taken' = taken, written' = written,
         play.step \notin {"idle", "blocks"}, play' \in PlayType,
         play'.step \notin {"idle", "blocks"},
         play'.left = play.left,
         Increasing(play'.codec), Increasing(play'.graph),
         Range(play'.codec) \cup Range(play'.graph) \subseteq Held,
         \A g \in Range(play'.graph), c \in Range(play'.codec) : g < c
  PROVE  TrackInv'
PROOF
  <1>1. Current' = Current
    BY DEF Current
  <1>2. Packets' = Packets
    BY <1>1 DEF Packets
  <1>3. Held' \subseteq Held
    BY DEF Held
  <1>4. PacketsPlayed'
    BY <1>1, <1>2, <1>3 DEF TrackInv, PacketsPlayed, LastOf
  <1> QED
    BY <1>4, SilentStep

\* run() moves on with all that it holds.
LEMMA MoveStep ==
  ASSUME TrackInv, Only, taken' = taken, written' = written,
         play.step \notin {"idle", "blocks"}, play' \in PlayType,
         play'.step \notin {"idle", "blocks"},
         play'.left = play.left, play'.codec = play.codec, play'.graph = play.graph
  PROVE  TrackInv'
PROOF
  <1>1. /\ Increasing(play.codec) /\ Increasing(play.graph)
        /\ \A g \in Range(play.graph), c \in Range(play.codec) : g < c
    BY DEF TrackInv, PacketsPlayed
  <1> QED
    BY <1>1, HeldStep DEF Held

\* A file passes on some of what it holds, in order.
LEMMA FileStep ==
  ASSUME TrackInv, taken' = taken, play.step \notin {"idle", "blocks"},
         play' \in PlayType, play'.step \notin {"idle", "blocks"},
         NEW frames \in Seq(Nat), Pcm(frames), Increasing(frames),
         play'.left = play.left,
         Increasing(play'.codec), Increasing(play'.graph),
         Range(frames) \subseteq Held,
         Range(play'.codec) \cup Range(play'.graph) \subseteq Held,
         \A f \in Range(frames), k \in Range(play'.codec) \cup Range(play'.graph) : f < k,
         \A g \in Range(play'.graph), c \in Range(play'.codec) : g < c
  PROVE  TrackInv'
PROOF
  <1>1. Current' = Current /\ Only
    BY DEF Current, Pcm
  <1>2. Packets' = Packets
    BY <1>1 DEF Packets
  <1>3. /\ taken # <<>> /\ Current.opened /\ written # <<>> /\ Listed(written)
        /\ LastOf(written).command = Current.job.command
    BY DEF TrackInv, Playing, ListsOK
  <1>4. /\ Current.job.blocks = 0 /\ play.left <= Len(Packets)
        /\ LastOf(written).frame \in 0 .. Len(Packets) - play.left
        /\ \A k \in Held : /\ k \in 1 .. Len(Packets) - play.left /\ Packets[k]
                           /\ LastOf(written).frame < k
    BY DEF TrackInv, PacketsPlayed
  <1>5. /\ Packets \in Seq(BOOLEAN)
        /\ Frames(heard[Current.job.command]) = {i \in DOMAIN Packets : Packets[i]}
    BY <1>3, <1>4, CurrentJob
  <1>6. play.left \in Nat
    BY DEF TrackInv, ListsOK, PlayType
  <1>7. \A k \in Held : k \in Frames(heard[Current.job.command]) \ {0}
    BY <1>4, <1>5, <1>6
  <1>8. \A i \in 1 .. Len(frames) : frames[i] \in Range(frames) /\ frames[i] \in Held
    BY RangePlaces
  <1>9. /\ Listed(written') /\ Len(written) <= Len(written')
        /\ \A i \in 1 .. Len(written) : written'[i] = written[i]
        /\ \A i \in 1 .. Len(written') : i > Len(written) =>
             /\ written'[i].command = Current.job.command
             /\ written'[i].frame \in Frames(heard[Current.job.command]) \ {0}
             /\ i > 1 /\ written'[i - 1].command = Current.job.command
             /\ written'[i - 1].frame < written'[i].frame
        /\ LastOf(written').frame = IF frames = <<>> THEN LastOf(written).frame
                                    ELSE LastOf(frames)
    BY <1>3, <1>4, <1>7, <1>8, PcmWritten
  <1>10. Held' \subseteq Held
    BY DEF Held
  <1>11. /\ LastOf(written').frame \in 0 .. Len(Packets) - play.left
         /\ \A k \in Held' : LastOf(written').frame < k
    <2>1. CASE frames = <<>>
      BY <2>1, <1>4, <1>9, <1>10
    <2>2. CASE frames # <<>>
      <3>1. Len(frames) \in 1 .. Len(frames)
        BY <2>2
      <3>2. LastOf(frames) \in Range(frames) /\ LastOf(frames) \in Held
        BY <3>1, <1>8 DEF LastOf
      <3>3. LastOf(frames) \in 0 .. Len(Packets) - play.left
        BY <3>2, <1>4
      <3>4. \A k \in Held' : LastOf(frames) < k
        BY <3>2 DEF Held
      <3> QED
        BY <2>2, <3>3, <3>4, <1>9
    <2> QED
      BY <2>1, <2>2
  <1>12. PacketsPlayed'
    BY <1>1, <1>2, <1>4, <1>10, <1>11 DEF PacketsPlayed, LastOf
  <1>13. BlocksPlayed'
    BY DEF BlocksPlayed
  <1> QED
    BY <1>1, <1>9, <1>12, <1>13, PlayStep

\* run() of a file begins to read, or of blocks to make them.
LEMMA BeginStep ==
  ASSUME TrackInv, Begin
  PROVE  TrackInv'
PROOF
  <1> DEFINE c   == Current.job.command
             new == [command |-> c, metadata |-> Current.metadata, frame |-> 0]
  <1>0. /\ named' = named /\ heard' = heard /\ line' = line /\ reader' = reader
        /\ jobs' = jobs /\ taken' = taken /\ written' = Append(written, new)
        /\ taken # <<>> /\ Current.opened /\ play.step = "idle"
    BY DEF Begin, Only, queueVars, At
  <1>1. Listed(heard) /\ Listed(taken) /\ Listed(written)
    BY DEF TrackInv, ListsOK
  <1>2. /\ Current = taken[1] /\ 1 \in DOMAIN taken /\ DOMAIN taken = 1 .. Len(taken)
        /\ c \in 1 .. Len(heard) /\ IsTrack(heard[c]) /\ Current.job.blocks \in Nat
        /\ Current.job.blocks = 0 => Packets \in Seq(BOOLEAN)
    BY <1>0, CurrentJob
  <1>3. new.command = c /\ new.frame = 0
    OBVIOUS
  <1> HIDE DEF new
  <1>4. /\ Len(written) \in Nat /\ DOMAIN written = 1 .. Len(written)
        /\ Listed(written') /\ written' # <<>> /\ Len(written') = Len(written) + 1
        /\ DOMAIN written' = 1 .. Len(written) + 1
        /\ \A i \in 1 .. Len(written) : written'[i] = written[i]
        /\ written'[Len(written) + 1] = new
    BY <1>0, <1>1, ListAppend, ListPlaces
  <1>5. \A i \in DOMAIN written' :
          \/ i \in DOMAIN written /\ written'[i] = written[i] /\ i <= Len(written)
          \/ i = Len(written) + 1 /\ written'[i] = new
    BY <1>4
  <1>6. LastOf(written').command = c /\ LastOf(written').frame = 0
    BY <1>3, <1>4 DEF LastOf
  <1>7. Current' = Current /\ Packets' = Packets
    BY <1>0 DEF Current, Packets
  <1>8. \A i \in DOMAIN written : written[i].command < c
    BY <1>0, <1>2 DEF TrackInv, InOrder
  <1>s. /\ \A job : JobMade(job) => JobMade(job)'
        /\ \A n \in 1 .. Len(heard) : /\ IsTrack(heard[n])' <=> IsTrack(heard[n])
                                      /\ Frames(heard[n])' = Frames(heard[n])
    BY <1>0, <1>1, HeardStays
  <1>9. ASSUME Current.job.blocks > 0
        PROVE  /\ play' \in PlayType /\ play'.step # "idle" /\ BlocksPlayed' /\ PacketsPlayed'
               /\ play'.step = "blocks" => Current.job.blocks > 0
    <2>1. play' = [step |-> "blocks", left |-> Current.job.blocks, codec |-> <<>>,
                   graph |-> <<>>, draining |-> FALSE, flushed |-> {}]
      BY <1>9 DEF Begin, NoPlay
    <2>2. /\ play' \in PlayType /\ play'.step = "blocks" /\ play'.left = Current.job.blocks
      BY <2>1, <1>2 DEF PlayType, Steps
    <2>3. BlocksPlayed'
      BY <2>2, <1>2, <1>6, <1>7 DEF BlocksPlayed
    <2>4. PacketsPlayed'
      BY <2>2 DEF PacketsPlayed
    <2>5. play'.step # "idle" /\ (play'.step = "blocks" => Current.job.blocks > 0)
      BY <2>2, <1>9
    <2> QED
      BY <2>2, <2>3, <2>4, <2>5
  <1>10. ASSUME ~(Current.job.blocks > 0)
         PROVE  /\ play' \in PlayType /\ play'.step # "idle" /\ BlocksPlayed' /\ PacketsPlayed'
                /\ play'.step = "blocks" => Current.job.blocks > 0
    <2>1. play' = [step |-> "read", left |-> Len(Packets), codec |-> <<>>,
                   graph |-> <<>>, draining |-> FALSE, flushed |-> {}]
      BY <1>10 DEF Begin, Packets, NoPlay
    <2>2. Current.job.blocks = 0 /\ Len(Packets) \in Nat
      BY <1>2, <1>10
    <2>3. /\ play' \in PlayType /\ play'.step = "read" /\ play'.left = Len(Packets)
          /\ play'.codec = <<>> /\ play'.graph = <<>>
      BY <2>1, <2>2 DEF PlayType, Steps
    <2>4. BlocksPlayed'
      BY <2>3 DEF BlocksPlayed
    <2>5. Held' = {}
      BY <2>3 DEF Held, Range
    <2>6. Increasing(play'.codec) /\ Increasing(play'.graph)
      BY <2>3 DEF Increasing
    <2>7. \A g \in Range(play'.graph), k \in Range(play'.codec) : g < k
      BY <2>3 DEF Range
    <2>8. 0 \in 0 .. Len(Packets) - Len(Packets) /\ Len(Packets) <= Len(Packets)
      BY <2>2
    <2>9. PacketsPlayed'
      BY <2>2, <2>3, <2>5, <2>6, <2>7, <2>8, <1>6, <1>7 DEF PacketsPlayed
    <2>10. play'.step # "idle" /\ (play'.step = "blocks" => Current.job.blocks > 0)
      BY <2>3
    <2> QED
      BY <2>3, <2>4, <2>9, <2>10
  <1>11. /\ play' \in PlayType /\ play'.step # "idle" /\ BlocksPlayed' /\ PacketsPlayed'
         /\ play'.step = "blocks" => Current.job.blocks > 0
    BY <1>9, <1>10
  <1>12. ListsOK'
    BY <1>0, <1>1, <1>4, <1>11 DEF TrackInv, ListsOK, PlayType
  <1>13. JobsMade'
    BY <1>0, <1>s DEF TrackInv, JobsMade
  <1>14. NewestHeld' /\ MakesHeld'
    <2>1. MakesHeld'
      BY <1>0 DEF TrackInv, MakesHeld, Makes, Decoders, config, CreateJob
    <2>2. Holding' => Holding
      BY <1>0 DEF Holding
    <2>3. Holding => \A i \in DOMAIN written' : written'[i].command < Len(heard)
      BY <1>2, <1>3, <1>5 DEF TrackInv, NewestHeld
    <2> QED
      BY <1>0, <2>1, <2>2, <2>3 DEF TrackInv, NewestHeld, LastOf
  <1>15. InOrder'
    <2>1. \A i \in DOMAIN written', j \in DOMAIN jobs :
            written'[i].command < jobs[j].command
      BY <1>2, <1>3, <1>5 DEF TrackInv, InOrder
    <2>2. \A i \in DOMAIN written', j \in DOMAIN taken :
            \/ written'[i].command < taken[j].job.command
            \/ j = 1 /\ written'[i].command = taken[j].job.command
      <3> SUFFICES ASSUME NEW i \in DOMAIN written', NEW j \in DOMAIN taken
                   PROVE  \/ written'[i].command < taken[j].job.command
                          \/ j = 1 /\ written'[i].command = taken[j].job.command
        OBVIOUS
      <3>1. CASE i \in DOMAIN written /\ written'[i] = written[i]
        BY <3>1, <1>0 DEF TrackInv, InOrder
      <3>2. CASE written'[i] = new
        <4>1. CASE j = 1
          BY <3>2, <4>1, <1>2, <1>3
        <4>2. CASE j # 1
          <5>1. 1 < j
            BY <4>2, <1>2
          <5> QED
            BY <3>2, <5>1, <1>2, <1>3 DEF TrackInv, InOrder
        <4> QED
          BY <4>1, <4>2
      <3> QED
        BY <3>1, <3>2, <1>5
    <2> QED
      BY <1>0, <1>11, <2>1, <2>2 DEF TrackInv, InOrder
  <1>16. Playing'
    BY <1>0, <1>4, <1>6, <1>7, <1>11 DEF Playing
  <1>17. WrittenApart'
    <2>1. ASSUME NEW i \in DOMAIN written'
          PROVE  LET number == written'[i].command
                     frame  == written'[i].frame
                 IN  /\ number \in 1 .. Len(heard)
                     /\ IsTrack(heard[number])
                     /\ frame \in Frames(heard[number]) \cup {0}
                     /\ IF frame = 0 THEN i > 1 => written'[i - 1].command < number
                        ELSE /\ i > 1 /\ written'[i - 1].command = number
                             /\ written'[i - 1].frame < frame
      <3>1. CASE i = Len(written) + 1
        <4>1. written'[i] = new
          BY <3>1, <1>4
        <4>2. i > 1 => i - 1 \in DOMAIN written /\ written'[i - 1] = written[i - 1]
          BY <3>1, <1>4
        <4>3. i > 1 => written'[i - 1].command < c
          BY <4>2, <1>8
        <4> QED
          BY <4>1, <4>3, <1>2, <1>3
      <3>2. CASE i \in 1 .. Len(written)
        <4>1. /\ i \in DOMAIN written /\ written'[i] = written[i]
              /\ i > 1 => written'[i - 1] = written[i - 1]
          BY <3>2, <1>4
        <4> QED
          BY <4>1 DEF TrackInv, WrittenApart
      <3> QED
        BY <3>1, <3>2, <1>4
    <2>2. \A i \in DOMAIN written' :
            /\ IsTrack(heard[written[i].command])'
            /\ (written[i].frame \in Frames(heard[written[i].command]) \cup {0})'
      BY <2>1, <1>s
    <2> QED
      BY <1>0, <2>1, <2>2 DEF WrittenApart
  <1> QED
    BY <1>11, <1>12, <1>13, <1>14, <1>15, <1>16, <1>17 DEF TrackInv

\* What run() of a file holds.
LEMMA FileHolds ==
  ASSUME TrackInv, play.step \notin {"idle", "blocks"}
  PROVE  /\ play \in PlayType /\ play.codec \in Seq(Nat) /\ play.graph \in Seq(Nat)
         /\ Increasing(play.codec) /\ Increasing(play.graph)
         /\ \A g \in Range(play.graph), c \in Range(play.codec) : g < c
         /\ Range(play.codec) \subseteq Held /\ Range(play.graph) \subseteq Held
PROOF
  BY DEF TrackInv, ListsOK, PlayType, PacketsPlayed, Held

\* One frame.
LEMMA OneFrame ==
  ASSUME NEW f \in Nat
  PROVE  /\ <<f>> \in Seq(Nat) /\ Increasing(<<f>>) /\ Range(<<f>>) = {f}
         /\ Len(<<f>>) = 1 /\ <<f>>[1] = f /\ <<f>> # <<>> /\ LastOf(<<f>>) = f
PROOF
  BY DEF Increasing, Range, LastOf

\* No frame.
LEMMA NoFrames == <<>> \in Seq(Nat) /\ Increasing(<<>>) /\ Range(<<>>) = {}
PROOF
  BY DEF Increasing, Range

LEMMA BlockStep ==
  ASSUME TrackInv, Block
  PROVE  TrackInv'
PROOF
  <1> DEFINE f == Current.job.blocks - play.left + 1
  <1>1. /\ play.step = "blocks" /\ play.left > 0 /\ play' = [play EXCEPT !.left = @ - 1]
        /\ Pcm(<<f>>) /\ Only /\ taken' = taken
    BY DEF Block, At, Pcm
  <1>2. /\ taken # <<>> /\ Current.opened /\ written # <<>> /\ Listed(written)
        /\ LastOf(written).command = Current.job.command
        /\ Current.job.blocks > 0 /\ play.left <= Current.job.blocks
        /\ LastOf(written).frame = Current.job.blocks - play.left
        /\ play \in PlayType
    BY <1>1 DEF TrackInv, Playing, BlocksPlayed, ListsOK
  <1>3. /\ Current.job.blocks \in Nat /\ play.left \in Nat
        /\ Frames(heard[Current.job.command]) = 1 .. Current.job.blocks
    BY <1>2, CurrentJob DEF PlayType
  <1>4. /\ f \in Nat /\ f \in (1 .. Current.job.blocks) \ {0} /\ LastOf(written).frame < f
        /\ f = Current.job.blocks - (play.left - 1)
        /\ play.left - 1 \in Nat /\ play.left - 1 <= Current.job.blocks
    BY <1>1, <1>2, <1>3
  <1>5. play' \in PlayType /\ play'.step = "blocks" /\ play'.left = play.left - 1
    BY <1>1, <1>2, <1>4 DEF PlayType
  <1> HIDE DEF f
  <1>6. /\ <<f>> \in Seq(Nat) /\ Increasing(<<f>>)
        /\ \A i \in 1 .. Len(<<f>>) :
             /\ LastOf(written).frame < <<f>>[i]
             /\ <<f>>[i] \in Frames(heard[Current.job.command]) \ {0}
    BY <1>3, <1>4, OneFrame
  <1>7. /\ Listed(written') /\ Len(written) <= Len(written')
        /\ \A i \in 1 .. Len(written) : written'[i] = written[i]
        /\ \A i \in 1 .. Len(written') : i > Len(written) =>
             /\ written'[i].command = Current.job.command
             /\ written'[i].frame \in Frames(heard[Current.job.command]) \ {0}
             /\ i > 1 /\ written'[i - 1].command = Current.job.command
             /\ written'[i - 1].frame < written'[i].frame
        /\ LastOf(written').frame = f
    BY <1>1, <1>2, <1>4, <1>6, PcmWritten, OneFrame
  <1>8. Current' = Current
    BY <1>1 DEF Current
  <1>9. BlocksPlayed'
    BY <1>4, <1>5, <1>7, <1>8 DEF BlocksPlayed
  <1>10. PacketsPlayed'
    BY <1>5 DEF PacketsPlayed
  <1> QED
    BY <1>1, <1>5, <1>7, <1>9, <1>10, PlayStep

\* The steps that neither read a packet nor move a frame.
LEMMA MoveSteps ==
  ASSUME TrackInv, StopReading \/ NoFrame \/ NoFiltered \/ Drain \/ Flush
  PROVE  TrackInv'
PROOF
  <1>1. play.step \in {"read", "decode", "filter", "drain", "eof"}
    BY DEF StopReading, NoFrame, NoFiltered, Drain, Flush, At
  <1>2. play \in PlayType
    BY DEF TrackInv, ListsOK
  <1>3. Only /\ taken' = taken /\ written' = written
    BY DEF StopReading, NoFrame, NoFiltered, Drain, Flush, Silently, Failing
  <1>4. /\ play' \in PlayType /\ play'.step \in {"read", "decode", "drain", "eof", "last"}
        /\ play'.left = play.left /\ play'.codec = play.codec /\ play'.graph = play.graph
    <2>1. CASE StopReading
      BY <2>1, <1>2 DEF StopReading, PlayType, Steps
    <2>2. CASE NoFrame
      BY <2>2, <1>2 DEF NoFrame, PlayType, Steps
    <2>3. CASE NoFiltered
      BY <2>3, <1>2 DEF NoFiltered, AfterError, PlayType, Steps
    <2>4. CASE Drain
      BY <2>4, <1>2 DEF Drain, Drained, PlayType, Steps
    <2>5. CASE Flush
      BY <2>5, <1>2 DEF Flush, PlayType, Steps
    <2> QED
      BY <2>1, <2>2, <2>3, <2>4, <2>5
  <1> QED
    BY <1>1, <1>3, <1>4, MoveStep

\* A packet is read: it is a later one than all that are held.
LEMMA ReadPacketStep ==
  ASSUME TrackInv, ReadPacket
  PROVE  TrackInv'
PROOF
  <1>1. /\ play.step = "read" /\ play.left > 0
        /\ play' = [play EXCEPT !.step = "decode", !.left = @ - 1,
                      !.codec = IF Packets[Packet] THEN Append(@, Packet) ELSE @]
        /\ Only /\ taken' = taken /\ written' = written
    BY DEF ReadPacket, At, Silently
  <1>2. /\ play \in PlayType /\ play.codec \in Seq(Nat) /\ play.graph \in Seq(Nat)
        /\ Increasing(play.codec) /\ Increasing(play.graph)
        /\ \A g \in Range(play.graph), c \in Range(play.codec) : g < c
        /\ Range(play.codec) \subseteq Held /\ Range(play.graph) \subseteq Held
    BY <1>1, FileHolds
  <1>3. /\ Current.job.blocks = 0 /\ play.left <= Len(Packets)
        /\ LastOf(written).frame \in 0 .. Len(Packets) - play.left
        /\ \A k \in Held : /\ k \in 1 .. Len(Packets) - play.left /\ Packets[k]
                           /\ LastOf(written).frame < k
        /\ taken # <<>> /\ Current.opened
    BY <1>1 DEF TrackInv, PacketsPlayed, Playing
  <1>4. Packets \in Seq(BOOLEAN) /\ play.left \in Nat
    BY <1>2, <1>3, CurrentJob DEF PlayType
  <1>5. /\ Len(Packets) \in Nat /\ Packet \in 1 .. Len(Packets) - (play.left - 1)
        /\ Packet \in Nat
        /\ play.left - 1 \in Nat /\ play.left - 1 <= Len(Packets)
        /\ \A k \in 0 .. Len(Packets) - play.left :
             k < Packet /\ k \in 0 .. Len(Packets) - (play.left - 1)
    BY <1>1, <1>3, <1>4 DEF Packet
  <1>6. Current' = Current /\ Packets' = Packets
    BY <1>1 DEF Current, Packets
  <1> DEFINE codec == IF Packets[Packet] THEN Append(play.codec, Packet) ELSE play.codec
  <1>7. /\ play'.step = "decode" /\ play'.left = play.left - 1
        /\ play'.codec = codec /\ play'.graph = play.graph
    BY <1>1, <1>2 DEF PlayType
  <1>8. \A k \in Held : k < Packet /\ k \in 1 .. Len(Packets) - (play.left - 1)
    BY <1>3, <1>5
  <1>9. /\ codec \in Seq(Nat) /\ Increasing(codec)
        /\ Range(codec) \subseteq Range(play.codec) \cup {Packet}
        /\ Packet \in Range(codec) => Packets[Packet]
    <2>1. CASE Packets[Packet]
      BY <2>1, <1>2, <1>5, <1>8, IncreasingAppend
    <2>2. CASE ~Packets[Packet]
      <3>1. Packet \notin Range(play.codec)
        BY <2>2, <1>2, <1>3
      <3> QED
        BY <2>2, <3>1, <1>2
    <2> QED
      BY <2>1, <2>2
  <1>10. play' \in PlayType
    BY <1>1, <1>2, <1>5, <1>9 DEF PlayType, Steps
  <1> HIDE DEF codec
  <1>11. \A g \in Range(play.graph), c \in Range(codec) : g < c
    BY <1>2, <1>8, <1>9
  <1>12. \A k \in Range(codec) \cup Range(play.graph) :
           /\ k \in 1 .. Len(Packets) - (play.left - 1) /\ Packets[k]
           /\ LastOf(written).frame < k
    <2>1. ASSUME NEW k \in Range(codec) \cup Range(play.graph)
          PROVE  /\ k \in 1 .. Len(Packets) - (play.left - 1) /\ Packets[k]
                 /\ LastOf(written).frame < k
      <3>1. CASE k \in Held
        BY <3>1, <1>3, <1>8
      <3>2. CASE k = Packet /\ Packets[Packet]
        BY <3>2, <1>3, <1>5
      <3> QED
        BY <3>1, <3>2, <1>2, <1>9
    <2> QED
      BY <2>1
  <1>13. PacketsPlayed'
    BY <1>1, <1>2, <1>3, <1>5, <1>6, <1>7, <1>9, <1>11, <1>12 DEF PacketsPlayed, Held, LastOf
  <1>14. play'.step \notin {"idle", "blocks"} /\ play.step \notin {"idle", "blocks"}
    BY <1>1, <1>7
  <1> QED
    BY <1>1, <1>10, <1>13, <1>14, SilentStep

\* The steps in which a frame leaves the decoder, for the graph or for good.
LEMMA CodecSteps ==
  ASSUME TrackInv, DecodeFails \/ Interrupted \/ FilterFrame
  PROVE  TrackInv'
PROOF
  <1>1. play.step = "decode" /\ Only /\ taken' = taken /\ written' = written
    BY DEF DecodeFails, Interrupted, FilterFrame, At, Silently, Failing
  <1>2. /\ play \in PlayType /\ play.codec \in Seq(Nat) /\ play.graph \in Seq(Nat)
        /\ Increasing(play.codec) /\ Increasing(play.graph)
        /\ \A g \in Range(play.graph), c \in Range(play.codec) : g < c
        /\ Range(play.codec) \subseteq Held /\ Range(play.graph) \subseteq Held
    BY <1>1, FileHolds
  <1>3. CASE play' = AfterError(play)
    <2>1. /\ play' \in PlayType /\ play'.step \in {"eof", "drain"}
          /\ play'.left = play.left /\ play'.codec = play.codec /\ play'.graph = play.graph
      BY <1>2, <1>3 DEF AfterError, PlayType, Steps
    <2> QED
      BY <1>1, <2>1, MoveStep
  <1>4. ASSUME play.codec # <<>>
        PROVE  /\ Tail(play.codec) \in Seq(Nat) /\ Increasing(Tail(play.codec))
               /\ Head(play.codec) \in Range(play.codec) /\ Head(play.codec) \in Nat
               /\ Range(Tail(play.codec)) \subseteq Range(play.codec)
               /\ \A k \in Range(Tail(play.codec)) : Head(play.codec) < k
    BY <1>2, <1>4, IncreasingTail
  <1>5. CASE play.codec # <<>> /\ play' = AfterError([play EXCEPT !.codec = Tail(@)])
    <2>1. /\ play' \in PlayType /\ play'.step \in {"eof", "drain"}
          /\ play'.left = play.left /\ play'.codec = Tail(play.codec)
          /\ play'.graph = play.graph
      BY <1>2, <1>4, <1>5 DEF AfterError, PlayType, Steps
    <2>2. /\ Range(play'.codec) \cup Range(play'.graph) \subseteq Held
          /\ \A g \in Range(play'.graph), c \in Range(play'.codec) : g < c
      BY <1>2, <1>4, <1>5, <2>1
    <2> QED
      BY <1>1, <1>2, <1>4, <1>5, <2>1, <2>2, HeldStep
  <1>6. CASE FilterFrame
    <2>1. /\ play.codec # <<>>
          /\ play' = [play EXCEPT !.step = "filter", !.codec = Tail(@),
                                  !.graph = Append(@, Received)]
      BY <1>6 DEF FilterFrame
    <2>2. /\ Append(play.graph, Received) \in Seq(Nat)
          /\ Increasing(Append(play.graph, Received))
          /\ Range(Append(play.graph, Received)) = Range(play.graph) \cup {Received}
      BY <1>2, <1>4, <2>1, IncreasingAppend DEF Received
    <2>3. /\ play' \in PlayType /\ play'.step = "filter"
          /\ play'.left = play.left /\ play'.codec = Tail(play.codec)
          /\ play'.graph = Append(play.graph, Received)
      BY <1>2, <1>4, <2>1, <2>2 DEF PlayType, Steps
    <2>4. /\ Range(play'.codec) \cup Range(play'.graph) \subseteq Held
          /\ \A g \in Range(play'.graph), c \in Range(play'.codec) : g < c
      BY <1>2, <1>4, <2>1, <2>2, <2>3 DEF Received
    <2> QED
      BY <1>1, <1>4, <2>1, <2>2, <2>3, <2>4, HeldStep
  <1>7. DecodeFails \/ Interrupted =>
          \/ play' = AfterError(play)
          \/ play.codec # <<>> /\ play' = AfterError([play EXCEPT !.codec = Tail(@)])
    BY DEF DecodeFails, Interrupted
  <1> QED
    BY <1>3, <1>5, <1>6, <1>7

\* The graph or the resampler loses what it has.
LEMMA LastFailsStep ==
  ASSUME TrackInv, LastFails
  PROVE  TrackInv'
PROOF
  <1>1. /\ play.step = "last" /\ Only /\ taken' = taken /\ written' = written
        /\ play' = [play EXCEPT !.graph = <<>>]
    BY DEF LastFails, At, Failing
  <1>2. /\ play \in PlayType /\ Increasing(play.codec) /\ Range(play.codec) \subseteq Held
    BY <1>1, FileHolds
  <1>3. /\ play' \in PlayType /\ play'.step = "last" /\ play'.left = play.left
        /\ play'.codec = play.codec /\ play'.graph = <<>>
    BY <1>1, <1>2, NoFrames DEF PlayType
  <1> QED
    BY <1>1, <1>2, <1>3, NoFrames, HeldStep

\* The first frame of the graph is passed on.
LEMMA GraphStep ==
  ASSUME TrackInv, play.step \in {"filter", "last"}, play.graph # <<>>,
         play' = [play EXCEPT !.graph = Tail(@)], Pcm(<<Head(play.graph)>>)
  PROVE  TrackInv'
PROOF
  <1>1. taken' = taken
    BY DEF Pcm
  <1>2. /\ play \in PlayType /\ play.codec \in Seq(Nat) /\ play.graph \in Seq(Nat)
        /\ Increasing(play.codec) /\ Increasing(play.graph)
        /\ \A g \in Range(play.graph), c \in Range(play.codec) : g < c
        /\ Range(play.codec) \subseteq Held /\ Range(play.graph) \subseteq Held
    BY FileHolds
  <1>3. /\ Tail(play.graph) \in Seq(Nat) /\ Increasing(Tail(play.graph))
        /\ Head(play.graph) \in Range(play.graph) /\ Head(play.graph) \in Nat
        /\ Range(Tail(play.graph)) \subseteq Range(play.graph)
        /\ \A k \in Range(Tail(play.graph)) : Head(play.graph) < k
    BY <1>2, IncreasingTail
  <1>4. /\ play' \in PlayType /\ play'.step = play.step /\ play'.left = play.left
        /\ play'.codec = play.codec /\ play'.graph = Tail(play.graph)
    BY <1>2, <1>3 DEF PlayType
  <1> DEFINE frames == <<Head(play.graph)>>
  <1>5. frames \in Seq(Nat) /\ Increasing(frames) /\ Range(frames) = {Head(play.graph)}
    BY <1>3, OneFrame
  <1>6. Pcm(frames)
    OBVIOUS
  <1> HIDE DEF frames
  <1>7. /\ Range(frames) \subseteq Held
        /\ Range(play'.codec) \cup Range(play'.graph) \subseteq Held
        /\ \A f \in Range(frames), k \in Range(play'.codec) \cup Range(play'.graph) : f < k
        /\ \A g \in Range(play'.graph), c \in Range(play'.codec) : g < c
    BY <1>2, <1>3, <1>4, <1>5
  <1> QED
    BY <1>1, <1>2, <1>3, <1>4, <1>5, <1>6, <1>7, FileStep

\* All that the resampler has is passed on.
LEMMA AllStep ==
  ASSUME TrackInv, play.step = "last", play' = [play EXCEPT !.graph = <<>>],
         Pcm(play.graph)
  PROVE  TrackInv'
PROOF
  <1>1. taken' = taken
    BY DEF Pcm
  <1>2. /\ play \in PlayType /\ play.codec \in Seq(Nat) /\ play.graph \in Seq(Nat)
        /\ Increasing(play.codec) /\ Increasing(play.graph)
        /\ \A g \in Range(play.graph), c \in Range(play.codec) : g < c
        /\ Range(play.codec) \subseteq Held /\ Range(play.graph) \subseteq Held
    BY FileHolds
  <1>3. /\ play' \in PlayType /\ play'.step = "last" /\ play'.left = play.left
        /\ play'.codec = play.codec /\ play'.graph = <<>>
    BY <1>2, NoFrames DEF PlayType
  <1> QED
    BY <1>1, <1>2, <1>3, NoFrames, FileStep

\* The resampler takes a frame, and the first of what it has are passed on.
LEMMA ResampleStep ==
  ASSUME TrackInv, ResampleFrame
  PROVE  TrackInv'
PROOF
  <1> DEFINE frames == Append(play.graph, Received)
  <1>1. /\ play.step = "decode" /\ play.codec # <<>>
        /\ \E n \in 0 .. Len(frames) :
             /\ play' = [play EXCEPT !.codec = Tail(@),
                                     !.graph = SubSeq(frames, n + 1, Len(frames))]
             /\ Pcm(SubSeq(frames, 1, n))
    BY DEF ResampleFrame, At
  <1>2. /\ play \in PlayType /\ play.codec \in Seq(Nat) /\ play.graph \in Seq(Nat)
        /\ Increasing(play.codec) /\ Increasing(play.graph)
        /\ \A g \in Range(play.graph), c \in Range(play.codec) : g < c
        /\ Range(play.codec) \subseteq Held /\ Range(play.graph) \subseteq Held
    BY <1>1, FileHolds
  <1>3. /\ Tail(play.codec) \in Seq(Nat) /\ Increasing(Tail(play.codec))
        /\ Received \in Range(play.codec) /\ Received \in Nat
        /\ Range(Tail(play.codec)) \subseteq Range(play.codec)
        /\ \A k \in Range(Tail(play.codec)) : Received < k
    BY <1>1, <1>2, IncreasingTail DEF Received
  <1>4. /\ frames \in Seq(Nat) /\ Increasing(frames)
        /\ Range(frames) = Range(play.graph) \cup {Received}
    BY <1>2, <1>3, IncreasingAppend
  <1> HIDE DEF frames
  <1>5. /\ Range(frames) \subseteq Held
        /\ \A f \in Range(frames), k \in Range(Tail(play.codec)) : f < k
    BY <1>2, <1>3, <1>4
  <1>6. PICK n \in 0 .. Len(frames) :
          /\ play' = [play EXCEPT !.codec = Tail(@),
                                  !.graph = SubSeq(frames, n + 1, Len(frames))]
          /\ Pcm(SubSeq(frames, 1, n))
    BY <1>1
  <1> DEFINE first  == SubSeq(frames, 1, n)
             second == SubSeq(frames, n + 1, Len(frames))
  <1>7. /\ first \in Seq(Nat) /\ Len(first) = n
        /\ \A i \in 1 .. n : first[i] = frames[i]
        /\ second \in Seq(Nat) /\ Increasing(second)
        /\ Range(second) \subseteq Range(frames)
        /\ \A k \in Range(second), i \in 1 .. n : frames[i] < k
    BY <1>4, IncreasingCut
  <1>8. Pcm(first) /\ taken' = taken
    BY <1>6 DEF Pcm
  <1>9. /\ play' \in PlayType /\ play'.step = "decode" /\ play'.left = play.left
        /\ play'.codec = Tail(play.codec) /\ play'.graph = second
    BY <1>1, <1>2, <1>3, <1>6, <1>7 DEF PlayType
  <1> HIDE DEF first, second
  <1>10. Len(frames) \in Nat /\ DOMAIN frames = 1 .. Len(frames) /\ DOMAIN first = 1 .. n
    BY <1>4, <1>7
  <1>11. Increasing(first)
    BY <1>4, <1>7, <1>10 DEF Increasing
  <1>12. \A f \in Range(first) : \E i \in 1 .. n : f = frames[i] /\ f \in Range(frames)
    BY <1>4, <1>7, <1>10, RangePlaces
  <1>13. /\ Range(first) \subseteq Held
         /\ Range(play'.codec) \cup Range(play'.graph) \subseteq Held
         /\ \A f \in Range(first), k \in Range(play'.codec) \cup Range(play'.graph) : f < k
         /\ \A g \in Range(play'.graph), c \in Range(play'.codec) : g < c
    BY <1>2, <1>3, <1>5, <1>7, <1>9, <1>12
  <1> QED
    BY <1>1, <1>3, <1>7, <1>8, <1>9, <1>11, <1>13, FileStep

\* Every step of run().
LEMMA PlaySteps ==
  ASSUME TrackInv, Play
  PROVE  TrackInv'
PROOF
  <1>1. CASE Skip
    BY <1>1, EndJobStep DEF Skip
  <1>2. CASE EndBlocks \/ EndTrack
    <2>1. taken # <<>> /\ EndJob
      BY <1>2 DEF EndBlocks, EndTrack, At, TrackInv, Playing
    <2> QED
      BY <2>1, EndJobStep
  <1>3. CASE Filtered
    <2>1. /\ play.step = "filter" /\ play.graph # <<>>
          /\ play' = [play EXCEPT !.graph = Tail(@)] /\ Pcm(<<Head(play.graph)>>)
      BY <1>3 DEF Filtered, At
    <2> QED
      BY <2>1, GraphStep
  <1>4. CASE LastFrame
    <2>1. play.step = "last" /\ play.graph # <<>>
      BY <1>4 DEF LastFrame, At
    <2>2. CASE play' = [play EXCEPT !.graph = Tail(@)] /\ Pcm(<<Head(play.graph)>>)
      BY <2>1, <2>2, GraphStep
    <2>3. CASE play' = [play EXCEPT !.graph = <<>>] /\ Pcm(play.graph)
      BY <2>1, <2>3, AllStep
    <2> QED
      BY <1>4, <2>2, <2>3 DEF LastFrame
  <1> QED
    BY <1>1, <1>2, <1>3, <1>4, BeginStep, BlockStep, MoveSteps, ReadPacketStep, CodecSteps,
       LastFailsStep, ResampleStep DEF Play

-----------------------------------------------------------------------------

\* Nothing has been heard, taken or passed on at first.
LEMMA TrackInit ==
  ASSUME DecodingInit
  PROVE  TrackInv
PROOF
  <1>1. /\ heard = <<>> /\ jobs = <<>> /\ taken = <<>> /\ written = <<>>
        /\ reader = "off" /\ play = NoPlay
    BY DEF DecodingInit, Init
  <1>2. Listed(<<>>) /\ DOMAIN <<>> = {}
    <2>1. <<>> \in Seq(Nat)
      BY NoFrames
    <2>2. Listed(<<>>)
      BY <2>1, SeqIsListed
    <2> QED
      BY <2>2
  <1>3. play \in PlayType /\ play.step = "idle"
    BY <1>1, NoFrames DEF NoPlay, PlayType, Steps
  <1>4. ListsOK
    BY <1>1, <1>2, <1>3 DEF ListsOK
  <1>5. JobsMade /\ InOrder /\ WrittenApart
    BY <1>1, <1>2 DEF JobsMade, InOrder, WrittenApart
  <1>6. NewestHeld /\ MakesHeld /\ Playing /\ BlocksPlayed /\ PacketsPlayed
    BY <1>1, <1>3 DEF NewestHeld, Holding, MakesHeld, Playing, BlocksPlayed, PacketsPlayed
  <1> QED
    BY <1>4, <1>5, <1>6 DEF TrackInv

\* Every step of the program.
LEMMA TrackNext ==
  ASSUME TrackInv, [Next]_vars
  PROVE  TrackInv'
PROOF
  <1>1. CASE StartServer
    <2>1. Start /\ UNCHANGED <<taken, play, written>>
      BY <1>1 DEF StartServer
    <2>2. /\ UNCHANGED <<named, heard, jobs, taken, play, written>> /\ reader' = "loop"
      BY <2>1 DEF Start, GoTo, sourceVars, queueVars
    <2> QED
      BY <2>1, <2>2, ReaderStep DEF Holding, MakesHeld
  <1>2. CASE /\ Exit \/ ReadCommands \/ Receive \/ ReceiveNothing \/ Signal \/ Main
             /\ UNCHANGED playVars
    BY <1>2, ShellSteps
  <1>3. CASE Ask \/ Leave \/ UNCHANGED vars
    <2>1. UNCHANGED <<named, heard, jobs, reader, line, taken, play, written>>
      BY <1>3 DEF Ask, Leave, vars, shellVars, playVars, sourceVars, queueVars
    <2>2. (Holding' => Holding /\ line' = line) /\ MakesHeld'
      BY <2>1 DEF TrackInv, Holding, MakesHeld, Makes, Decoders, config, CreateJob
    <2> QED
      BY <2>1, <2>2, ReaderStep
  <1>4. CASE TakeJob
    BY <1>4, TakeJobStep
  <1>5. CASE Play
    BY <1>5, PlaySteps
  <1> QED
    BY <1>1, <1>2, <1>3, <1>4, <1>5 DEF Next

\* What was passed on is apart in each state, and so after every step that
\* passes on anything.
LEMMA TrackApart ==
  ASSUME TrackInv
  PROVE  Apart
PROOF
  <1>1. Listed(written) /\ DOMAIN written = 1 .. Len(written) /\ Len(written) \in Nat
    BY ListPlaces DEF TrackInv, ListsOK
  <1>2. DOMAIN Passed = DOMAIN written
    BY DEF Passed
  <1>3. \A i \in DOMAIN written : /\ Passed[i][1] = written[i].command
                                  /\ Passed[i][2] = written[i].frame
    BY DEF Passed
  <1>4. \A i \in DOMAIN written : i > 1 => i - 1 \in DOMAIN written
    BY <1>1
  <1> QED
    BY <1>2, <1>3, <1>4 DEF TrackInv, WrittenApart, Apart

\* Whatever fails and whenever a signal comes, tracks are passed on one after
\* the other, each of them once and in the order of its packets.
THEOREM TracksPlayedApart == Spec => TrackByTrack
PROOF
  <1>1. DecodingInit => TrackInv
    BY TrackInit
  <1>2. TrackInv /\ [Next]_vars => TrackInv'
    BY TrackNext
  <1>3. TrackInv' => [written' # written => Apart']_vars
    <2>1. TrackInv => Apart
      BY TrackApart
    <2>2. TrackInv' => Apart'
      BY <2>1, PTL
    <2> QED
      BY <2>2
  <1> QED
    BY <1>1, <1>2, <1>3, PTL DEF Spec, TrackByTrack

=============================================================================
