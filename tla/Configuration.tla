---------------------------- MODULE Configuration ----------------------------
(***************************************************************************)
(* What the program makes of its configuration: which JSON values the      *)
(* readers of the configuration accept, what the parts of the server make  *)
(* of the values that are handed to them, and the encoders, brocas and     *)
(* barriers that are registered.                                           *)
(*                                                                         *)
(* A JSON value says what it is, and has a text, a number or items.  An    *)
(* exception of a reader or of a constructor ends the program before any   *)
(* thread is started, so all that matters of it is whether it is thrown.   *)
(***************************************************************************)
EXTENDS Integers, Sequences, SequencesExt

CONSTANTS Limit,      \* the largest unsigned, of an int or of a short
          MaxBrocas,  \* MAX_BROCAS
          Openable    \* the paths of files that can be opened

ASSUME LimitAssumption == Limit \in Nat /\ MaxBrocas \in Nat

-----------------------------------------------------------------------------
(* JSON values and how they are read.                                      *)

JsonKinds ==
  {"null", "boolean", "negative", "unsigned", "float", "string", "array", "object"}

Value(kind, text, number, items) ==
  [is |-> kind, text |-> text, number |-> number, items |-> items]

Null        == Value("null", "", 0, <<>>)
Boolean(b)  == Value("boolean", "", IF b THEN 1 ELSE 0, <<>>)
Negative(n) == Value("negative", "", n, <<>>)
Unsigned(n) == Value("unsigned", "", n, <<>>)
String(s)   == Value("string", s, 0, <<>>)
Array(s)    == Value("array", "", 0, s)
Object(f)   == Value("object", "", 0, f)

Numbers == {"negative", "unsigned", "float"}

\* isBoolean, isInt, isUInt, isFloat, isString, isArray and isObject.
Accepted == [boolean |-> {"boolean"}, int |-> {"negative", "unsigned"},
             uint |-> {"unsigned"}, float |-> Numbers, string |-> {"string"},
             array |-> {"array"}, object |-> {"object"}]

IsA(c, type) == c.is \in Accepted[type]

HasKey(c, name) == IsA(c, "object") /\ name \in DOMAIN c.items

Key(c, name) == c.items[name]

\* hasBoolean, hasString, ...: the value is there and of the type.
Has(c, name, type) == HasKey(c, name) /\ IsA(Key(c, name), type)

\* key(), or a null in place of what is missing.
KeyOrNull(c, name) == IF HasKey(c, name) THEN Key(c, name) ELSE Null

\* A value that mustRead and mayRead do not throw at.
MustRead(c, name, type) == HasKey(c, name) /\ IsA(Key(c, name), type)
MayRead(c, name, type)  == HasKey(c, name) => MustRead(c, name, type)

\* namedBoolean, namedString, ... with a fallback, which stands in for values
\* of another type as well.
Named(c, name, type, fallback) ==
  IF Has(c, name, type) THEN Key(c, name) ELSE fallback

-----------------------------------------------------------------------------
(* ServerConfig::read.                                                     *)

\* { "type": ..., "config": ... } of a queue, a decoder or a broca.
PartReads(c) == MustRead(c, "type", "string")

PartType(c) == Key(c, "type").text

PartConfig(c) == KeyOrNull(c, "config")

Formats == {"u8", "s8", "s16", "f32"}

Format(c) == IF HasKey(c, "format") THEN Key(c, "format").text ELSE "s16"

PcmBufferReads(c) ==
  /\ \A name \in {"format", "channels"} : MayRead(c, name, "string")
  /\ MayRead(c, "samplerate", "uint") /\ MayRead(c, "skip", "boolean")
  /\ \A name \in {"duration", "skipmargin", "skipfactor"} :
       MayRead(c, name, "float") /\ KeyOrNull(c, name).number >= 0
  /\ Format(c) \in Formats
  /\ HasKey(c, "channels") => Key(c, "channels").text \in {"mono", "stereo"}

\* Every item of an array, or every value of an object.
Items(c) == {c.items[i] : i \in DOMAIN c.items}

OutputReads(c) ==
  /\ PartReads(c)
  /\ MayRead(c, "buffer", "uint") /\ MayRead(c, "barrier", "string")
  /\ Has(c, "broca", "array") /\ \A broca \in Items(Key(c, "broca")) : PartReads(broca)

\* An optional section of another type is taken to be missing.
Section(c, name, type) == IF Has(c, name, type) THEN Key(c, name) ELSE Null

ConfigReads(c) ==
  /\ Has(c, "shell", "object") /\ PartReads(Key(c, "shell"))
  /\ \A publish \in Items(Section(c, "publish", "array")) : PartReads(publish)
  /\ Has(c, "commands", "object")
  /\ \A decoder \in Items(Key(c, "commands")) : IsA(decoder, "object") /\ PartReads(decoder)
  /\ PcmBufferReads(Section(c, "pcmbuffer", "object"))
  /\ MayRead(Section(c, "resampler", "object"), "type", "string")
  /\ Has(c, "outputs", "array") /\ \A output \in Items(Key(c, "outputs")) : OutputReads(output)

-----------------------------------------------------------------------------
(* Server::init.                                                           *)

Opens(c) == c.text \in Openable

\* FileReadQueue, HttpGetReadQueue and ZeroMqReadQueue.
ReadQueueStarts(type, c) ==
  CASE type = "file"    -> \/ IsA(c, "string") /\ Opens(c)
                           \/ Has(c, "file", "string") /\ Opens(Key(c, "file"))
    [] type = "httpget" -> Has(c, "url", "string")
    [] type = "zeromq"  -> IsA(c, "string") \/ Has(c, "address", "string")
    [] OTHER            -> FALSE

\* FileWriteQueue takes a string only: the file of an object is looked up, and
\* then the object itself is taken for the path.
WriteQueueStarts(type, c) ==
  CASE type = "file"     -> IsA(c, "string") /\ Opens(c)
    [] type = "httppost" -> Has(c, "url", "string")
    [] type = "zeromq"   -> IsA(c, "string") \/ Has(c, "address", "string")
    [] OTHER             -> FALSE

\* Only the lavc decoder has a setting that is out of range.
DecoderStarts(type, c) ==
  \/ type \in {"silence", "testcard"}
  \/ /\ type = "lavc"
     /\ Named(c, "metadataBlockPictureMaxSize", "uint", Null).number <= Limit

\* Codecs check their settings; that a library refuses them is left out.
EncoderStarts(type, c) ==
  \/ type \in {"pcm", "oggvorbis", "mp3"}
  \/ type = "oggopus" /\ Named(c, "complexity", "int", Unsigned(10)).number \in 0 .. 10
  \/ type = "oggflac" /\ Named(c, "level", "uint", Unsigned(5)).number \in 0 .. 8

\* Whether it can be handed what its encoder makes is part of it.
BrocaStarts(type, c, encoder) ==
  CASE type = "discard"   -> TRUE
    [] type = "file"      -> \/ IsA(c, "string") /\ Opens(c)
                             \/ Has(c, "file", "string") /\ Opens(Key(c, "file"))
    [] type = "portaudio" -> encoder = "pcm"
    [] type = "shout"     -> /\ encoder \notin {"pcm", "oggflac"}
                             /\ \A name \in {"protocol", "host", "user", "password", "mount"} :
                                  Has(c, name, "string")
                             /\ Key(c, "protocol").text \in {"http", "icy", "roaraudio"}
                             /\ Has(c, "port", "uint") /\ Key(c, "port").number <= Limit
    [] OTHER              -> FALSE

Outputs(c) == Key(c, "outputs").items

BrocasOf(output) == Key(output, "broca").items

Barrier(output) == IF HasKey(output, "barrier") THEN Key(output, "barrier").text ELSE ""

OutputStarts(output) ==
  BrocasOf(output) # <<>> =>
    /\ EncoderStarts(PartType(output), PartConfig(output))
    /\ \A broca \in Items(Key(output, "broca")) :
         BrocaStarts(PartType(broca), PartConfig(broca), PartType(output))

NoServer == [index |-> 0, brocas |-> 0, barriers |-> <<>>, encoders |-> <<>>]

\* Seeded fault: an output without brocas does not use up an index.
SkipIndex_Not(server) == server

SkipIndex(server) == [server EXCEPT !.index = @ + 1]

\* An encoder: its number, its barrier (0 if it has none), its brocas.
AddEncoder(server, output) ==
  LET n     == Len(BrocasOf(output))
      name  == Barrier(output)
      named == {i \in DOMAIN server.barriers : server.barriers[i] = name}
      new   == name # "" /\ named = {}
  IN  [index    |-> server.index + 1,
       brocas   |-> server.brocas + n,
       barriers |-> IF new THEN Append(server.barriers, name) ELSE server.barriers,
       encoders |-> Append(server.encoders,
                      [index   |-> server.index,
                       barrier |-> IF name = "" THEN 0
                                   ELSE IF new THEN Len(server.barriers) + 1
                                   ELSE CHOOSE i \in named : TRUE,
                       sinks   |-> [i \in 1 .. n |-> server.brocas + i - 1]])]

\* One turn of the loop over the outputs.
Register(server, output) ==
  IF BrocasOf(output) = <<>> THEN SkipIndex(server) ELSE AddEncoder(server, output)

Registered(c) == FoldLeft(Register, NoServer, Outputs(c))

\* totalBrocas++ > MAX_BROCAS throws at the second broca that is too many.
ServerStarts(c) ==
  /\ Outputs(c) # <<>>
  /\ \A decoder \in Items(Key(c, "commands")) :
       DecoderStarts(PartType(decoder), PartConfig(decoder))
  /\ \A output \in Items(Key(c, "outputs")) : OutputStarts(output)
  /\ Registered(c).brocas <= MaxBrocas + 1
  /\ LET shell == Key(c, "shell") IN ReadQueueStarts(PartType(shell), PartConfig(shell))
  /\ \A publish \in Items(Section(c, "publish", "array")) :
       WriteQueueStarts(PartType(publish), PartConfig(publish))

=============================================================================
