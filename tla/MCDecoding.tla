----------------------------- MODULE MCDecoding -----------------------------
(* Files of commands and servers that send them, and media with the tags,  *)
(* packets and pictures that matter.                                       *)
EXTENDS Decoding

Part(type, settings) == Object([type |-> String(type), config |-> settings])

None == Object([x \in {} |-> Null])

Lavc == Object([applyReplayGain |-> Boolean(TRUE), metadataBlockPicture |-> Boolean(TRUE),
                metadataBlockPictureMaxSize |-> Unsigned(3), r128Fix |-> Boolean(TRUE),
                replayGainPreamp |-> Negative(-2)])

Output(brocas, barrier) ==
  Object([type |-> String("pcm"), config |-> None, barrier |-> String(barrier),
          broca |-> Array([i \in 1 .. brocas |-> Part("discard", None)])])

Configured(shell, format, outputs) ==
  Object([shell |-> Part(shell, Object([file |-> String("commands"), url |-> String("url"),
                                        address |-> String("address")])),
          commands |-> Object([play |-> Part("lavc", Lavc), silence |-> Part("silence", None)]),
          pcmbuffer |-> Object([format |-> String(format)]),
          outputs |-> Array(outputs)])

Simple == <<Output(1, "")>>

\* Three outputs at a barrier and one that is not, and one without a broca.
Several == <<Output(1, "a"), Output(0, "a"), Output(2, "b"), Output(1, ""), Output(1, "a")>>

SomeConfigs ==
  <<Configured("file", "s16", Several), Configured("httpget", "s16", Simple),
    Configured("zeromq", "s16", Simple), Configured("file", "s8", Simple),
    Configured("file", "s16", <<>>), Configured("file", "s24", Simple),
    Configured("file", "s16", <<Output(3, ""), Output(3, "")>>),
    Configured("pipe", "s16", Simple), Null>>

Command(name, param) == Object([cmd |-> String(name), param |-> param])

Play_(path) == Command("play", String(path))

Silence(n) == Command("silence", Unsigned(n))

Pair == Array(<<String("title"), String("text")>>)

Added_(path) ==
  Command("play", Object([file |-> String(path), addMetadata |-> Array(<<Pair, Null>>)]))

SomeFiles ==
  <<[lines |-> <<Line(Silence(1)), Line(Silence(1)), Line(Silence(1)), Line(Silence(2))>>,
     newline |-> TRUE],
    [lines |-> <<Line(Silence(0)), Line(Added_("ab"))>>, newline |-> FALSE],
    [lines |-> <<Line(Play_("art")), Line(Command("quit", Null)), Line(Silence(1))>>,
     newline |-> TRUE],
    [lines |-> <<Torn(Line(Silence(1))), Line(Command("stop", Null)), Line(Broken),
                 Line(Object([cmd |-> String("quit")])), Line(Play_("none")),
                 Line(Play_("other"))>>,
     newline |-> FALSE],
    [lines |-> <<Line(Play_("stream")), Line(Play_("container"))>>, newline |-> TRUE]>>

SomeAnswers == {Silence(1), Command("quit", Null), Null}

Tag(name, reads) == [name |-> name, reads |-> reads]

NoPicture == <<>>

MediaOf(container, stream, opus, picture, packets) ==
  [container |-> container, stream |-> stream, opus |-> opus, picture |-> picture,
   packets |-> packets]

Sized(width, height, bulky) ==
  <<[type |-> "png", width |-> width, height |-> height, bulky |-> bulky]>>

SomeMedia ==
  [ab |-> MediaOf(<<Tag("REPLAYGAIN_TRACK_GAIN", <<1>>), Tag("track", <<>>)>>,
                  <<Tag("R128_TRACK_GAIN", <<2>>)>>, TRUE, NoPicture, <<TRUE, TRUE>>),
   stream |-> MediaOf(<<Tag("REPLAYGAIN_TRACK_GAIN", <<1>>), Tag("REPLAYGAIN_TRACK_PEAK", <<1>>)>>,
                      <<Tag("R128_TRACK_GAIN", <<4>>), Tag("REPLAYGAIN_TRACK_GAIN", <<3>>)>>,
                      FALSE, Sized(6, 1, FALSE), <<TRUE>>),
   container |-> MediaOf(<<Tag("R128_TRACK_GAIN", <<-1>>), Tag("title", <<>>)>>,
                         <<Tag("REPLAYGAIN_TRACK_GAIN", <<>>)>>, FALSE, Sized(1, 2, TRUE),
                         <<FALSE>>),
   art |-> MediaOf(<<>>, <<>>, FALSE, Sized(1, 9, FALSE), <<FALSE, TRUE>>),
   other |-> MediaOf(<<>>, <<Tag("comment", <<>>)>>, FALSE,
                     <<[type |-> "gif", width |-> 1, height |-> 1, bulky |-> FALSE]>>, <<TRUE>>)]

=============================================================================
