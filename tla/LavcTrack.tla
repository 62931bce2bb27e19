----------------------------- MODULE LavcTrack -----------------------------
(***************************************************************************)
(* What LavcDecodeJob::init() makes of a media file: the metadata that is  *)
(* passed on, the gain that is applied to the samples and the album art.   *)
(* There are two builds of it: one that leaves the gain to a filter of     *)
(* libavfilter, and one, with libswresample, that works it out itself.     *)
(*                                                                         *)
(* A tag has a name and what sscanf() reads from it: <<>> or one number.   *)
(* A media file is a record: the tags of the container and of the stream,  *)
(* whether the codec is Opus, the attached picture, or none, and for each  *)
(* packet whether it is of the audio stream.                               *)
(***************************************************************************)
EXTENDS Configuration

Builds == {"filter", "swr"}

Setting(params, name, fallback) ==
  Named(params, name, "boolean", Boolean(fallback)).number = 1

-----------------------------------------------------------------------------
(* Metadata.                                                               *)

\* The code tests for the prefix REPLAYGAIN_; these are the names of this kind
\* that media may have here.
IsGainTag(tag) ==
  tag.name \in {"REPLAYGAIN_TRACK_GAIN", "REPLAYGAIN_TRACK_PEAK",
                "REPLAYGAIN_ALBUM_GAIN", "R128_TRACK_GAIN"}

IsReplayGain(tag) == IsGainTag(tag) /\ tag.name # "R128_TRACK_GAIN"

\* normalizedVorbisCommentKeys: libavformat renames these.
VorbisKeys == [album_artist |-> "ALBUMARTIST", track |-> "TRACKNUMBER",
               disc |-> "DISCNUMBER", comment |-> "DESCRIPTION"]

Normalized(params, name) ==
  IF Setting(params, "normalizeVorbisComment", TRUE) /\ name \in DOMAIN VorbisKeys
  THEN VorbisKeys[name] ELSE name

\* readMetadata_(): the tags that are passed on, by name.
Forwarded(params, tags) ==
  LET others == SelectSeq(tags, LAMBDA tag : ~IsGainTag(tag))
  IN  [i \in DOMAIN others |-> Normalized(params, others[i].name)]

-----------------------------------------------------------------------------
(* Album art.                                                              *)

MaxSide(params) ==
  Named(params, "metadataBlockPictureMaxSize", "uint", Unsigned(256)).number

Larger(a, b) == IF a > b THEN a ELSE b

\* std::round() of n / d.
Rounded(n, d) == (2 * n + d) \div (2 * d)

\* Seeded fault: a side that rounds to nothing stays nothing.
Scaled_ToZero(size, n, d) == Rounded(size * n, d)

Scaled(size, n, d) == Larger(Rounded(size * n, d), 1)

\* downscaleImage(): the longer side becomes the target size.
Downscaled(picture, size) ==
  IF picture.width >= picture.height
  THEN [picture EXCEPT !.width = Larger(size, 1),
                       !.height = Scaled(size, picture.height, picture.width)]
  ELSE [picture EXCEPT !.width = Scaled(size, picture.width, picture.height),
                       !.height = Larger(size, 1)]

\* A picture of a type that is not handled leaves an empty block in the
\* metadata; one that cannot be decoded, which has no size, leaves nothing.
Art(params, media) ==
  IF ~Setting(params, "metadataBlockPicture", FALSE) THEN <<>>
  ELSE IF media.picture = <<>> THEN <<"empty">>
  ELSE LET picture == Head(media.picture)
       IN  IF picture.type \notin {"jpeg", "png"} THEN <<"empty">>
           ELSE IF picture.width = 0 \/ picture.height = 0 THEN <<>>
           ELSE <<"picture">>

\* A picture is bulky if it has more bytes than its pixels would take.
Picture(params, media) ==
  LET picture == Head(media.picture)
  IN  IF Larger(picture.width, picture.height) > MaxSide(params) \/ picture.bulky
      THEN Downscaled(picture, MaxSide(params)) ELSE picture

\* The metadata of the container, of the stream, the art and that of the command.
Metadata(params, media, added) ==
  Forwarded(params, media.container) \o Forwarded(params, media.stream)
    \o Art(params, media) \o [i \in DOMAIN added |-> added[i].items[1].text]

-----------------------------------------------------------------------------
(* The gain of the build with libswresample: LavcGainCalculator.           *)

NoGain == [gain |-> <<>>, peak |-> <<>>, r128 |-> <<>>, rejects |-> {}]

\* accept(): what comes now takes priority over what came before.
AcceptMore(calculator) == [calculator EXCEPT !.rejects = {}]

\* Seeded fault: a gain from the container outranks R128 from the stream.
Discards_Not(calculator, kind) == FALSE

\* An R128 gain that is taken discards a ReplayGain of the source before.
Discards(calculator, kind) == kind = "r128" /\ "gain" \notin calculator.rejects

\* replayGain(), replayGainPeak() and r128Gain(): the first of a source.
Record(calculator, kind, number) ==
  IF kind \in calculator.rejects THEN calculator
  ELSE LET taken == [calculator EXCEPT ![kind] = <<number>>, !.rejects = @ \cup {kind}]
       IN  IF Discards(calculator, kind) THEN [taken EXCEPT !.gain = <<>>] ELSE taken

Kinds == [REPLAYGAIN_TRACK_GAIN |-> "gain", REPLAYGAIN_TRACK_PEAK |-> "peak",
          R128_TRACK_GAIN |-> "r128"]

RecordTag(calculator, tag) ==
  IF tag.name \in DOMAIN Kinds /\ tag.reads # <<>>
  THEN Record(calculator, Kinds[tag.name], Head(tag.reads)) ELSE calculator

\* readMetadata_() for the container and then for the stream.  What it would set
\* for Opus (lavc.cc:941) is left out: there is no codecContext_ yet when init()
\* reads metadata.
Calculated(media) ==
  FoldLeft(RecordTag,
    AcceptMore(FoldLeft(RecordTag, AcceptMore(NoGain), media.container)), media.stream)

\* EBU R128 is 5 dB lower than ReplayGain.
ConvertR128ToRG(r128) == r128 + 5

Preamp(params) ==
  LET wanted == Named(params, "replayGainPreamp", "float", Unsigned(0)).number
  IN  IF wanted > 192 THEN 192 ELSE Larger(wanted, -192)

\* gain(): the level in dB, and the peak that it must not take above the
\* range of a sample; nothing if there is no gain at all.
Gain(calculator, antipeak, preamp) ==
  IF calculator.gain = <<>> /\ calculator.r128 = <<>> THEN <<>>
  ELSE <<[level |-> preamp + (IF calculator.gain # <<>> THEN Head(calculator.gain)
                              ELSE ConvertR128ToRG(Head(calculator.r128))),
          peak  |-> IF antipeak /\ calculator.gain # <<>>
                    THEN SelectSeq(calculator.peak, LAMBDA peak : peak > 0)
                    ELSE <<>>]>>

\* The gain of the build with libavfilter is that of its filter "volume",
\* which knows ReplayGain only: setupFilter_() adds what R128 lacks.
FilterGain(params, media) ==
  LET tags == media.container \o media.stream
  IN  <<[raised |-> /\ Setting(params, "r128Fix", FALSE)
                    /\ \/ media.opus
                       \/ /\ \E i \in DOMAIN tags : tags[i].name = "R128_TRACK_GAIN"
                          /\ \A i \in DOMAIN tags : ~IsReplayGain(tags[i])]>>

OpenedGain(build, params, media) ==
  IF ~Setting(params, "applyReplayGain", FALSE) THEN <<>>
  ELSE IF build = "filter" THEN FilterGain(params, media)
  ELSE Gain(Calculated(media), Setting(params, "replayGainAntipeak", TRUE), Preamp(params))

=============================================================================
