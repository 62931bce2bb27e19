--------------------------- MODULE MCTrackFormats ---------------------------
(* TrackFormats with all formats and a few frames.                         *)
EXTENDS TrackFormats

All == {"opus", "vorbis", "flac", "mp3", "pcm"}
=============================================================================
