---------------------------- MODULE MCMediaSink -----------------------------
(* The streams of the sink, as model values for TLC.                       *)
EXTENDS MediaSink
CONSTANTS video, audio
=============================================================================
