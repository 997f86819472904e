----------------------------- MODULE MCSession ------------------------------
(* The streams of the sink, as model values for TLC.                       *)
EXTENDS Session
CONSTANTS video, audio
=============================================================================
