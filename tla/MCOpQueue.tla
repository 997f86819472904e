----------------------------- MODULE MCOpQueue ------------------------------
(* OpQueue for TLC: four operations, queued in every order.                *)
EXTENDS OpQueue

CONSTANTS start1, start2, stop1, rate1
MCOps == {start1, start2, stop1, rate1}
=============================================================================
