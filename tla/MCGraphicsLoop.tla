--------------------------- MODULE MCGraphicsLoop ---------------------------
(* The graphics loop with two consumers of raw frames, which are alike.    *)
EXTENDS GraphicsLoop

Alike == Permutations(Consumers)
=============================================================================
