----------------------------- MODULE FrameClock -----------------------------
(***************************************************************************)
(* What the users of the video output are promised: every frame interval   *)
(* that a frame given to the output stands for is handed out, each exactly *)
(* once and in the order of time, however far behind the output is.        *)
(***************************************************************************)
EXTENDS Naturals

VARIABLE owed           \* the intervals given and not yet handed out

Init == owed = {}

(* A frame is given: it stands for later intervals, without a gap.         *)
Give ==
    \E before \in {owed}, after \in {owed'} :
        /\ before \subseteq after
        /\ \A new \in after \ before :
            /\ \A old \in before : old < new
            /\ \A later \in after \ before : new..later \subseteq after

(* The earliest interval is handed out.                                    *)
HandOut ==
    \E before \in {owed}, after \in {owed'} :
        \E t \in before :
            /\ \A other \in before : t <= other
            /\ after = before \ {t}

Next == Give \/ HandOut

Spec == Init /\ [][Next]_owed
=============================================================================
