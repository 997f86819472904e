--------------------------- MODULE MCMediaSource ----------------------------
(* What the server sends in the small instances: a description and two     *)
(* packets for the streams; and what a piece of them may look like.         *)
EXTENDS MediaSource

LooksLike ==
    {[op |-> "ServerSample", size |-> 1], [op |-> "Unknown", size |-> 0],
     [op |-> "ServerDescription", size |-> MaxPacketSize + 1]}

Answers ==
    {<<[op |-> "ServerDescription", size |-> 1],
       [op |-> "ServerSample", size |-> 2],
       [op |-> "ServerFormatChange", size |-> 1]>>}
=============================================================================
