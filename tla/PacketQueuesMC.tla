--------------------------- MODULE PacketQueuesMC ---------------------------
(* A file for PacketQueues: its first frame is not a key frame, the buffer *)
(* does not hold all of it, and its last packet is a subtitle.             *)
EXTENDS PacketQueues

P(x, t, k, b) == [stream |-> x, time |-> t, key |-> k, size |-> b]

ShortFile ==
  << P("video", 0, FALSE, 0), P("audio", 0, TRUE, 0), P("video", 10, TRUE, 0),
     P("audio", 10, TRUE, 0), P("subtitle", 0, TRUE, 1) >>
=============================================================================
