--------------------------- MODULE VideoEngineMC ---------------------------
(* Two frames of a sink: one can be decoded while the other is shown.      *)
EXTENDS VideoEngine

CONSTANTS f1, f2

PauseAndStop == {"pause", "un_pause", "stop"}
SeekOnly == {"seek", "un_pause"}
SeekAndChange == {"pause", "un_pause", "seek", "set_speed", "set_stream"}
=============================================================================
