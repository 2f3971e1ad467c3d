------------------------- MODULE ThreadHandshakeMC -------------------------
(* Two workers with one master.                                            *)
EXTENDS ThreadHandshake

CONSTANTS engine, parser, app

(* stream_set_speed, stream_set_audio_stream, stream_set_subtitle_stream: *)
(* the application is the only master of these handles.                   *)
OneMaster == [h \in {engine, parser} |-> {app}]
=============================================================================
