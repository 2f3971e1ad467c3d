---------------------------- MODULE VideoEngine ----------------------------
(***************************************************************************)
(* The synchronous video engine of avos (Source/stream_video.c, stream.c): *)
(* the engine thread that runs _stream_player_sync, the decode thread it   *)
(* hands one frame at a time to, the parser thread, and the application    *)
(* thread that pauses, seeks, changes a stream and stops, over the thread  *)
(* state handles of ThreadState.                                           *)
(*                                                                         *)
(* The stream has video and uses the frames of its sink                    *)
(* (use_sink_frames).  Chunks are one bit: is s->cdata_now valid.  Frames  *)
(* are model values, frame queues are sets: their order is of no           *)
(* consequence here.  A call on a queue or on the sink is one action.      *)
(***************************************************************************)
EXTENDS Naturals, FiniteSets

CONSTANTS Frames,      \* the frames the sink allocated
          NoFrame,     \* the NULL frame
          Operations,  \* what the application does: see Operation below
          MayDrop,     \* whether _droppable may hold (MJPEG, or B frames)
          PlayN        \* frames asked for by a seek (10 in the code)

ASSUME FramesAssumption == IsFiniteSet(Frames) /\ NoFrame \notin Frames
ASSUME PlayNAssumption == PlayN \in Nat \ {0}
ASSUME MayDropAssumption == MayDrop \in BOOLEAN

Operation == {"pause", "un_pause", "seek", "set_speed", "set_stream", "stop"}
ASSUME OperationsAssumption == Operations \subseteq Operation

VARIABLES
  got, asked, sleepers,  \* the handles of the engine and parser threads
  epc, ppc, dpc, apc,    \* where the engine, parser, decode and app thread are
  op,          \* the operation the application is in
  after,       \* the handle of the thread_state_set it waits in, and where it
               \* goes on when that returns
  was_paused,  \* its local variable of that name
  paused,      \* s->paused
  seek,        \* s->seek: chunks are not fetched
  cdata,       \* s->cdata_now.valid
  play_n,      \* s->play_n_video_frames
  drop,        \* s->drop > 0: audio is ahead, a frame is to be dropped
  video_state, \* s->video_state
  codec_run,   \* s->codec_run
  done,        \* s->vcodec.done
  data,        \* s->vcodec.data # NULL
  vframe,      \* s->vcodec.decode_frame
  eframe,      \* s->decode_frame
  decoding,    \* what the decoder was given: [frame, data]
  decode_q, disp_q, sink,  \* the frames in the two queues and in the sink
  crashed      \* the process is gone: it wrote through a NULL frame

handleVars == <<got, asked, sleepers>>
appVars    == <<apc, op, after, was_paused>>
codecVars  == <<codec_run, done, data, vframe, decoding>>
frameVars  == <<eframe, decode_q, disp_q, sink>>
streamVars == <<paused, seek, cdata, play_n, drop, video_state>>
vars == <<handleVars, epc, ppc, dpc, appVars, codecVars, frameVars, streamVars,
          crashed>>

TS == INSTANCE ThreadState WITH Handles <- {"engine", "parser"},
                                Threads <- {"engine", "parser", "app"}

AppPC ==
  {"start", "start_engine", "out", "in_set", "pausing", "pause_wait", "idle_parser",
   "idle", "seek_init", "seeking", "seek_ok", "seek_err", "run_parser", "play",
   "playing", "played", "resume_parser", "idle_engine", "changing", "run_engine",
   "un_pause", "exit_engine", "join_engine", "exit_parser", "join_parser",
   "stop_codec", "wake_codec", "join_codec", "closed"}

TypeOK ==
  /\ TS!HandleTypeOK
  /\ epc \in {"top", "ack", "again", "test", "get", "submit", "signal", "poll", "gone"}
  /\ ppc \in {"top", "ack", "parse", "gone"}
  /\ dpc \in {"top", "lock", "decode", "answer", "asleep", "gone"}
  /\ apc \in AppPC /\ op \in Operation \cup {"start"}
  /\ after \in {"engine", "parser"} \X AppPC
  /\ {was_paused, paused, seek, cdata, drop, codec_run, data, crashed} \subseteq BOOLEAN
  /\ play_n \in 0..PlayN
  /\ video_state \in {"VID_CALL_DECODER", "VID_WAITING_FOR_DEC_RSP"}
  /\ done \in 0..2
  /\ {vframe, eframe} \subseteq Frames \cup {NoFrame}
  /\ decoding \in [frame : Frames \cup {NoFrame}, data : BOOLEAN]
  /\ decode_q \subseteq Frames /\ disp_q \subseteq Frames /\ sink \subseteq Frames

(***************************************************************************)
(* stream_open has initialised the handles, the queues and the mutexes and *)
(* created the threads; the stream is paused.  It goes on to set the       *)
(* parser and then the engine to RUNNING, in the application's thread.     *)
(***************************************************************************)
Init ==
  /\ TS!thread_state_init
  /\ epc = "top" /\ ppc = "top" /\ dpc = "top"
  /\ apc = "start" /\ op = "start" /\ after = <<"parser", "start_engine">> /\ was_paused = FALSE
  /\ paused = TRUE /\ seek = FALSE /\ cdata = FALSE /\ play_n = 0 /\ drop = FALSE
  /\ video_state = "VID_CALL_DECODER"
  /\ codec_run = TRUE /\ done = 0 /\ data = FALSE
  /\ vframe = NoFrame /\ eframe = NoFrame
  /\ decoding = [frame |-> NoFrame, data |-> FALSE]
  /\ decode_q = Frames /\ disp_q = {} /\ sink = {}
  /\ crashed = FALSE

-----------------------------------------------------------------------------
(***************************************************************************)
(* The engine thread: _player_thread around _stream_player_sync.           *)
(***************************************************************************)
EngineKeeps == UNCHANGED <<ppc, appVars, codec_run, crashed>>

Goto(pc) == epc' = pc

EngineAck ==
  /\ epc = "top"
  /\ got["engine"] # "exit"
  /\ TS!AckEnter("engine")
  /\ Goto(CASE asked["engine"] = "idle" -> "ack"
            [] asked["engine"] = "running" -> "again"
            [] OTHER -> "top")
  /\ UNCHANGED <<dpc, codecVars, frameVars, streamVars>> /\ EngineKeeps

EngineWake ==
  /\ epc = "ack"
  /\ \/ TS!AckSleepAgain("engine") /\ Goto("ack")
     \/ TS!AckReturn("engine") /\ Goto(IF got["engine"] = "running" THEN "again"
                                                                    ELSE "top")
  /\ UNCHANGED <<dpc, codecVars, frameVars, streamVars>> /\ EngineKeeps

EngineExit ==
  /\ epc = "top"
  /\ got["engine"] = "exit"
  /\ Goto("gone")
  /\ UNCHANGED <<handleVars, dpc, codecVars, frameVars, streamVars>> /\ EngineKeeps

(* _get_next_chunk: the parser may have a chunk when one is wanted. *)
GetNextChunk == cdata' \in IF cdata \/ seek THEN {cdata} ELSE BOOLEAN

(* DECODE_AGAIN: take back what the sink has shown, look for a chunk. *)
QueueSinkFrames ==
  /\ epc = "again"
  /\ \E shown \in SUBSET sink :
       /\ sink' = sink \ shown
       /\ decode_q' = decode_q \cup shown
  /\ GetNextChunk
  /\ Goto("test")
  /\ UNCHANGED <<handleVars, dpc, codecVars, eframe, disp_q, paused, seek, play_n,
                 drop, video_state>>
  /\ EngineKeeps

(***************************************************************************)
(* output_frames with the display queue dq: one frame, or all of them when *)
(* the sink has put_time, each put in the sink, which ends the frames a    *)
(* seek asked for, or discarded as not valid.  left is what else remains   *)
(* of play_n.                                                              *)
(***************************************************************************)
OutputFrames(dq, left) ==
  \E shown, discarded \in SUBSET dq :
    /\ shown \cap discarded = {}
    /\ dq # {} => shown \cup discarded # {}
    /\ disp_q' = dq \ (shown \cup discarded)
    /\ sink' = sink \cup shown
    /\ decode_q' = decode_q \cup discarded
    /\ play_n' = IF shown = {} THEN left ELSE 0
    /\ drop' = (drop /\ shown = {})

(* Before the decoder's answer: not while paused, nor when the sink is full. *)
OutputMeanwhile ==
  \/ UNCHANGED <<decode_q, disp_q, sink, play_n, drop>>
  \/ ~paused /\ OutputFrames(disp_q, play_n)

(* The pause is tested here and not again before the submit. *)
PauseTest ==
  /\ epc = "test"
  /\ Goto(IF paused /\ play_n = 0 THEN "top" ELSE "get")
  /\ UNCHANGED <<handleVars, dpc, codecVars, frameVars, streamVars>> /\ EngineKeeps

(* Nothing to decode. *)
NoChunkLeft ==
  /\ epc = "get" /\ ~cdata
  /\ Goto("top")
  /\ UNCHANGED <<handleVars, dpc, codecVars, frameVars, streamVars>> /\ EngineKeeps

NoFrameLeft ==
  /\ epc = "get" /\ cdata
  /\ decode_q = {}
  /\ eframe' = NoFrame
  /\ OutputMeanwhile
  /\ Goto("top")
  /\ UNCHANGED <<handleVars, dpc, codecVars, paused, seek, cdata, video_state>>
  /\ EngineKeeps

GetDecodeFrame ==
  /\ epc = "get" /\ cdata
  /\ \E f \in decode_q : eframe' = f /\ decode_q' = decode_q \ {f}
  /\ drop' \in IF paused \/ ~MayDrop THEN {drop} ELSE BOOLEAN
  /\ Goto("submit")
  /\ UNCHANGED <<handleVars, dpc, codecVars, disp_q, sink, paused, seek, cdata,
                 play_n, video_state>>
  /\ EngineKeeps

(* Mutant of FreeAllFrames: forgets what the sink still has. *)
FreeQueuedFrames ==
  /\ eframe' = NoFrame
  /\ decode_q' = Frames /\ disp_q' = {} /\ UNCHANGED sink

(* _free_all_frames: every frame of the sink is back in decode_q. *)
FreeAllFrames ==
  /\ eframe' = NoFrame
  /\ decode_q' = Frames /\ disp_q' = {} /\ sink' = {}

(* stream_sync set drop_P: forget the pipeline, wait for a key frame. *)
DropPipeline ==
  /\ epc = "submit" /\ MayDrop /\ ~paused
  /\ cdata' = FALSE /\ drop' = FALSE
  /\ FreeAllFrames
  /\ Goto("again")
  /\ UNCHANGED <<handleVars, dpc, codecVars, paused, seek, play_n, video_state>>
  /\ EngineKeeps

DropFrame ==
  /\ epc = "submit" /\ drop
  /\ drop' = FALSE
  /\ video_state' = "VID_WAITING_FOR_DEC_RSP"
  /\ cdata' = FALSE
  /\ decode_q' = decode_q \cup ({eframe} \ {NoFrame})
  /\ eframe' = NoFrame
  /\ Goto("again")
  /\ UNCHANGED <<handleVars, dpc, codecVars, disp_q, sink, paused, seek, play_n>>
  /\ EngineKeeps

(* Fill in the frame and s->vcodec, without codec_mutex. *)
Submit ==
  /\ epc = "submit" /\ ~drop
  /\ video_state' = "VID_WAITING_FOR_DEC_RSP"
  /\ IF eframe = NoFrame
     THEN crashed' = TRUE /\ UNCHANGED <<epc, data, vframe>>
     ELSE data' = TRUE /\ vframe' = eframe /\ Goto("signal") /\ UNCHANGED crashed
  /\ UNCHANGED <<handleVars, ppc, dpc, appVars, codec_run, done, decoding, frameVars,
                 paused, seek, cdata, play_n, drop>>

(* The decode thread holds codec_mutex while it decodes. *)
CodecMutexFree == dpc \notin {"decode", "answer"}

(* Mutant of WakeDecoder: codec_code is not signalled. *)
DecoderSleepsOn == UNCHANGED dpc

WakeDecoder == dpc' = IF dpc = "asleep" THEN "top" ELSE dpc

(* Set the flag last, under codec_mutex; then output while it decodes. *)
Signal ==
  /\ epc = "signal"
  /\ CodecMutexFree
  /\ done' = 1
  /\ WakeDecoder
  /\ OutputMeanwhile
  /\ Goto("poll")
  /\ UNCHANGED <<handleVars, codec_run, data, vframe, decoding, eframe, paused, seek,
                 cdata, video_state>>
  /\ EngineKeeps

(* Mutant of Answered: the flag left by the request is taken for an answer. *)
AskedOrAnswered == done # 0

Answered == done = 2

(* While it polls, the engine may fetch the next chunk. *)
PollFetch ==
  /\ epc = "poll" /\ ~Answered /\ asked["engine"] = "running" /\ ~paused
  /\ GetNextChunk
  /\ UNCHANGED <<epc, handleVars, dpc, codecVars, frameVars, paused, seek, play_n,
                 drop, video_state>>
  /\ EngineKeeps

(* _engine_abort: the player returns at once, with the decode in flight. *)
PollAbort ==
  /\ epc = "poll" /\ ~Answered /\ asked["engine"] # "running"
  /\ Goto("top")
  /\ UNCHANGED <<handleVars, dpc, codecVars, frameVars, streamVars>> /\ EngineKeeps

(* Mutant of FramesLeft: counts down although no frames were asked for. *)
FramesLeftUnguarded == play_n - 1

FramesLeft == IF play_n > 0 THEN play_n - 1 ELSE 0

(* The decoder answered: queue its frame for display, eat the chunk. *)
Finish ==
  /\ epc = "poll" /\ Answered
  /\ eframe' = NoFrame
  /\ cdata' \in {cdata, FALSE}
  /\ LET dq == disp_q \cup ({vframe} \ {NoFrame})
     IN  IF paused THEN OutputFrames(dq, FramesLeft)
         ELSE disp_q' = dq /\ play_n' = FramesLeft /\ UNCHANGED <<decode_q, sink, drop>>
  /\ video_state' = "VID_CALL_DECODER"
  /\ Goto("top")
  /\ UNCHANGED <<handleVars, dpc, codecVars, paused, seek>> /\ EngineKeeps

Player == \/ QueueSinkFrames \/ PauseTest \/ NoChunkLeft \/ NoFrameLeft \/ GetDecodeFrame
          \/ DropPipeline \/ DropFrame \/ Submit \/ Signal \/ PollFetch \/ PollAbort
          \/ Finish
Engine == EngineAck \/ EngineWake \/ EngineExit \/ Player

-----------------------------------------------------------------------------
(***************************************************************************)
(* The decode thread: _decode_thread.                                      *)
(***************************************************************************)
DecodeKeeps == UNCHANGED <<handleVars, epc, ppc, appVars, frameVars, streamVars, crashed>>

DecodeTest ==
  /\ dpc = "top"
  /\ dpc' = IF codec_run THEN "lock" ELSE "gone"
  /\ UNCHANGED codecVars /\ DecodeKeeps

(* With codec_mutex: decode what is asked for, or wait for codec_code. *)
DecodeLock ==
  /\ dpc = "lock"
  /\ IF done = 1
     THEN dpc' = "decode" /\ decoding' = [frame |-> vframe, data |-> data]
     ELSE dpc' = "asleep" /\ UNCHANGED decoding
  /\ UNCHANGED <<codec_run, done, data, vframe>> /\ DecodeKeeps

(* decode2 gives its frame back, or fails and gives none. *)
VideoDecode ==
  /\ dpc = "decode"
  /\ vframe' \in {decoding.frame, vframe}
  /\ data' = FALSE
  /\ dpc' = "answer"
  /\ UNCHANGED <<codec_run, done, decoding>> /\ DecodeKeeps

(* Answer, and wait for codec_code, which releases codec_mutex. *)
DecodeAnswer ==
  /\ dpc = "answer"
  /\ done' = 2
  /\ dpc' = "asleep"
  /\ UNCHANGED <<codec_run, data, vframe, decoding>> /\ DecodeKeeps

Decoder == DecodeTest \/ DecodeLock \/ VideoDecode \/ DecodeAnswer

DecoderSpurious ==
  /\ dpc = "asleep"
  /\ dpc' = "top"
  /\ UNCHANGED codecVars /\ DecodeKeeps

-----------------------------------------------------------------------------
(***************************************************************************)
(* The parser thread: _parser_thread.                                      *)
(***************************************************************************)
ParserKeeps ==
  UNCHANGED <<epc, dpc, appVars, codecVars, frameVars, streamVars, crashed>>

MayParse == ~paused \/ play_n > 0

ParserAck ==
  /\ ppc = "top"
  /\ got["parser"] # "exit"
  /\ TS!AckEnter("parser")
  /\ ppc' = CASE asked["parser"] = "idle" -> "ack"
              [] asked["parser"] = "running" /\ MayParse -> "parse"
              [] OTHER -> "top"
  /\ ParserKeeps

ParserWake ==
  /\ ppc = "ack"
  /\ \/ TS!AckSleepAgain("parser") /\ ppc' = "ack"
     \/ TS!AckReturn("parser") /\ ppc' = "top"
  /\ ParserKeeps

Parse ==
  /\ ppc = "parse"
  /\ ppc' = "top"
  /\ UNCHANGED handleVars /\ ParserKeeps

ParserExit ==
  /\ ppc = "top"
  /\ got["parser"] = "exit"
  /\ ppc' = "gone"
  /\ UNCHANGED handleVars /\ ParserKeeps

Parser == ParserAck \/ ParserWake \/ Parse \/ ParserExit

-----------------------------------------------------------------------------
(***************************************************************************)
(* The application thread.  avos_mp.c serialises the calls: one operation  *)
(* at a time.  apc names the call it is about to make or is inside of.     *)
(***************************************************************************)
AppKeeps == UNCHANGED <<epc, ppc, crashed>>
KeepHandles == UNCHANGED handleVars
KeepPlayer == UNCHANGED <<dpc, codecVars, frameVars>>
Continue(to) == apc' = to /\ UNCHANGED <<op, after, was_paused>>

(* Mutant of AppSet: asks, as thread_state_ask_pause does, without waiting. *)
AppAsk(at, h, new, to) ==
  /\ apc = at
  /\ asked' = [asked EXCEPT ![h] = new]
  /\ sleepers' = [sleepers EXCEPT ![h] = {}]
  /\ Continue(to)
  /\ UNCHANGED <<got, streamVars>> /\ KeepPlayer /\ AppKeeps

(* thread_state_set( h, new ) at "at", going on at "to". *)
AppSet(at, h, new, to) ==
  /\ apc = at
  /\ TS!SetEnter(h, "app", new)
  /\ IF got[h] = new THEN apc' = to /\ UNCHANGED after
                     ELSE apc' = "in_set" /\ after' = <<h, to>>
  /\ UNCHANGED <<op, was_paused, streamVars>> /\ KeepPlayer /\ AppKeeps

AppInSet ==
  /\ apc = "in_set"
  /\ \/ TS!SetSleepAgain(after[1], "app") /\ UNCHANGED appVars
     \/ TS!SetReturn(after[1], "app") /\ Continue(after[2])
  /\ UNCHANGED streamVars /\ KeepPlayer /\ AppKeeps

(* The end of stream_open: run the parser, then the engine. *)
Start == \/ AppSet("start", "parser", "running", "start_engine")
         \/ AppSet("start_engine", "engine", "running", "out")

(* stream_un_pause: on its own, and with was_paused at the end of others. *)
UnPause(from, was) ==
  /\ apc = from
  /\ paused' = (paused /\ was)
  /\ drop' = (drop /\ was)
  /\ UNCHANGED <<after, was_paused, seek, cdata, play_n, video_state>>
  /\ KeepHandles /\ KeepPlayer /\ AppKeeps

Begin ==
  /\ apc = "out"
  /\ op' \in Operations
  /\ apc' = CASE op' = "un_pause" -> "un_pause"
              [] op' = "seek" -> "idle_parser"
              [] OTHER -> "pausing"
  /\ was_paused' = FALSE
  /\ UNCHANGED <<after, streamVars>> /\ KeepHandles /\ KeepPlayer /\ AppKeeps

Resume ==
  /\ UnPause("un_pause", was_paused)
  /\ apc' = "out" /\ UNCHANGED op

(* stream_pause: set the flag, then wait for the player to be idle. *)
stream_pause ==
  /\ apc = "pausing"
  /\ was_paused' = paused
  /\ paused' = TRUE
  /\ apc' = "pause_wait"
  /\ UNCHANGED <<op, after, seek, cdata, play_n, drop, video_state>>
  /\ KeepHandles /\ KeepPlayer /\ AppKeeps

(* _stream_wait_for_idle ends: the player is idle, or a second has passed. *)
WaitedForIdle(from, to) ==
  /\ apc = from
  /\ Continue(to)
  /\ UNCHANGED streamVars /\ KeepHandles /\ KeepPlayer /\ AppKeeps

(* The result of the wait in stream_pause is not looked at. *)
PauseWaited ==
  WaitedForIdle("pause_wait", CASE op = "pause" -> "out"
                                [] op = "set_stream" -> "idle_engine"
                                [] op = "stop" -> "exit_engine"
                                [] OTHER -> "idle")

PlayerIdle == video_state = "VID_CALL_DECODER"

Idle ==
  /\ PlayerIdle
  /\ WaitedForIdle("idle", IF op = "seek" THEN "seek_init" ELSE "idle_engine")

(* Mutant of IdleTimeout: gives up without running the parser again. *)
IdleTimeoutLeaves == WaitedForIdle("idle", "un_pause")

IdleTimeout == WaitedForIdle("idle", "resume_parser")

(* _seek_init, and the parser's seek, of which only the result counts. *)
seek_init ==
  /\ apc = "seek_init"
  /\ seek' = TRUE /\ cdata' = FALSE
  /\ Continue("seeking")
  /\ UNCHANGED <<paused, play_n, drop, video_state>>
  /\ KeepHandles /\ KeepPlayer /\ AppKeeps

ParserSeeks ==
  /\ apc = "seeking"
  /\ \E to \in {"seek_ok", "seek_err"} : Continue(to)
  /\ UNCHANGED streamVars /\ KeepHandles /\ KeepPlayer /\ AppKeeps

video_init ==
  /\ apc \in {"seek_ok", "seek_err"}
  /\ FreeAllFrames
  /\ seek' = FALSE /\ drop' = FALSE
  /\ Continue(IF apc = "seek_ok" THEN "run_parser" ELSE "resume_parser")
  /\ UNCHANGED <<paused, cdata, play_n, video_state>>
  /\ UNCHANGED <<dpc, codecVars>> /\ KeepHandles /\ AppKeeps

(* _stream_play_n_frames: ends when they have played, or after a second. *)
PlayFrames ==
  /\ apc = "play"
  /\ play_n' = PlayN /\ drop' = FALSE
  /\ Continue("playing")
  /\ UNCHANGED <<paused, seek, cdata, video_state>>
  /\ KeepHandles /\ KeepPlayer /\ AppKeeps

Played == \/ WaitedForIdle("playing", "played")
          \/ WaitedForIdle("played", "resume_parser")

SeekSets == \/ AppSet("idle_parser", "parser", "idle", "pausing")
            \/ AppSet("run_parser", "parser", "running", "play")
            \/ AppSet("resume_parser", "parser", "running", "un_pause")

(* stream_set_speed, stream_set_audio_stream, stream_set_subtitle_stream,  *)
(* stream_check_subtitles: change what the engine works with.              *)
Change == WaitedForIdle("changing", "run_engine")

ChangeSets == \/ AppSet("idle_engine", "engine", "idle", "changing")
              \/ AppSet("run_engine", "engine", "running", "un_pause")

(* stream_close: ask to exit and join, one thread after the other. *)
StopSets == \/ AppSet("exit_engine", "engine", "exit", "join_engine")
            \/ AppSet("exit_parser", "parser", "exit", "join_parser")

StopJoins ==
  \/ epc = "gone" /\ WaitedForIdle("join_engine", "exit_parser")
  \/ ppc = "gone" /\ WaitedForIdle("join_parser", "stop_codec")
  \/ dpc = "gone" /\ WaitedForIdle("join_codec", "closed")

(* codec_run is cleared without codec_mutex. *)
StopCodec ==
  /\ apc = "stop_codec"
  /\ codec_run' = FALSE
  /\ Continue("wake_codec")
  /\ UNCHANGED <<dpc, done, data, vframe, decoding, frameVars, streamVars>>
  /\ KeepHandles /\ AppKeeps

WakeCodec ==
  /\ apc = "wake_codec"
  /\ CodecMutexFree
  /\ WakeDecoder
  /\ Continue("join_codec")
  /\ UNCHANGED <<codecVars, frameVars, streamVars>> /\ KeepHandles /\ AppKeeps

App == \/ AppInSet \/ Start \/ Resume \/ stream_pause \/ PauseWaited \/ Idle
       \/ IdleTimeout \/ seek_init \/ ParserSeeks \/ video_init \/ PlayFrames
       \/ Played \/ SeekSets \/ Change \/ ChangeSets
       \/ StopSets \/ StopJoins \/ StopCodec \/ WakeCodec

HandleSpurious ==
  /\ \E h \in {"engine", "parser"} :
       \E t \in sleepers[h] : TS!SpuriousWakeup(h, t)
  /\ UNCHANGED <<epc, ppc, streamVars, appVars, crashed>> /\ KeepPlayer

Next ==
  /\ ~crashed
  /\ Engine \/ Decoder \/ Parser \/ App \/ Begin \/ DecoderSpurious \/ HandleSpurious

(***************************************************************************)
(* Every thread is scheduled, a decode ends, and a wait that has a timeout *)
(* ends.  Nothing makes the application begin an operation, nothing makes  *)
(* a wakeup spurious.                                                      *)
(***************************************************************************)
Fairness ==
  /\ WF_vars(~crashed /\ Engine)
  /\ WF_vars(~crashed /\ Decoder)
  /\ WF_vars(~crashed /\ Parser)
  /\ WF_vars(~crashed /\ App)

Spec == Init /\ [][Next]_vars
FairSpec == Spec /\ Fairness

-----------------------------------------------------------------------------
(***************************************************************************)
(* Properties.                                                             *)
(***************************************************************************)
(* No frame is lost and none is in two places: each is in one of the two   *)
(* queues, in the sink, or is the one the engine holds.                    *)
Parts == <<decode_q, disp_q, sink, {eframe} \ {NoFrame}>>
FramePartition ==
  /\ decode_q \cup disp_q \cup sink \cup ({eframe} \ {NoFrame}) = Frames
  /\ \A i, j \in 1..4 : i # j => Parts[i] \cap Parts[j] = {}

(* The frame the decode thread writes into is in no queue and not in the   *)
(* sink, where it would be shown or given out again meanwhile.             *)
DecodeTargetExclusive ==
  dpc = "decode" => decoding.frame \notin decode_q \cup disp_q \cup sink

(* "call decoder, set flag last!!!": when the decode thread sees the flag, *)
(* it has data to decode.                                                  *)
DecodeHasData == dpc = "decode" => decoding.data

(* A decode that was asked for is answered, or given up because the engine *)
(* is asked to do something else: the engine does not poll for ever.       *)
DecodeAnswered == epc = "poll" ~> epc # "poll"

(* stream_close gets past the threads with a state handle: whatever they   *)
(* are doing, they see that they are asked to exit.                        *)
StopJoinsPlayers == apc = "exit_engine" ~> apc = "stop_codec"

(* "stop all threads": stream_stop ends.                                   *)
StopEnds == apc = "exit_engine" ~> apc = "closed"

(* An operation, also one that gave up on a timeout or an error, leaves    *)
(* both threads running and the stream paused or not as it found it.       *)
OperationRestores ==
  apc = "out" /\ op \in {"seek", "set_speed", "set_stream"} =>
    /\ \A h \in {"engine", "parser"} : asked[h] = "running" /\ got[h] = "running"
    /\ paused = was_paused

(* While the application thread is inside parser->seek_time or seek_pos,   *)
(* the parser thread is not inside parser->parse.                          *)
SeekParserExclusive == apc = "seeking" => ppc # "parse"

(* While decoders and sinks are exchanged, the engine is not in the player *)
(* ("idle threads to make sure they are at a known state").                *)
EngineOwned == apc = "changing" => epc \in {"top", "ack"}

(* Every operation ends, unless the process has died.                      *)
OperationEnds == apc # "out" ~> apc = "out" \/ crashed

Players == {"engine", "parser"}

(* Is the thread one that the operation has idled: the parser while it     *)
(* seeks, the engine while it changes what the engine works with?          *)
IdledBy(h) ==
  IF h = "engine" THEN apc \in {"changing", "run_engine"}
  ELSE \/ apc \in {"seek_init", "seeking", "seek_ok", "seek_err", "run_parser"}
       \/ apc \in {"pausing", "pause_wait", "idle"} /\ op = "seek"

(* Where the thread is, for the handle's promise. *)
ThreadAt(h) ==
  LET pc == IF h = "engine" THEN epc ELSE ppc
  IN  CASE pc \in {"top", "ack"} -> "out" [] pc = "gone" -> "gone" [] OTHER -> "in"

Gate == INSTANCE WorkerGate
  WITH Workers <- Players, Masters <- {"app"},
       worker <- [h \in Players |-> ThreadAt(h)],
       owners <- [h \in Players |-> IF IdledBy(h) THEN {"app"} ELSE {}]
(* The operations own the threads that they have idled, from the answer on *)
(* until they let them run: the handles' promise is what they rely on, and *)
(* what they keep (_stream_seek_real, stream_set_speed, the loops).        *)
GateSpec == Gate!Spec
=============================================================================
