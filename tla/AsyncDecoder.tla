---------------------------- MODULE AsyncDecoder ----------------------------
(***************************************************************************)
(* Playback through the platform's decoder, the way Android plays it       *)
(* (Source/codec_sfdec2.c, frame_q.c, xdm_utils.c, libsfdec's MediaCodec   *)
(* backend, and _stream_player_async of Source/stream_video.c).            *)
(*                                                                         *)
(* Frames are small headers that carry the codec's output buffers: the     *)
(* engine gives an empty one to the decoder thread, which blocks in the    *)
(* codec for a picture; the engine passes the frame with its picture to    *)
(* the sink thread, which renders or drops it, and takes the frame back.   *)
(* Both threads, and the engine in a flush, share one mutex and one        *)
(* condition variable; a critical section is one action.  Calls of the     *)
(* codec are made outside it and are actions of their own.                 *)
(*                                                                         *)
(* A picture is the number of the input it was decoded from.  The codec    *)
(* (AMediaCodec) is not part of the repository: it is modelled from how    *)
(* libsfdec uses it.                                                       *)
(***************************************************************************)
EXTENDS Integers, Sequences

CONSTANTS NumFrames,   \* p->num_frames (sfdec_max_frames)
          Buffers,     \* the output buffers of the codec
          CodecMax,    \* the inputs the codec accepts before it gives a picture
          TsMax,       \* TS_MAX (32 in the code)
          SinkMax,     \* stream_sink_video_max (5 in the code)
          PlayN,       \* frames asked for by a seek (10 in the code)
          ReorderPts,  \* p->reorder_pts: the codec's times are used
          MayFail,     \* whether the codec may fail
          MaxIn,       \* a bound on the inputs of a behaviour
          MaxSeeks     \* a bound on its seeks

ASSUME SizesAssumption ==
  {NumFrames, Buffers, CodecMax, TsMax, SinkMax, PlayN} \subseteq Nat \ {0}
ASSUME BoundsAssumption == {MaxIn, MaxSeeks} \subseteq Nat
ASSUME FlagsAssumption == {ReorderPts, MayFail} \subseteq BOOLEAN

Frames == 1..NumFrames
Idx    == 1..Buffers

Queues == {"decode", "disp",        \* the engine's
           "dec", "out",            \* to and from the decoder thread
           "venc", "get"}           \* to and from the sink thread
Hands  == {"dec", "sink"}           \* the frame a thread has taken

VARIABLES
  q,          \* the frame queues
  hand,       \* the local variable f of a thread, 0 for none
  handle,     \* f->android_handle; NoHandle for NULL
  time,       \* f->time, 0 for -1
  run, error, state,  \* p->locked
  asleep,     \* the threads blocked in pthread_cond_wait
  codec_in,   \* the codec: inputs that have not become a picture,
  owned,      \* the picture in an output buffer it has lent out, or 0,
  cancelled,  \* whether the pending dequeue has been cancelled
  flush,      \* sfdec->flush
  ts,         \* the times in p->XDM_ctx
  dpc, got,   \* the decoder thread, and what sfdec_read has returned to it
  spc,        \* the sink thread
  epc,        \* the engine thread and, after it, the thread that closes
  video_flush, play_n, play_one, count,  \* s->video_flush,
              \* play_n_video_frames, play_n_video_one, video_sink_count
  apc, paused, was_paused, stop,         \* the application's thread
  sent, flushed, shown, seeks  \* pictures sent, sent before the last flush,
                               \* the last one shown; seeks so far

frameVars  == <<q, hand, handle, time>>
lockedVars == <<run, error, state, asleep>>
codecVars  == <<codec_in, owned, cancelled, flush>>
decVars    == <<dpc, got>>
engineVars == <<epc, video_flush, play_n, play_one, count>>
appVars    == <<apc, paused, was_paused, stop, seeks>>
inputVars  == <<ts, sent, flushed>>
vars == <<frameVars, lockedVars, codecVars, decVars, spc, engineVars, appVars,
          inputVars, shown>>

NoHandle == [pic |-> 0, idx |-> 0, released |-> TRUE]
NoBuf    == [ret |-> 0, pic |-> 0, idx |-> 0]
Failed   == [NoBuf EXCEPT !.ret = -1]
Flags    == {"reading", "rendering", "flushing"}

FrameType ==
  /\ q \in [Queues -> Seq(Frames)] /\ hand \in [Hands -> Frames \cup {0}]
  /\ handle \in [Frames -> [pic : Nat, idx : Idx \cup {0}, released : BOOLEAN]]
  /\ time \in [Frames -> Nat]

LockedType ==
  /\ run \in BOOLEAN /\ error \in BOOLEAN /\ state \subseteq Flags
  /\ asleep \subseteq {"dec", "sink", "engine"}

CodecType ==
  /\ codec_in \in Seq(Nat) /\ owned \in [Idx -> Nat]
  /\ cancelled \in BOOLEAN /\ flush \in BOOLEAN
  /\ got \in [ret : {0, -1}, pic : Nat, idx : Idx \cup {0}]

PcType ==
  /\ dpc \in {"top", "wait", "release", "read", "got", "gone"}
  /\ spc \in {"top", "wait", "pace", "render", "drop", "done", "gone"}
  /\ epc \in {"top", "flush", "sink", "put", "get", "show", "send", "stamp", "close",
              "codec", "join", "closed"}
  /\ apc \in {"idle", "flush", "one", "arm", "wait", "stopped"}

StreamType ==
  /\ video_flush \in BOOLEAN /\ play_n \in 0..PlayN /\ play_one \in BOOLEAN
  /\ count \in Int
  /\ paused \in BOOLEAN /\ was_paused \in BOOLEAN /\ stop \in BOOLEAN
  /\ ts \in Seq(Nat)
  /\ sent \in Nat /\ flushed \in Nat /\ shown \in Nat /\ seeks \in Nat

TypeOK == FrameType /\ LockedType /\ CodecType /\ PcType /\ StreamType

(* The decoder and the sink are open, the sink has every frame, though   *)
(* video_sink_count is 0; the engine is idle and the stream paused.       *)
Init ==
  /\ q = [n \in Queues |-> IF n = "get" THEN [f \in Frames |-> f] ELSE <<>>]
  /\ hand = [h \in Hands |-> 0]
  /\ handle = [f \in Frames |-> NoHandle] /\ time = [f \in Frames |-> 0]
  /\ run = TRUE /\ error = FALSE /\ state = {} /\ asleep = {}
  /\ codec_in = <<>> /\ owned = [i \in Idx |-> 0] /\ cancelled = FALSE /\ flush = TRUE
  /\ ts = <<>> /\ sent = 0 /\ flushed = 0 /\ shown = 0 /\ seeks = 0
  /\ dpc = "top" /\ got = NoBuf /\ spc = "top"
  /\ epc = "top" /\ video_flush = FALSE /\ play_n = 0 /\ play_one = FALSE
  /\ count = 0
  /\ apc = "idle" /\ paused = TRUE /\ was_paused = TRUE /\ stop = FALSE

-----------------------------------------------------------------------------
(* Mutant of Woken: set_state_l without its broadcast. *)
NobodyWoken(s) == asleep

(* set_state_l: a change of the state, and only a change, wakes the others. *)
Woken(s)      == IF s = state THEN asleep ELSE {}
SetState(s)   == state' = s /\ asleep' = Woken(s)
Sleep(t, s)   == state' = s /\ asleep' = Woken(s) \cup {t}

(* Mutant of Broadcast: a frame is queued without a wakeup. *)
NoBroadcast == UNCHANGED asleep

Broadcast == asleep' = {}

(* frame_q_get, frame_q_put, frame_q_put_head. *)
Move(from, to) == q' = [q EXCEPT ![from] = Tail(@), ![to] = Append(@, Head(q[from]))]
Take(from, h)  == /\ q' = [q EXCEPT ![from] = Tail(@)]
                  /\ hand' = [hand EXCEPT ![h] = Head(q[from])]
Put(h, to)     == /\ q' = [q EXCEPT ![to] = Append(@, hand[h])]
                  /\ hand' = [hand EXCEPT ![h] = 0]

(* Mutant of PutHead: the frame is not put back. *)
Forget(h, to) == UNCHANGED q /\ hand' = [hand EXCEPT ![h] = 0]

PutHead(h, to) == /\ q' = [q EXCEPT ![to] = <<hand[h]>> \o @]
                  /\ hand' = [hand EXCEPT ![h] = 0]

(* frame_release of the frames F: what has not been rendered goes back. *)
FrameRelease(F) ==
  LET back == {handle[f].idx : f \in {g \in F : ~handle[g].released}}
  IN  /\ owned' = [i \in Idx |-> IF i \in back THEN 0 ELSE owned[i]]
      /\ handle' = [f \in Frames |-> IF f \in F THEN NoHandle ELSE handle[f]]

(* sfdec_flush: the codec takes back every buffer and cancels a dequeue    *)
(* that is pending, not one that is about to be made.                      *)
CodecFlush ==
  /\ flush' = TRUE
  /\ codec_in' = <<>> /\ owned' = [i \in Idx |-> 0]
  /\ cancelled' = (dpc = "read")

-----------------------------------------------------------------------------
(***************************************************************************)
(* The decoder thread, videodec_thread.  It sleeps during a flush and      *)
(* while it has no frame, and tells the others when it is not reading.     *)
(***************************************************************************)
DecKeeps == UNCHANGED <<spc, engineVars, appVars, sent, flushed, shown, run>>

DecAwake == \/ dpc = "top" /\ run /\ ~error
            \/ dpc = "wait" /\ "dec" \notin asleep

DecSleep ==
  /\ DecAwake
  /\ "flushing" \in state \/ (run /\ ~error /\ q["dec"] = <<>>)
  /\ Sleep("dec", state \ {"reading"})
  /\ dpc' = "wait"
  /\ UNCHANGED <<frameVars, codecVars, got, ts, error>> /\ DecKeeps

DecTake ==
  /\ DecAwake
  /\ "flushing" \notin state /\ run /\ ~error /\ q["dec"] # <<>>
  /\ Take("dec", "dec")
  /\ SetState(state \cup {"reading"})
  /\ dpc' = "release"
  /\ UNCHANGED <<handle, time, codecVars, got, ts, error>> /\ DecKeeps

(* Told to stop, or after an error: from the wait by way of "reading". *)
DecExit ==
  /\ ~run \/ error
  /\ \/ dpc = "top" /\ SetState(state \ {"reading"})
     \/ /\ dpc = "wait" /\ "dec" \notin asleep /\ "flushing" \notin state
        /\ state' = state \ {"reading"} /\ Broadcast
  /\ dpc' = "gone"
  /\ UNCHANGED <<frameVars, codecVars, got, ts, error>> /\ DecKeeps

(* Out of the mutex, then into the codec. *)
DecRelease ==
  /\ dpc = "release"
  /\ FrameRelease({hand["dec"]})
  /\ dpc' = "read"
  /\ UNCHANGED <<q, hand, time, lockedVars, codec_in, cancelled, flush, got, ts>>
  /\ DecKeeps

DecReturns(r) ==
  /\ dpc = "read"
  /\ got' = r
  /\ dpc' = "got"
  /\ UNCHANGED <<frameVars, lockedVars, flush, ts>> /\ DecKeeps

(* sfdec_read: the codec blocks until it has a picture for a free buffer, *)
(* the first one ...                                                       *)
DecReadPicture ==
  /\ ~cancelled /\ codec_in # <<>>
  /\ \E i \in Idx :
       /\ owned[i] = 0 /\ \A j \in 1..i - 1 : owned[j] # 0
       /\ owned' = [owned EXCEPT ![i] = Head(codec_in)]
       /\ DecReturns([NoBuf EXCEPT !.pic = Head(codec_in), !.idx = i])
  /\ codec_in' = Tail(codec_in) /\ UNCHANGED cancelled

(* ... or has the format of its first picture to tell ... *)
DecReadFormat ==
  /\ ~cancelled /\ codec_in # <<>> /\ Head(codec_in) = 1
  /\ DecReturns(NoBuf)
  /\ UNCHANGED <<codec_in, owned, cancelled>>

(* ... or the dequeue is cancelled, an error unless sfdec->flush is set. *)
DecReadCancelled ==
  /\ cancelled
  /\ DecReturns(IF flush THEN NoBuf ELSE Failed)
  /\ cancelled' = FALSE /\ UNCHANGED <<codec_in, owned>>

DecReadFails ==
  /\ MayFail
  /\ DecReturns(Failed)
  /\ UNCHANGED <<codec_in, owned, cancelled>>

(* Back under the mutex: without a picture, or during a flush, the frame   *)
(* stays first in dec_q; with one it goes out, with its time.              *)
DecGot ==
  /\ dpc = "got"
  /\ error' = (error \/ got.ret = -1)
  /\ IF got.pic = 0 \/ "flushing" \in state
     THEN PutHead("dec", "dec") /\ UNCHANGED <<handle, time, ts>>
     ELSE /\ Put("dec", "out")
          /\ handle' = [handle EXCEPT ![hand["dec"]] =
                          [pic |-> got.pic, idx |-> got.idx, released |-> FALSE]]
          /\ time' = [time EXCEPT ![hand["dec"]] =
                        IF ReorderPts THEN got.pic ELSE IF ts = <<>> THEN 0 ELSE Head(ts)]
          /\ ts' = IF ReorderPts \/ ts = <<>> THEN ts ELSE Tail(ts)
  /\ got' = NoBuf
  /\ dpc' = "top"
  /\ UNCHANGED <<state, asleep, codecVars>> /\ DecKeeps

Decoder == \/ DecSleep \/ DecTake \/ DecExit \/ DecRelease \/ DecReadPicture
           \/ DecReadFormat \/ DecReadCancelled \/ DecReadFails \/ DecGot

-----------------------------------------------------------------------------
(***************************************************************************)
(* The sink thread, videosink_thread.  An error it meets at the top of its *)
(* loop only: its wait does not test for one.                              *)
(***************************************************************************)
SinkKeeps == UNCHANGED <<decVars, engineVars, appVars, inputVars, run, error,
                         codec_in, cancelled, flush>>

SinkAwake == \/ spc = "top" /\ run /\ ~error
             \/ spc = "wait" /\ "sink" \notin asleep

SinkSleep ==
  /\ SinkAwake
  /\ "flushing" \in state \/ (run /\ q["venc"] = <<>>)
  /\ Sleep("sink", state \ {"rendering"})
  /\ spc' = "wait"
  /\ UNCHANGED <<frameVars, owned, shown>> /\ SinkKeeps

SinkExit ==
  /\ \/ spc = "top" /\ (~run \/ error) /\ SetState(state \ {"rendering"})
     \/ /\ spc = "wait" /\ "sink" \notin asleep /\ "flushing" \notin state /\ ~run
        /\ state' = state \ {"rendering"} /\ Broadcast
  /\ spc' = "gone"
  /\ UNCHANGED <<frameVars, owned, shown>> /\ SinkKeeps

SinkHasFrame ==
  /\ SinkAwake
  /\ "flushing" \notin state /\ run /\ q["venc"] # <<>>
  /\ SetState(state \cup {"rendering"})

(* A flush has taken the picture. *)
SinkSkip ==
  /\ SinkHasFrame
  /\ handle[Head(q["venc"])] = NoHandle
  /\ Move("venc", "get")
  /\ spc' = "top"
  /\ UNCHANGED <<hand, handle, time, owned, shown>> /\ SinkKeeps

(* Paused, in time, early, or late. *)
SinkTake ==
  /\ SinkHasFrame
  /\ handle[Head(q["venc"])] # NoHandle
  /\ Take("venc", "sink")
  /\ spc' \in IF paused THEN {"render"} ELSE {"render", "pace", "drop"}
  /\ UNCHANGED <<handle, time, owned, shown>> /\ SinkKeeps

(* The timed wait for the frame's time, cut short by a stop or a flush. *)
SinkPaced ==
  /\ spc = "pace"
  /\ spc' = IF run /\ "flushing" \notin state THEN "render" ELSE "drop"
  /\ UNCHANGED <<frameVars, state, asleep, owned, shown>> /\ SinkKeeps

(* sfdec_buf_render: the codec gets the buffer back and shows what is in   *)
(* it, if it had lent it out, and refuses it otherwise.                    *)
SinkRelease ==
  LET f == hand["sink"] IN
  LET i == handle[f].idx IN
  /\ spc \in {"render", "drop"}
  /\ IF owned[i] # 0
     THEN /\ shown' = IF spc = "render" THEN owned[i] ELSE shown
          /\ owned' = [owned EXCEPT ![i] = 0]
          /\ handle' = [handle EXCEPT ![f].released = TRUE, ![f].pic = 0]
     ELSE UNCHANGED <<shown, owned, handle>>
  /\ spc' = "done"
  /\ UNCHANGED <<q, hand, time, state, asleep>> /\ SinkKeeps

SinkDone ==
  /\ spc = "done"
  /\ Put("sink", "get")
  /\ spc' = "top"
  /\ UNCHANGED <<handle, time, state, asleep, owned, shown>> /\ SinkKeeps

Sink == \/ SinkSleep \/ SinkExit \/ SinkSkip \/ SinkTake \/ SinkPaced \/ SinkRelease
        \/ SinkDone

-----------------------------------------------------------------------------
(***************************************************************************)
(* The engine thread: _stream_player_async over videodec_put_out, _get_out, *)
(* _dec_in and _flush.                                                     *)
(***************************************************************************)
EngineKeeps == UNCHANGED <<decVars, spc, appVars, shown>>

Goto(pc) == epc' = pc

(* Mutant of FlushEnter: the times of what is flushed stay in their queue. *)
FlushEnterTimesKept ==
  /\ epc = "top" /\ ~stop /\ video_flush
  /\ video_flush' = FALSE
  /\ SetState(state \cup {"flushing"})
  /\ CodecFlush
  /\ flushed' = sent
  /\ Goto("flush")
  /\ UNCHANGED <<frameVars, run, error, ts, sent, play_n, play_one, count>> /\ EngineKeeps

FlushEnter ==
  /\ epc = "top" /\ ~stop /\ video_flush
  /\ video_flush' = FALSE
  /\ SetState(state \cup {"flushing"})
  /\ ts' = <<>>
  /\ CodecFlush
  /\ flushed' = sent
  /\ Goto("flush")
  /\ UNCHANGED <<frameVars, run, error, sent, play_n, play_one, count>> /\ EngineKeeps

FlushSleep ==
  /\ epc = "flush" /\ "engine" \notin asleep
  /\ state \cap {"reading", "rendering"} # {}
  /\ Sleep("engine", state)
  /\ UNCHANGED <<frameVars, run, error, codecVars, inputVars, engineVars>>
  /\ EngineKeeps

(* Mutant of FlushDone: the sink thread is not waited for. *)
FlushDoneRendering ==
  /\ epc = "flush" /\ "engine" \notin asleep
  /\ "reading" \notin state
  /\ FrameRelease(Frames)
  /\ SetState(state \ {"flushing"})
  /\ Goto("sink")
  /\ UNCHANGED <<q, hand, time, run, error, codec_in, cancelled, flush, inputVars,
                 video_flush, play_n, play_one, count>> /\ EngineKeeps

(* Mutant of FlushDone: the frames keep the pictures they had. *)
FlushDonePicturesKept ==
  /\ epc = "flush" /\ "engine" \notin asleep
  /\ state \cap {"reading", "rendering"} = {}
  /\ SetState(state \ {"flushing"})
  /\ Goto("sink")
  /\ UNCHANGED <<frameVars, run, error, codecVars, inputVars, video_flush, play_n,
                 play_one, count>> /\ EngineKeeps

FlushDone ==
  /\ epc = "flush" /\ "engine" \notin asleep
  /\ state \cap {"reading", "rendering"} = {}
  /\ FrameRelease(Frames)
  /\ SetState(state \ {"flushing"})
  /\ Goto("sink")
  /\ UNCHANGED <<q, hand, time, run, error, codec_in, cancelled, flush, inputVars,
                 video_flush, play_n, play_one, count>> /\ EngineKeeps

(* _queue_sink_frames, one frame at a time, at first or after the flush. *)
AtSinkQueue == epc = "sink" \/ (epc = "top" /\ ~stop /\ ~video_flush)

(* Mutant of QueueSinkFrame: the frame is queued for display once more. *)
QueueSinkFrameAgain ==
  /\ AtSinkQueue /\ q["get"] # <<>>
  /\ Move("get", "disp")
  /\ time' = [time EXCEPT ![Head(q["get"])] = 0]
  /\ count' = count - 1
  /\ Goto("sink")
  /\ UNCHANGED <<hand, handle, lockedVars, codecVars, inputVars, video_flush, play_n,
                 play_one>> /\ EngineKeeps

QueueSinkFrame ==
  /\ AtSinkQueue /\ q["get"] # <<>>
  /\ Move("get", "decode")
  /\ time' = [time EXCEPT ![Head(q["get"])] = 0]
  /\ count' = count - 1
  /\ Goto("sink")
  /\ UNCHANGED <<hand, handle, lockedVars, codecVars, inputVars, video_flush, play_n,
                 play_one>> /\ EngineKeeps

SinkEmpty ==
  /\ AtSinkQueue /\ q["get"] = <<>>
  /\ Goto(IF paused /\ play_n = 0 THEN "top" ELSE "put")
  /\ UNCHANGED <<frameVars, lockedVars, codecVars, inputVars, video_flush, play_n,
                 play_one, count>> /\ EngineKeeps

(* videodec_put_out; after an error the decoder is closed. *)
PutOut ==
  /\ epc = "put"
  /\ IF error THEN Goto("close") /\ UNCHANGED <<q, asleep>>
     ELSE /\ Goto("get")
          /\ IF q["decode"] # <<>> THEN Move("decode", "dec") /\ Broadcast
             ELSE UNCHANGED <<q, asleep>>
  /\ UNCHANGED <<hand, handle, time, run, error, state, codecVars, inputVars,
                 video_flush, play_n, play_one, count>> /\ EngineKeeps

(* Whether frames may be output now: not in a pause, or with a full sink. *)
MayOutput == (~paused \/ play_n > 0) /\ count < SinkMax

(* videodec_get_out.  A frame before the time a seek wants goes back to be *)
(* decoded again, any other is to be displayed.                            *)
GetOut ==
  /\ epc = "get"
  /\ IF error \/ q["out"] = <<>> THEN UNCHANGED q
     ELSE \/ Move("out", "disp")
          \/ play_n > 0 /\ Move("out", "decode")
  /\ Goto(IF MayOutput /\ q'["disp"] # <<>> THEN "show" ELSE "send")
  /\ UNCHANGED <<hand, handle, time, lockedVars, codecVars, inputVars, video_flush,
                 play_n, play_one, count>> /\ EngineKeeps

(* Mutant of AfterOutput: a frame is counted also when none was asked for. *)
AfterOutputUnguarded(left) == left - 1

(* The call of output_frames counts as one of the frames asked for. *)
AfterOutput(left) == IF left > 0 THEN left - 1 ELSE left

(* output_frames with a sink that has put_time: every frame of disp_q, to  *)
(* the sink, or back when it has no time.  The first one put ends a seek's *)
(* wait.                                                                   *)
Output ==
  LET f    == Head(q["disp"])
      none == time[f] = 0
      left == IF play_one /\ ~none THEN 0 ELSE play_n
      last == Len(q["disp"]) = 1
  IN
  /\ epc = "show"
  /\ IF none THEN Move("disp", "decode") /\ UNCHANGED <<asleep, count, play_one>>
     ELSE /\ Move("disp", "venc") /\ Broadcast
          /\ count' = count + 1
          /\ play_one' = FALSE
  /\ play_n' = IF last THEN AfterOutput(left) ELSE left
  /\ Goto(IF last THEN "send" ELSE "show")
  /\ UNCHANGED <<hand, handle, time, run, error, state, codecVars, inputVars,
                 video_flush>> /\ EngineKeeps

(* videodec_dec_in: a chunk, if there is one, goes to the codec, if it has *)
(* room; its time is queued afterwards.                                    *)
DecIn ==
  /\ epc = "send"
  /\ \/ /\ Goto("top") /\ UNCHANGED <<codec_in, flush, sent>>
     \/ /\ error /\ Goto("close") /\ UNCHANGED <<codec_in, flush, sent>>
     \/ /\ ~error /\ sent < MaxIn
        /\ flush' = FALSE
        /\ IF Len(codec_in) < CodecMax
           THEN /\ codec_in' = Append(codec_in, sent + 1) /\ sent' = sent + 1
                /\ Goto("stamp")
           ELSE UNCHANGED <<codec_in, sent>> /\ Goto("top")
  /\ UNCHANGED <<frameVars, lockedVars, owned, cancelled, ts, flushed, video_flush,
                 play_n, play_one, count>> /\ EngineKeeps

(* XDM_ts_put: nothing when the ring has no place left. *)
Stamp ==
  /\ epc = "stamp"
  /\ ts' = IF ReorderPts \/ Len(ts) >= TsMax - 1 THEN ts ELSE Append(ts, sent)
  /\ Goto("top")
  /\ UNCHANGED <<frameVars, lockedVars, codecVars, sent, flushed, video_flush, play_n,
                 play_one, count>> /\ EngineKeeps

(* videodec_close, by the engine after an error (_handle_video_codec_error) *)
(* or, once the engine has left, by stream_close.                           *)
CloseKeeps == UNCHANGED <<q, hand, time, error, state, inputVars, video_flush, play_n,
                          play_one, count>> /\ EngineKeeps

Leave ==
  /\ epc = "top" /\ stop
  /\ Goto("close")
  /\ UNCHANGED <<handle, run, asleep, codecVars>> /\ CloseKeeps

CloseEnter ==
  /\ epc = "close"
  /\ run' = FALSE /\ Broadcast
  /\ Goto("codec")
  /\ UNCHANGED <<handle, codecVars>> /\ CloseKeeps

CloseFlush ==
  /\ epc = "codec"
  /\ CodecFlush
  /\ Goto("join")
  /\ UNCHANGED <<handle, run, asleep>> /\ CloseKeeps

CloseJoin ==
  /\ epc = "join" /\ dpc = "gone" /\ spc = "gone"
  /\ FrameRelease(Frames)
  /\ Goto("closed")
  /\ UNCHANGED <<codec_in, cancelled, flush, run, asleep>> /\ CloseKeeps

Engine == \/ FlushEnter \/ FlushSleep \/ FlushDone \/ QueueSinkFrame
          \/ SinkEmpty \/ PutOut \/ GetOut \/ Output \/ DecIn \/ Stamp
          \/ Leave \/ CloseEnter \/ CloseFlush \/ CloseJoin

-----------------------------------------------------------------------------
(***************************************************************************)
(* The application's thread, one call at a time.  A seek does not wait for *)
(* the engine: it pauses the stream, asks for a flush and for the frames   *)
(* up to the new position, and waits for one of them for a second at most. *)
(***************************************************************************)
AppKeeps == UNCHANGED <<frameVars, lockedVars, codecVars, decVars, spc, epc, count,
                        inputVars, shown>>

SetPaused ==
  /\ apc = "idle"
  /\ paused' = ~paused
  /\ UNCHANGED <<apc, was_paused, stop, seeks, video_flush, play_n, play_one>> /\ AppKeeps

SeekStart ==
  /\ apc = "idle" /\ seeks < MaxSeeks
  /\ seeks' = seeks + 1
  /\ was_paused' = paused /\ paused' = TRUE
  /\ apc' = "flush"
  /\ UNCHANGED <<stop, video_flush, play_n, play_one>> /\ AppKeeps

SeekFlush ==
  /\ apc = "flush"
  /\ video_flush' = TRUE
  /\ apc' = "one"
  /\ UNCHANGED <<paused, was_paused, stop, seeks, play_n, play_one>> /\ AppKeeps

SeekOne ==
  /\ apc = "one"
  /\ play_one' = TRUE
  /\ apc' = "arm"
  /\ UNCHANGED <<paused, was_paused, stop, seeks, video_flush, play_n>> /\ AppKeeps

SeekArm ==
  /\ apc = "arm"
  /\ play_n' = PlayN
  /\ apc' = "wait"
  /\ UNCHANGED <<paused, was_paused, stop, seeks, video_flush, play_one>> /\ AppKeeps

(* Played, or the second is over. *)
SeekEnd ==
  /\ apc = "wait"
  /\ paused' = was_paused /\ was_paused' = TRUE
  /\ apc' = "idle"
  /\ UNCHANGED <<stop, seeks, video_flush, play_n, play_one>> /\ AppKeeps

Stop ==
  /\ apc = "idle"
  /\ stop' = TRUE /\ paused' = TRUE
  /\ apc' = "stopped"
  /\ UNCHANGED <<was_paused, seeks, video_flush, play_n, play_one>> /\ AppKeeps

App == SetPaused \/ SeekStart \/ SeekFlush \/ SeekOne \/ SeekArm \/ SeekEnd \/ Stop

(* pthread_cond_wait may return at any time. *)
SpuriousWakeup ==
  /\ \E t \in asleep : asleep' = asleep \ {t}
  /\ UNCHANGED <<frameVars, run, error, state, codecVars, decVars, spc, engineVars,
                 appVars, inputVars, shown>>

Next == Decoder \/ Sink \/ Engine \/ App \/ SpuriousWakeup

Spec == Init /\ [][Next]_vars

(***************************************************************************)
(* The threads run.  Of the codec only that it decodes what it has been    *)
(* given, once a buffer is free, and that a cancelled dequeue returns: it  *)
(* owes no failure, so that a decoder thread in a codec that has nothing   *)
(* to decode may stay there for ever.                                      *)
(***************************************************************************)
DecoderOwn == DecSleep \/ DecTake \/ DecExit \/ DecRelease \/ DecGot

Fairness == /\ WF_vars(DecoderOwn)
            /\ SF_vars(DecReadPicture) /\ WF_vars(DecReadCancelled)
            /\ WF_vars(Sink) /\ WF_vars(Engine)

FairSpec == Spec /\ Fairness

-----------------------------------------------------------------------------
(***************************************************************************)
(* A frame is in one queue, once, or in the hand of one thread, and none   *)
(* is ever lost: frame_q_put reports a frame that is already there as a    *)
(* FATAL ERROR, and a frame in two queues links the two lists.             *)
(***************************************************************************)
InQueue(f, n) == \E i \in DOMAIN q[n] : q[n][i] = f

OnePlace ==
  \A f \in Frames :
    /\ (\E n \in Queues : InQueue(f, n)) \/ (\E h \in Hands : hand[h] = f)
    /\ \A m, n \in Queues : InQueue(f, m) /\ InQueue(f, n) => m = n
    /\ \A n \in Queues : \A i, j \in DOMAIN q[n] : q[n][i] = f /\ q[n][j] = f => i = j
    /\ \A n \in Queues, h \in Hands : hand[h] = f => ~InQueue(f, n)
    /\ ~(hand["dec"] = f /\ hand["sink"] = f)

(* The frame's buffer has not been given back. *)
Bound(f) == ~handle[f].released

(***************************************************************************)
(* Every buffer the codec has lent out is in exactly one frame, or with    *)
(* the decoder thread between sfdec_read and the mutex: none leaks, which  *)
(* would starve the codec.  A frame refers to a buffer that is not lent to *)
(* it only while a flush or the close is taking the pictures back; and the *)
(* sink thread, which renders outside the mutex while a flush, the close   *)
(* and the decoder thread free buffers, has one that is not given back.    *)
(***************************************************************************)
BuffersAccounted ==
  /\ \A i \in Idx : owned[i] # 0 =>
       \/ \E f \in Frames : Bound(f) /\ handle[f].idx = i /\ handle[f].pic = owned[i]
       \/ got.idx = i /\ got.pic = owned[i]
  /\ \A f \in Frames : Bound(f) =>
       \/ owned[handle[f].idx] = handle[f].pic
       \/ owned[handle[f].idx] = 0 /\ ("flushing" \in state \/ ~run)
  /\ \A f, g \in Frames : Bound(f) /\ Bound(g) /\ handle[f].idx = handle[g].idx => f = g
  /\ spc \in {"pace", "render", "drop"} => Bound(hand["sink"])

(***************************************************************************)
(* Pictures are shown in the order they were sent, none twice, each is the *)
(* one of the frame the sink renders, and none from before a flush is      *)
(* shown after it, although the flush leaves the frames in their queues.   *)
(***************************************************************************)
ShownInOrder ==
  [][shown' # shown => /\ shown' > shown
                       /\ shown' > flushed
                       /\ shown' = handle[hand["sink"]].pic]_vars

(***************************************************************************)
(* A frame is never shown at the time of a later picture, or of one from   *)
(* before the flush, although the times travel in a queue of their own.    *)
(***************************************************************************)
TimeNotAhead ==
  \A f \in Frames : Bound(f) /\ time[f] # 0 /\ owned[handle[f].idx] # 0 =>
    time[f] <= handle[f].pic /\ time[f] > flushed

(***************************************************************************)
(* The codec has been flushed, nothing is sent to it and nobody is to      *)
(* cancel the dequeue that the decoder thread is in or about to make.      *)
(***************************************************************************)
Stuck == /\ epc \in {"flush", "join"}
         /\ dpc \in {"release", "read"} /\ ~cancelled

(***************************************************************************)
(* videodec_flush ends, and so does videodec_close, unless the decoder     *)
(* thread entered the codec after it had been flushed: no wakeup is lost   *)
(* between three threads that sleep on one condition variable.             *)
(***************************************************************************)
Ending == epc \in {"flush", "close", "codec", "join"}

FlushEnds == Ending ~> (~Ending \/ Stuck)

(***************************************************************************)
(* A frame given to the sink comes back to the engine, paused or not,      *)
(* unless a flush is stuck or the decoder has failed or is closed.         *)
(***************************************************************************)
AtSink(f) == InQueue(f, "venc") \/ InQueue(f, "get") \/ hand["sink"] = f

SinkReturns ==
  \A f \in Frames : AtSink(f) ~> (~AtSink(f) \/ error \/ ~run \/ Stuck)

(***************************************************************************)
(* What the player is promised, FrameCycle: a frame is with the engine     *)
(* blank, decoded, with the engine with its picture, shown or not, back.   *)
(***************************************************************************)
Place == [f \in Frames |->
  IF InQueue(f, "decode") THEN "blank"
  ELSE IF InQueue(f, "disp") THEN "picture"
  ELSE IF AtSink(f) THEN "display"
  ELSE "decoder"]

Cycle == INSTANCE FrameCycle WITH place <- Place

CycleSpec == Cycle!Spec
=============================================================================
