# Verification of NovaCustom (Nova Video Player)

NovaCustom is an Android video player: Java activities and services on top of
`avos`, a player core in C that parses, decodes, synchronises and displays a
stream with half a dozen threads. The core was written for a family of devices
before it became a library; its threads meet in hand-made handshakes, unlocked
flags, polling loops and condition variables. That is where a test hardly gets
at it and a model checker does, and that is what this project models.

All paths below are relative to the repository; `Source/` is
`src/native/avos/Source/`.

## 1. Inventory

| Part | State | Operations | Hard behaviour |
|---|---|---|---|
| Thread state handles (`athread.c`, `athread.h`) | `_get`, `_set`, mutex, condition variable | `thread_state_init/set/ack/ask_pause` | two wait loops on one condition variable, several masters |
| Video engine (`stream_video.c`, `stream.c`) | the handles of its threads, `paused`, `seek`, `cdata_now`, `video_state`, `vcodec`, frame queues | engine, parser and decode threads; open, pause, un_pause, seek, set_speed, set_audio_stream, set_subtitle_stream, stop | flags read without a lock, a wait that gives up, a decode in flight when the engine leaves |
| Media player object (`avos_mp.c`, `avos_mp_video.c`) | `media`, the command mailbox (`cur_cmd`, `next_cmd`), remembered position | open, seek, close, destroy, start, pause, the getters | a one-slot mailbox that overwrites, waits that look at the running command only |
| Events (`jni/libavosjni/avos_media_player.c`, `AvosMediaPlayer.java`) | message queue, event thread, the handler's messages | add, take, post, `handleMessage`, reset, release | messages that arrive after the state they speak of |
| `Player.java` | `mCurrentState`, `mIsBusy`, the player | openVideo (own thread), seekTo, stopPlayback, release, the callbacks | an opener thread that writes what callbacks write |
| Conversion workers (`codec_utils.c`) | per worker: frame, slice, stop flag, two condition variables | `codec_convert_mt`, init, exit, `work_thread` | the completion flag is cleared outside the mutexes; slices that do not divide |
| ffmpeg parser, packet queues (`stream_parser_ffmpeg.c`) | a queue per stream, memory used, end of file | parse, get/peek chunk, seek, flush | a memory bound read unlocked, starvation, a flush against consumers |
| Audio and subtitle threads (`stream_audio.c`, `stream_subtitle.c`, `stream_sub_ext.c`) | their handles, `cdata_sub`, external files | decode loops | same as the engine |
| A/V sync (`stream_sync.c`) | clocks, `delay`, `drop`, `drop_P` | `stream_sync`, init, resync | feedback between two clocks |
| Asynchronous decoder (`codec_sfdec2.c`, `xdm_utils.c`, `sfdec_ndkmediacodec.cpp`, `_stream_player_async`) | `p->locked` (run, error, state), six frame queues, the codec's buffers in the frames' handles, the times in `XDM_ctx` | put_out, get_out, dec_in, flush, close; decoder thread; sink thread; seek | one mutex and one condition variable for three threads, codec calls outside it, a flush that leaves the frames where they are |
| Other asynchronous decoders (`codec_sfdec.c`, `codec_lavc_async.c`, `stream_queue.c`) | input and output queues, `wait` with a timeout | put, get, flush, reconfigure | timed waits, a flush against the codec's callbacks |
| Buffers (`cbe.c`, `frame_q.c`, `pts_reorder.c`) | ring with overlap, list of frames, timestamps | put, get, skip | wrap, limits |
| Event loop (`mainloop.c`, `dataevent.c`, `timers.c`, `threadcom.c`) | event sources, timers, calls between threads | loop, register, call | re-entrance; used by the command line player |
| torrentd | libtorrent session, HTTP server | serve a range of a torrent | state is the library's |
| MediaLib | SQLite, scanner and scraper services | scan, scrape, remove | services over I/O |
| FileCoreLibrary | none of its own | adapters to SMB, FTP, SFTP, UPnP | I/O |
| Video (UI) | activities | calls on `Player` | the user of the model |

How they interact: the UI calls `Player`, which calls the JNI object, which
calls `avos_mp` in the caller's thread. Opening and seeking are handed to the
async thread of `avos_mp`, everything else waits until that thread is idle and
runs in the caller's. Either way one call at a time enters the *stream*, where
it talks to the stream's threads through the thread state handles and through
plain flags. Threads of the stream send events, which go through the event
thread and the Android handler back to `Player`.

What makes each part correct:

- handles: a master that got its answer owns what the worker works on; a set
  always returns; a worker asked to exit exits;
- engine: no frame is lost or in two places, the decoder writes to a frame
  nobody else has, an operation has to itself what it changes and leaves the
  stream as it found it, every operation ends;
- media player: the stream is there while it is used, the last seek wins,
  release leaves nothing behind, `isBusy` does not stay;
- asynchronous decoder: a frame and a buffer in one place, none lost; pictures
  shown in the order they were sent, none of before a flush after it; a flush
  and a close end;
- conversion: every row converted by exactly one worker when the caller goes
  on, nobody writes afterwards;
- packet queues: bounded memory, order kept, nothing of before a seek after it;
- sync, timed queues, ring, reordering: arithmetic at its limits.

## 2. Modules

| Module | Models | Needs |
|---|---|---|
| `ThreadState` | the four operations of `athread.c` as action operators | |
| `WorkerGate` | what a handle promises: who enters, leaves, owns a worker (abstract: no code of its own) | |
| `ThreadHandshake` | the worker loop and its masters around them | `ThreadState`, `WorkerGate` (refined) |
| `ThreadHandshakeMC` | the instance that is checked | |
| `ThreadHandshakeProofs` | type correctness, `Parked`, the refinement | |
| `VideoEngine` | engine, decode, parser and application threads | `ThreadState` (instance `TS`), `WorkerGate` (refined) |
| `VideoEngineMC` | the sets of operations of the runs | |
| `VideoEngineProofs` | type correctness, `SeekParserExclusive`, `EngineOwned`, `OperationRestores`, the refinement; `FramePartition`, `DecodeTargetExclusive`, `DecodeHasData` of playback | |
| `MediaStream` | how a player uses its one stream: created, entered, sought, deleted (abstract: no code of its own) | |
| `AvosMp` | mailbox, async thread, event thread, handler, `Player` | `MediaStream` (refined) |
| `AvosMpProofs` | type correctness, `StreamInUse`, `LastSeekWins`, `NothingLeft`, the refinement | |
| `ConvertPool` | conversion workers and their caller | |
| `ConvertPoolProofs` | type correctness, `PictureComplete`, `NobodyStraggles`, `SlicesApart` | |
| `PacketQueues` | the ffmpeg parser's queues, their producers and consumers, a seek | |
| `PacketQueuesMC` | the file that is checked | |
| `PacketQueuesProofs` | type correctness, `LevelInv`, `BufferBound`, `AudioFresh`, `QueueIsRecent` | |
| `FrameCycle` | what the player relies on: the cycle of a frame and the order of the pictures shown (abstract: no code of its own) | |
| `AsyncDecoder` | the asynchronous decoder, its two threads, the codec, the player's loop, seek, stop and close | `FrameCycle` (refined) |
| `AsyncDecoderProofs` | type correctness, `OnePlace`, `BuffersAccounted`, `ShownInOrder`, `TimeNotAhead`, the refinement | |

An operator whose comment starts with "Mutant of" is a wrong version of the
definition below it, used to see that a property notices; no specification
uses it.

### ThreadState and ThreadHandshake

`got` is `_get`, `asked` is `_set`, `sleepers` the threads blocked in
`pthread_cond_wait`. A critical section between two waits is one action:
`SetEnter`, `SetSleepAgain`, `SetReturn` are the three pieces of
`thread_state_set`, `AckEnter`, `AckSleepAgain`, `AckReturn` those of
`thread_state_ack`. `SpuriousWakeup` is there because POSIX allows it. The
worker loop is the one that `_player_thread` and `_parser_thread`, the audio and
the subtitle thread share; `wpc = "work"` is its body. `holds` is a history
variable: who asked for IDLE, got the answer and has not asked since.

`WorkerGate` says the same without words, locks and waits: a worker is `out` of
its work, `in` it or `gone`, and has `owners`; it enters or exits when it has
none, and a master comes to own it only while it is out. `ThreadHandshake`
implements it with `WorkerIs` and `holds`; `VideoEngine` implements it with
`ThreadAt` and `IdledBy`, where the operations own the parser from the answer of
`idle_parser` to `run_parser` (or to the step that gives up) and the engine from
that of `idle_engine` to `run_engine`. So what the handles promise is what the
operations rely on.

### VideoEngine

`epc`, `ppc`, `dpc`, `apc` say where the engine, parser, decode and application
thread are; the actions of the engine follow `_stream_player_sync` from
`DECODE_AGAIN` on, cut where another thread may act between two accesses to
shared state: the test of `paused` (`PauseTest`), taking a frame, setting `video_state`,
filling `vcodec`, setting the flag under `codec_mutex`, each turn of the poll
loop, and the end. The application thread runs one operation at a time
(`avos_mp` serialises them), each a path through the same calls:
`AppSet` is `thread_state_set`, `stream_pause`, `PauseWaited`, `Idle` and
`IdleTimeout` are `stream_pause` and `_stream_wait_for_idle`; the paths end in
`resume_parser`/`run_engine` and `un_pause` like the error paths of the code.

Abstractions: a chunk is one bit (`cdata`: is `cdata_now` valid), frames are
model values, the frame queues are sets. The stream has video and sink frames
(`use_sink_frames`) and a synchronous decoder. `drop` is a boolean (`s->drop >
0`); `_droppable` also wants a B frame or MJPEG, hence `MayDrop`. `stream_sync`
is a choice whether to drop. The end of the stream (`_check_end`,
`video_error`) and the audio and subtitle handles are left out: they add
handles of the same kind. So are the loop of `_video_decode` that gets a flushed
decoder's frames out (2717-2764, for decoders that set `flush_frames`); a change of the video's
properties in mid-stream (3395-3409, MPEG sequences only), which closes and
reopens the decoder; and a chunk of size -1, which is not decoded (3499-3507).
What follows the answer (3526-3600) is one step, `Finish`: `video_state` says to
the end of it that the engine is not idle, and a seek frees the frames only when
it has found it idle.

### AvosMp

A critical section of `async.mtx` is one action. `cur` and `next` are the
running and the queued command; `tpc` the async thread; `events`, `held`,
`handler` the way of a message from the queue of the event thread through its
hands to the Android handler; `cpc` the main thread (in its looper, in a call,
in close, in destroy); `opc` the thread that `openVideo` starts. What the stream
does is left out, except that open makes `mp->media` non-NULL before the stream
is opened, as the code does. `seeks` numbers the user's seeks; `seeked` is the
position the stream was last sought to. An open that cannot even allocate the
stream (`stream_new`) is left out, and with it the branch of the async thread
that only reports `MEDIA_ERROR` (`avos_mp.c` 401-402): `mp->media` dangles then. The mp that `reset` creates afresh is
left out (release destroys it at once). The user leaves the player only when
`prepareAsync` has returned.

`MediaStream` is the abstract specification: a stream that is `there` or not,
the threads `inside` it, how many seeks were `asked` for and the one it is `at`.
The async thread is inside while it opens or seeks, the main thread in the calls
that wait for it (`Inside`).

### ConvertPool

`frame[k]` is the worker's frame (the number of the picture, 0 for NULL),
`start`, `lines` its slice, `rows` what is converted of the picture so far.
Reading `work_stop`, converting, clearing `frame` outside the mutexes and
signalling under `done_mutex` are actions of their own, as are the caller's
loops, one worker at a time. A conversion is one action: only whether it is
over matters.

### PacketQueues

A file is a sequence of packets (`File`: stream, time, key flag, size); a packet
in a queue is its index and the number of the seek after which it was read
(`epoch`, a history variable). `q` and `mem` are `list` and `mem_used` of the
three queues. `pc` says where each thread is: the parser thread, the
application in a seek, the engine, the audio and the subtitle thread.

A critical section of a queue's mutex is one action. Everything the code reads
without it is an action of its own: the three `mem_used` of `_parse_once`
(`ParseEnter`, `ParseReadVideo`, `ParseTest`; C leaves their order open, the
model takes the written one), the empty queue and then `video_parse_end`
(`get_video_cdata`, `EngineEnd`), `need_key` and then the queue (`AudioNext`,
`get_audio_cdata`), the peek and then the get of a seek (`SearchPeek`,
`SearchDrop`). Merged, because nobody else sees the difference: a packet taken
and the chunk made of it, the two critical sections of `_calc_rate`,
`cdata_now` and `cdata_next`. A decode, which frees the chunk, is part of
`check_end`.

`IdleThread` is `thread_state_set( IDLE )` by the property that
`ThreadHandshake` shows (`Parked`): it returns when the thread is at the top of
its loop, and the thread stays there. The engine and the subtitle thread are
not made idle by a seek; `_stream_wait_for_idle` either times out
(`CannotIdle`) or finds the engine in `VID_CALL_DECODER`, which does not keep it
from going on, so `seek_init` may find it anywhere.

`avformat_seek_file` is external: it fails or goes on at a packet of `Landings`.
`Async` says which player tests for the end: the asynchronous one (Android's, and
the one of the runs) also when it plays the frames of a seek in a pause.
Left out: the empty chunk that flushes an MP3 or AAC decoder when the audio is
at its end (`stream_audio.c` 203-208: nothing comes from a queue),
opening, preparse and closing, `STREAM_LOOP`'s seek in the engine thread, `audio_skip`, the chunk cache, subtitles from files, negative times,
failures of allocation. Of a packet's two timestamps there is one, and
`start_time` is 0.

### FrameCycle and AsyncDecoder

This is how Android plays: `_stream_player_async` (the engine thread) with
`codec_sfdec2.c`, which is both decoder and sink. `q` holds the six frame
queues: `decode_q` and `disp_q` of the stream, `dec_q` and `out_q` to and from
the decoder thread, `venc_q` and `get_q` to and from the sink thread. `hand` is
the local variable `f` of each of the two threads, `handle` and `time` the two
fields of a frame that matter. `run`, `error` and `state` are `p->locked`;
`asleep` says who is blocked in `pthread_cond_wait`. `dpc`, `spc`, `epc`, `apc`
are the places of the decoder thread, the sink thread, the engine (and of the
thread that closes, once the engine has left) and the application's thread.

A critical section of the decoder's mutex is one action, cut at its waits; calls
of the codec, `frame_release` of the decoder thread and the release of a buffer
by the sink are made outside of it and are actions of their own. The four steps
of a seek write fields of the stream that the engine reads without a lock
(`video_flush`, `play_n_video_one`, `play_n_video_frames`, then the wait), so
each is an action.

The codec (`AMediaCodec`) is external: inputs it has been given (`codec_in`,
`CodecMax` at most), the picture in each output buffer it has lent out
(`owned`), and whether a pending dequeue has been cancelled. A flush takes
everything back and cancels the dequeue that is pending. A picture is the number
of the input it was decoded from, which is also its time.

Abstractions: whether the sink renders, waits or drops is a choice (the clock is
left out); a frame that a seek does not want is a choice (its time is compared
with the one asked for); `sfdec_max_frames`, the codec's buffers and
`stream_sink_video_max` are constants; `stream_pause` of a seek is the flag only, which
`was_paused` restores. A chunk is sent whole (the rest of one that is only partly
taken is sent again, `stream_video.c` 3864-3873), and the codec's setup data,
which the first `dec_in` after a flush repeats with a blocking
`dequeueInputBuffer` (`sfdec_ndkmediacodec.cpp` 207-213), is left out: it
yields no picture, and a flushed codec has its input buffers free. `SeekEnd` stands for both ends of the seek's wait. `sent`,
`flushed` and `shown` are history variables but for the numbering of pictures.

`FrameCycle` is the abstract specification: a frame is `blank` (to be decoded),
with the `decoder`, a `picture` with the engine, or in the `display`; it goes
round on six arcs, one frame per step, and a picture is shown while a frame is
in the display, each later than the one before. `Place` is the refinement mapping.

## 3. Runs

`tlc -config X.cfg M` in this directory.

| Run | Module, configuration | Shows |
|---|---|---|
| handshake | `ThreadHandshakeMC`, `ThreadHandshake.cfg` | 672 states. `Parked`; every set returns and every exit is reached, under weak fairness of each thread; `GateSpec`, the refinement of `WorkerGate` |
| play | `VideoEngineMC`, `VideoPlay.cfg` | 48 613 states. Two frames, pauses, drops, stop: `FramePartition`, `DecodeTargetExclusive`, `DecodeHasData`, `DecodeAnswered`, `StopJoinsPlayers` |
| control | `VideoEngineMC`, `VideoControl.cfg` | 370 404 states. One frame; seek, speed, stream change, pause: `OperationRestores`, `SeekParserExclusive`, `OperationEnds`, and `GateSpec`, the refinement of `WorkerGate` (which includes `EngineOwned`) |
| seeks | `AvosMp`, `PlayerSeeks.cfg` | 5 700 states. Three seeks: `LastSeekWins`, `NothingLeft`, `StreamSpec`, the refinement of `MediaStream` (which includes `StreamInUse`), `BusyEnds`, `CallReturns`, `ReleaseEnds` |
| convert | `ConvertPool`, `ConvertPool.cfg` | 19 000 states. Three workers, heights 20 (an empty aligned slice) and 100 (a remainder): `PictureComplete`, `NobodyStraggles`, `SlicesApart`, `ConvertReturns`, `ExitReturns` |
| queues | `PacketQueuesMC`, `PacketQueues.cfg` | 582 298 states. `BufferBound`; `QueueIsRecent`: the queues hold the packets read last, in order and without a gap; `AudioFresh`; `FileIsRead`: the parser gets to the end |
| async | `AsyncDecoder`, `AsyncDecoder.cfg` | 1 366 486 states. Pauses, two seeks, a stop and a close at any moment: `OnePlace`, `BuffersAccounted`, `TimeNotAhead`, `ShownInOrder`, and `CycleSpec`, the refinement of `FrameCycle` |
| async_ends | `AsyncDecoder`, `AsyncEnds.cfg` | 89 686 states, with a codec that may fail but need not. `FlushEnds`: a flush and a close end, unless the decoder thread has entered the codec after it was flushed (`Stuck`); `SinkReturns`: a frame given to the sink comes back, in a pause, while playing, and while the decoder starves |

and, expected to be violated, what a comment says that the code does not do:

| Run | Property | What happens |
|---|---|---|
| seek_frames | `DecodeTargetExclusive` | the engine has passed the pause test; the seek sees `VID_CALL_DECODER`, frees all frames; the engine goes on with the frame it held. If the pointer is already NULL when it fills it in, the process dies (`crashed`) |
| stop_codec | `StopEnds` | `codec_run` cleared and signalled between the decode thread's test and its wait |
| released_early | `NothingLeft` | stop and release while OPEN is still queued: close sees no media, the async thread then opens a stream nobody closes |
| video_end | `VideoEndIsEnd` | the video is at its end, the user seeks back: `video_parse_end` and `audio_end` are cleared, `video_end` is not, by any line of the tree; audio is dropped from then on |

`play` holds because it has neither a seek nor a stream change; the violation
runs are the same properties with them. `seeks` assumes that the user stops a
player only once it is prepared; `released_early` lifts that.

Findings without a run. `vcodec` is refilled while a decode is in flight: on a
stream change the engine leaves and comes back, the decode thread finishes,
clears `vcodec.data`, and the flag is then set over NULL; the frame the engine
held when it left is lost. `FramePartition` and `DecodeHasData` fail then, as
`DecodeTargetExclusive` does. `onPrepared` may run
before the opener thread writes `STATE_PREPARING` and leaves the player
preparing for ever. `isBusy` stays true after a release in the middle
of a seek, since only the released player's last message resets it
(`Player.java` 687-699). The packet queues have more of that kind, listed as
hazards: a seek that disposes of a packet the engine has taken meanwhile
(`crashed`), a video end announced while the parser adds its last packets, a
file with more audio before its first key frame than the buffer holds, and a
sleeping parser that nothing wakes. `FileIsRead` is stated for a parser that is
not asleep for ever, and up to a crash.

### Bounds

- Two frames are enough for one to be decoded into while another is displayed
  or queued; a property about frames is about one frame and everything else.
  `control` has one frame because its properties do not mention them, and one
  is enough to make the engine run out of frames.
- `PlayN` is 1 where the code asks for 10 frames after a seek: the counter is
  only tested against 0 and decremented.
- Two workers and one master, each handle its own: handles share nothing; the
  theorem covers any number.
- Three seeks: one running, one queued, one that overwrites it.
- Two pictures: a worker late from the first is seen in the second. Three
  workers: a first, a middle and a last one.
- Five packets, which count 6 together, and a buffer size of 3: the
  queues are full, of one stream or of several, and empty again; the file has a
  frame that is not a key frame, which playback drops before its first key frame
  and a seek drops in its search. The seek lands at the beginning (the search
  finds a key frame and then skips audio) or at the last packet (the search meets
  the end of the file and gives up), at any moment of the playback. One seek: two
  make the run too long; the theorems cover any number. `Burst` is 2 and `Retries` 3 for the
  code's 5 and 500. `IgnoreFirst` (MPEG video) and `NonLocal` are FALSE; the
  theorems cover both values.
- Two frames, which is the default of `sfdec_max_frames`, and two buffers: one
  with the sink while another is decoded, and both with either. `CodecMax` 2: the
  codec holds an input while it is given another, and refuses a third. Two inputs
  and two seeks: a picture of before the first flush, one between, one after the
  second, or both of one side. `PlayN` is 1 or 2 for the code's 10. `SinkMax` is
  never reached: there are fewer frames. The run of liveness has one input and
  one seek: a flush or a close waits for threads, not for pictures, and one
  picture goes through the sink while the decoder starves for the next. The theorems
  cover any values.
- `CHECK_DEADLOCK FALSE` in every run: the systems stop by design (a closed
  stream, a released player, workers that have exited).

### Fairness

Weak fairness of each thread as a whole: the operating system schedules it, a
decode, a conversion, an open ends, and a wait with a timeout ends. No fairness
on what a user does nor on spurious wakeups. A thread blocked in a condition
variable has no enabled action, so fairness does not hide a lost wakeup.
In `AsyncDecoder` the sink, the engine and the decoder thread's own steps
(`DecoderOwn`) are weakly fair. What returns from the codec is not the thread's
step, and of the codec two things are assumed: it decodes what it has been given
once a buffer is free (strong fairness of `DecReadPicture`, which a buffer taken
and given back disables and enables), and a cancelled dequeue returns (weak
fairness of `DecReadCancelled`). It owes no failure (`DecReadFails`): a codec
that has nothing to decode blocks, for ever if the engine sends nothing more,
while the sink and the engine go on. So `SinkReturns` speaks of playback that
goes on and not only of one that ends in an error, and that is also why `Stuck`
is an exception of `FlushEnds`: `sfdec_flush` cancels a dequeue that is pending,
not the one that the decoder thread, which has set "reading" and left the mutex,
is about to make.
`AvosMp` has strong fairness of `Deliver`: the looper runs messages in the
order they were posted, so that a user who keeps calling cannot hold one back
for ever.

## 4. Proofs

`tlapm ThreadHandshakeProofs.tla`, `tlapm ConvertPoolProofs.tla`,
`tlapm VideoEngineProofs.tla`, `tlapm AvosMpProofs.tla`,
`tlapm PacketQueuesProofs.tla`, `tlapm AsyncDecoderProofs.tla` (the longest: two
to three minutes).

**Handshake.** `TypeCorrect` needs no assumption but those of the constants.
`IdleMeansParked` assumes `OneSetter`: one master per handle, true of the
engine, audio and subtitle handles. `Parked` alone is not inductive: that the
worker is outside its work follows from `got = "idle"`, which stays only
because `asked` stays, which stays only because the one thread that may ask is
the one that holds. `HoldInv` says these three and that whoever is inside a set
holds nothing and that the request in `asked` is the caller's own. With two
masters it fails: one may ask for RUNNING while the other holds.
`HandshakeGated`, `Spec => GateSpec` under the same assumption, adds that a
worker that is gone has acknowledged EXIT (`GoneInv`), so that none is owned;
`GateKeepsApart` says of `WorkerGate` alone that who is owned is out of its work.

**Conversion.** `TypeCorrect`, `ReturnsComplete`, `NoStraggler` and
`SlicesCorrect` hold for any number of workers, any alignment and any heights.
`PoolInv` has three parts. `HandedOut`: while the caller hands out slices, `pos`
is the worker's number times the slice height and every row above it is in the
slice of a worker that was started; after that every row of the picture is in
some slice. `FrameTells`: only a started worker has a frame, one that has none
any more has done its slice, only one that has a frame converts. `Complete`:
outside of `codec_convert_mt` every row is done. Two lemmas do the arithmetic:
`SliceHeightFits` (all aligned slices but the last fit in the height, so what is
left is not negative) and `LinesForNat`. `SliceInv` says what each started
worker was given; that slices are apart and aligned follows from it by
`SlicesAligned`, with `MultipleMod` and `RoundDown` on integer division.

**Engine.** Five theorems for any frames, any set of operations in any order,
timeouts and failures included, and four of playback. `SeekParserExclusive` and `EngineOwned` say that
a thread is outside of its work; what is inductive is that who has acknowledged
IDLE is (`WorkersInv`), and that at each place of an operation the two handles
are asked for, and have acknowledged, what the code relies on there
(`HandlesInv`, with `SetInv` for the calls of `thread_state_set`: the master
returns only with its answer, and nobody else asks). `PausedInv` says that the
stream is paused from `stream_pause` to `stream_un_pause`, so that
`was_paused` is what has to be restored. The workers' own steps are dealt with
once, by place of the thread; the steps of the operations one by one.
`PlayersGated`, `Spec => GateSpec`, follows from the same invariant: `IdledOut`
says that whom an operation has idled is asked for IDLE and out of its work,
`AppMoves` that an operation comes to own a thread by the answer to its request
and by nothing else, `ThreadMoves` that a thread enters and exits otherwise.

`FramesKept`, `DecodesAlone`, `DecodesData` and `NeverCrashes` assume that the
operations are pause, un_pause and stop (`PlayOps`), as in the run `play`; they
are false with seeks and stream changes, as `seek_frames` and the findings show.
What is inductive (`PlayInv`) is where the engine is when a decode is in flight:
it holds the frame that the decode thread writes into, is where it waits for it
or has been asked to exit (`HeldInv`, `InFlight`), and then does not come back
to take another frame, because playback never idles the engine: nobody but
`stream_close` asks it anything once the stream is open (`PlayAppInv`).
`PartitionSplit` turns the pairwise disjointness of `FramePartition` into one
fact per frame set, and `SplitStep` shows that every step moves frames between
two of them.

**Media player.** `TypeCorrect`, `StreamInUseCorrect` and `LastSeekWinsCorrect`
hold for any number of seeks and whenever the user may stop;
`NothingLeftCorrect` assumes `~StopWhenPreparing`, and `released_early` shows
that it has to. The waits of `avos_mp` look at the running command only, and
that this is enough rests on `SlotInv` (where the async thread is follows from
the running command, and who closes has taken the queued one back before it
waits) and `OpenInv` (there is one OPEN, and nobody has used what it will
create). `ToldInv`: what the user is told of, and may then ask for, is open.
`SeekInv` follows the last seek from the mailbox into the async thread and the
stream (`Target`). `LeaveInv`, the part that needs the assumption, says that who
leaves finds no OPEN queued nor running. `StreamRefined`, `Spec => StreamSpec`,
needs no assumption either and one more invariant: the running seek is later
than the last that has ended, and the queued one later still (`OrderInv`), which
a mailbox of one slot keeps because a command is only replaced by a newer one.

**Packet queues.** `TypeCorrect`, `LevelInductive` and `QueuesBounded` hold for
any file, sizes, set of streams, number of seeks, landings and retries; assumed
is only that no packet is larger than `MaxSize`. `BufferBound` is not inductive:
that there is room when a packet is added has been decided from three unlocked
reads before. `LevelSeen` says that what a producer has summed is not less than
what these queues hold now, which consumers keep true because they only take.
It would fail with two producers at once; that there is one is `SeekAlone`: from
the moment the seek has its answer the parser thread is outside of `_parse`.
`LevelKept` deals with all steps that take (`OthersTake`), `ParseLevel` with
those of `_parse_once`, `AloneStep` with `SeekAlone`. `AudioFreshCorrect`
follows a seek through three parts: the audio thread is outside of its work from
the seek's answer on (`AudioStopped`), its queue holds packets of after the
landing but while it is flushed (`QueueFresh`), and so does its chunk but until
`stream_audio_flush` (`ChunkFresh`). `QueuesRecent` says of every queue, for any
file and any number of seeks, that it holds the packets of its stream from some
point of the file after the landing up to where the parser is, in order and
without a gap (`Last`, with a lemma each for a packet taken from the front, one
added at the end, and one of another stream read). A seek breaks it from the
landing until the three queues are flushed; `FlushedInv` follows the flush: a
queue that has been flushed is empty, since the parser is idled and the seek's
own search has not begun, though the engine and the subtitle thread go on taking.

**Asynchronous decoder.** Six theorems, for any number of frames, buffers,
inputs and seeks, from the assumptions on the constants, and one more for
`TimesCorrect`. They rest on four invariants, each proved with the ones before it.

`PlaceInv` gives `TypeCorrect` and `OnePlaceCorrect`: the types, `OnePlace`, and
what makes them inductive: a thread has a frame exactly between taking and
giving it (`HandInv`), `output_frames` has a frame to take (`ShowInv`), a thread
away from its wait says so in `state` (`FlagInv`), and a frame that has a buffer
names it (`HandleInv`). Types need all of it: that the buffer the sink gives back
is one rests on a flush not having emptied the sink's frame, which rests on the
flag "rendering". `MoveKeeps`, `TakeKeeps`, `PutKeeps` deal with the queues once
for all actions (`FramesStep`).

`BufferInv` gives `BuffersCorrect`. While the codec is flushed (`Flushed`) it has
lent out nothing (`CleanInv`), so that a frame which still names a buffer does no
harm; otherwise a frame that has not given back its buffer, or the decoder
thread, is its only holder (`LentInv`). `PipeInv` is the part that surprises: a
frame between decoder and sink either has its buffer or none, never one given
back, which is what the sink's `SinkTake` relies on when it looks at the handle.

`OrderInv` gives `ShownInOrderCorrect`: the pictures shown, the sink's, those in
`venc_q`, `disp_q` and `out_q` one after the other, the decoder thread's and
those in the codec are in the order they were sent. `Ahead` speaks of the three
queues as one line; `AheadStep` shows that a step takes from it or adds at its
end. In a flush nothing is claimed: frames keep the pictures of before, but
their buffers are gone, so nothing is shown; when the flush ends no frame has one.

`TimesInv` gives `TimesCorrect`. The decoder thread gives a picture the first
time of `ts`, whatever input that is of. It is not ahead because the i-th time is
not ahead of the i-th picture in flight (`Flight`: with the decoder thread, then
in the codec), which a picture that comes out keeps, since it takes the first of
both; and because `ts` is not shorter than `Flight` but for the input about to be
stamped, so that a new time never falls on an older picture. A full ring breaks
the second: the time is dropped, and every later picture is ahead by one. Hence
the assumption `TsMax >= CodecMax + 2`, which is 30 inputs in the codec for the
code's 32; it is not needed when the codec's own times are used (`ReorderPts`).

`Refinement`, `Spec => CycleSpec`: `PlaceMoves`, `PlaceTakes` and `PlacePuts`
say what each operation on the queues does to `Place`, `CycleStep` that every
step is one of `FrameCycle` or a stutter.

**Model-checked only.** Liveness under fairness (`EverySetReturns`,
`ExitIsReached`, `DecodeAnswered`, `StopJoinsPlayers`, `OperationEnds`,
`BusyEnds`, `CallReturns`, `ReleaseEnds`, `ConvertReturns`, `ExitReturns`,
`FileIsRead`, `FlushEnds`, `SinkReturns`), which is out of the prover's reach.
Every invariant and every refinement that a run checks is a theorem.

## 5. Not modelled, and why

See the components with status `not_modelled` in `PROJECT.json`. In short:
platform audio and display wrappers, file access and the user interface are
I/O; bitstream and subtitle parsers are sequential; the raw stream buffers have
no caller in this tree; vendored libraries are external.

Of the asynchronous player: the end of the stream, the reopening of a decoder
after an error (its close is modelled), the reallocation of frames, the other
decoders and sinks behind the same interface. `video_sink_count` is modelled; it
does not bind, since a stream has fewer frames than `stream_sink_video_max`.

## 6. Plan

1. The audio and subtitle threads beyond their fetch loops: handles, sink,
   change of format, external subtitles.
2. `stream_queue` with its timed wait (nanosecond arithmetic) and the software
   decoder behind it (`codec_lavc_async`), as a second implementation of
   `FrameCycle`.
3. `cbe` and `pts_reorder` as pure algorithms against reference definitions.
4. `AvosMp` with the remembered position, failures of the open, and the calls
   as steps in the stream, composed with `VideoEngine` through `MediaStream`.
5. Proofs: an abstract conversion (rows done, a caller that returns when all
   are) refined by `ConvertPool`; the chunk of the subtitle thread and of the
   engine after a seek, as `AudioFresh` has it for the audio; what remains of
   `FramePartition` when seeks and stream changes are allowed (frames are lost
   then, but is one ever in both queues?).
