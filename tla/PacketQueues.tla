---------------------------- MODULE PacketQueues ----------------------------
(***************************************************************************)
(* The packet queues of the ffmpeg parser (Source/stream_parser_ffmpeg.c): *)
(* the parser thread reads packets of the file into one queue per stream   *)
(* until the queues together are full; the engine takes video packets, the *)
(* audio and the subtitle thread theirs; a seek, in the application's      *)
(* thread, flushes the queues and looks for a key frame, itself a producer *)
(* meanwhile.                                                              *)
(*                                                                         *)
(* A packet is its index in File and the number of the seek after which it *)
(* was read.  A critical section of a queue's mutex is one action; what is *)
(* read without it (mem_used, need_key, seek, parse_end) is an action of   *)
(* its own.  That a thread is idle is ThreadHandshake's Parked: here it is *)
(* a member of parked.                                                     *)
(***************************************************************************)
EXTENDS Integers, Sequences

CONSTANTS File,        \* the packets of the file: [stream, time, key, size]
          Valid,       \* the streams that are played
          BufferSize,  \* ff_p->buffer_size
          NodeSize,    \* sizeof( PacketNode )
          MaxSize,     \* the largest packet of File
          WakeSleep,   \* stream_drive_wake_sleep
          NonLocal,    \* STREAM_PARSER_FILE_NONLOCAL
          Burst,       \* the calls of parse_once in one _parse (5 in the code)
          Retries,     \* the packets a seek looks at (500 in the code)
          IgnoreFirst, \* MPEG video: a seek skips the first key frame
          Async,       \* the player is _stream_player_async
          Landings,    \* the packets at which a seek may land (external)
          MaxSeeks     \* a bound on the seeks of a behaviour

Streams == {"audio", "video", "subtitle"}
NoTime  == -1   \* AV_NOPTS_VALUE

Packet == [stream : Streams \cup {"other"}, time : Nat \cup {NoTime},
           key : BOOLEAN, size : Nat]

ASSUME FileAssumption ==
  /\ File \in Seq(Packet)
  /\ \A n \in DOMAIN File : File[n].size <= MaxSize
ASSUME SizesAssumption == {BufferSize, NodeSize, MaxSize} \subseteq Nat
ASSUME ValidAssumption == Valid \subseteq Streams
ASSUME LandingsAssumption == Landings \subseteq 1..Len(File) + 1
ASSUME BoundsAssumption ==
  /\ {Burst, Retries} \subseteq Nat \ {0} /\ {WakeSleep, MaxSeeks} \subseteq Nat
  /\ {NonLocal, IgnoreFirst, Async} \subseteq BOOLEAN

VARIABLES
  pc,         \* where each thread is
  parked,     \* the threads that have acknowledged IDLE
  pos, from,  \* the packet av_read_frame reads next; where the last seek landed
  epoch,      \* how many seeks have landed
  q, mem,     \* list and mem_used of ff_p->aq, vq and sq
  seen,       \* what a thread in parse_once has read of mem_used so far
  sleeping, parsed, time_parsed,  \* ff_p->sleeping, [av]time_parsed, time_parsed
  parse_end,  \* s->video_parse_end, s->audio_parse_end
  need_key,   \* ff_p->need_key
  seek,       \* s->seek: no chunk is fetched
  chunk,      \* the chunk each consumer has, if any
  video_end, audio_end, stream_end,
  i, retry, ignore, sc,  \* locals of _parse and of _seek
  crashed     \* the process is gone: av_packet_unref( NULL )

queueVars == <<q, mem>>
fileVars  == <<pos, from, epoch>>
rateVars  == <<sleeping, parsed, time_parsed>>
chunkVars == <<chunk, need_key>>
endVars   == <<video_end, audio_end, stream_end>>
loopVars  == <<i, retry, ignore, sc>>
vars == <<pc, parked, fileVars, queueVars, seen, rateVars, parse_end, chunkVars, seek,
          endVars, loopVars, crashed>>

Producers == {"parser", "app"}
Threads   == Producers \cup {"engine", "audio", "sub"}
NoChunk   == [n |-> 0, epoch |-> 0]
Chunk     == [n : 1..Len(File), epoch : Nat]

Parsing   == {"vmem", "smem", "frame"}  \* inside parse_once, past its first test
Searching == Parsing \cup {"parse"}
AppQuiet  == {"out", "idle_parser"}     \* the parser thread may run
AppPC     == AppQuiet \cup Searching \cup
             {"idle_audio", "wait", "init", "file", "flush_video", "flush_audio",
              "flush_subtitle", "search", "peek", "drop", "audio", "video_err",
              "video_init", "run_parser", "play", "run_audio"}

(* s->paused, which a seek sets once the parser and audio threads are idle. *)
Paused == pc["app"] \notin AppQuiet \cup {"idle_audio"}

(* A paused stream works only for the frame that a seek shows. *)
MayPlay == ~Paused \/ pc["app"] = "play"

PcType ==
  /\ pc \in [Threads -> AppPC \cup {"top", "rate", "get", "end", "check"}]
  /\ pc["app"] \in AppPC
  /\ pc["parser"] \in Searching \cup {"top", "rate"}
  /\ parked \subseteq {"parser", "audio"}

QueueType ==
  /\ pos \in 1..Len(File) + 1 /\ from \in 1..Len(File) + 1 /\ epoch \in Nat
  /\ q \in [Streams -> Seq(Chunk)] /\ mem \in [Streams -> Int]
  /\ chunk \in [Streams -> Chunk \cup {NoChunk}]

CounterType ==
  /\ seen \in [Producers -> Int]
  /\ parsed \in [{"audio", "video"} -> Int] /\ time_parsed \in Int
  /\ i \in 0..Burst - 1 /\ retry \in 0..Retries /\ sc \in Int

FlagType ==
  /\ sleeping \in BOOLEAN /\ parse_end \in BOOLEAN /\ need_key \in BOOLEAN
  /\ seek \in BOOLEAN /\ ignore \in BOOLEAN /\ crashed \in BOOLEAN
  /\ video_end \in BOOLEAN /\ audio_end \in BOOLEAN /\ stream_end \in BOOLEAN

TypeOK == PcType /\ QueueType /\ CounterType /\ FlagType

(* The parser is open, the threads run, nothing is read yet. *)
Init ==
  /\ pc = [t \in Threads |-> IF t = "app" THEN "out" ELSE "top"]
  /\ parked = {}
  /\ pos = 1 /\ from = 1 /\ epoch = 0
  /\ q = [x \in Streams |-> <<>>] /\ mem = [x \in Streams |-> 0]
  /\ seen = [t \in Producers |-> 0]
  /\ sleeping = FALSE /\ parsed = [x \in {"audio", "video"} |-> 0] /\ time_parsed = 0
  /\ parse_end = FALSE /\ need_key = ("video" \in Valid) /\ seek = FALSE
  /\ chunk = [x \in Streams |-> NoChunk]
  /\ video_end = FALSE /\ audio_end = FALSE /\ stream_end = FALSE
  /\ i = 0 /\ retry = 0 /\ ignore = FALSE /\ sc = 0
  /\ crashed = FALSE

Goto(t, l) == pc' = [pc EXCEPT ![t] = l]

(* Asked to idle, t waits where it acknowledges, until it is asked to run. *)
Running(t) ==
  t \notin parked /\ pc["app"] # (IF t = "parser" THEN "idle_parser" ELSE "idle_audio")

-----------------------------------------------------------------------------
(***************************************************************************)
(* The queues.                                                             *)
(***************************************************************************)
NodeMem(n) == NodeSize + File[n].size

add_packet(x, n) ==
  /\ q' = [q EXCEPT ![x] = Append(@, [n |-> n, epoch |-> epoch])]
  /\ mem' = [mem EXCEPT ![x] = @ + NodeMem(n)]

(* Mutant of get_packet: the memory of the packet is not given back. *)
get_packetKeepsMem(x) ==
  /\ q[x] # <<>>
  /\ q' = [q EXCEPT ![x] = Tail(@)]
  /\ UNCHANGED mem

get_packet(x) ==
  /\ q[x] # <<>>
  /\ q' = [q EXCEPT ![x] = Tail(@)]
  /\ mem' = [mem EXCEPT ![x] = @ - NodeMem(Head(q[x]).n)]

(* peek_packet( q, &packet, 0 ) of a queue that is not empty. *)
peek_packet(x) == File[Head(q[x]).n]

-----------------------------------------------------------------------------
(***************************************************************************)
(* _parse_once, called by the parser thread and by a seek.  mem_used of    *)
(* the three queues is read one after the other, outside their mutexes.    *)
(***************************************************************************)
(* Where thread t goes on when parse_once returns. *)
Return(t, atEnd) ==
  /\ seen' = [seen EXCEPT ![t] = 0]
  /\ IF t = "app" THEN Goto(t, "peek") /\ UNCHANGED i
     ELSE IF atEnd \/ i + 1 = Burst THEN Goto(t, "rate") /\ i' = 0
     ELSE Goto(t, "parse") /\ i' = i + 1

ParseKeeps == UNCHANGED <<parked, from, epoch, parsed, time_parsed, chunkVars, seek,
                          endVars, retry, ignore, sc, crashed>>

(* Asleep it goes on once less than WakeSleep is buffered. *)
ParseEnter(t) ==
  /\ pc[t] = "parse"
  /\ IF sleeping /\ time_parsed >= WakeSleep
       THEN Return(t, FALSE) /\ UNCHANGED sleeping
       ELSE /\ Goto(t, "vmem")
            /\ sleeping' = FALSE
            /\ seen' = [seen EXCEPT ![t] = mem["audio"]]
            /\ UNCHANGED i
  /\ UNCHANGED <<pos, queueVars, parse_end>> /\ ParseKeeps

(* Mutant of ParseReadVideo: the video counts alone, the audio is lost. *)
ParseReadVideoAlone(t) ==
  /\ pc[t] = "vmem"
  /\ Goto(t, "smem")
  /\ seen' = [seen EXCEPT ![t] = mem["video"]]
  /\ UNCHANGED <<pos, queueVars, parse_end, sleeping, i>> /\ ParseKeeps

ParseReadVideo(t) ==
  /\ pc[t] = "vmem"
  /\ Goto(t, "smem")
  /\ seen' = [seen EXCEPT ![t] = @ + mem["video"]]
  /\ UNCHANGED <<pos, queueVars, parse_end, sleeping, i>> /\ ParseKeeps

(* Full: a local file lets the disk sleep if enough is buffered. *)
ParseTest(t) ==
  /\ pc[t] = "smem"
  /\ IF seen[t] + mem["subtitle"] > BufferSize
       THEN /\ sleeping' = (sleeping \/ (time_parsed > WakeSleep /\ ~NonLocal))
            /\ Return(t, FALSE)
       ELSE Goto(t, "frame") /\ UNCHANGED <<sleeping, i, seen>>
  /\ UNCHANGED <<pos, queueVars, parse_end>> /\ ParseKeeps

ReadFrame(t) ==
  /\ pc[t] = "frame"
  /\ IF pos > Len(File)
       THEN parse_end' = TRUE /\ Return(t, TRUE) /\ UNCHANGED <<pos, queueVars>>
       ELSE /\ pos' = pos + 1
            /\ IF File[pos].stream \in Valid
                 THEN add_packet(File[pos].stream, pos)
                 ELSE UNCHANGED queueVars
            /\ Return(t, FALSE)
            /\ UNCHANGED parse_end
  /\ UNCHANGED sleeping /\ ParseKeeps

parse_once(t) == ParseEnter(t) \/ ParseReadVideo(t) \/ ParseTest(t) \/ ReadFrame(t)

-----------------------------------------------------------------------------
(***************************************************************************)
(* The parser thread: acknowledge, parse, now and then _calc_rate.         *)
(***************************************************************************)
ParserKeeps == UNCHANGED <<parked, fileVars, queueVars, seen, sleeping, parse_end,
                           chunkVars, seek, endVars, loopVars, crashed>>

ParserTop ==
  /\ pc["parser"] = "top" /\ Running("parser") /\ MayPlay
  /\ Goto("parser", "parse")
  /\ UNCHANGED <<parsed, time_parsed>> /\ ParserKeeps

(* Less than 100 ms after the last calc_rate there is none. *)
SkipRate ==
  /\ pc["parser"] = "rate"
  /\ Goto("parser", "top")
  /\ UNCHANGED <<parsed, time_parsed>> /\ ParserKeeps

(* The time an empty queue spans is what it was. *)
Span(x) ==
  IF x \in Valid /\ q[x] # <<>>
    THEN File[q[x][Len(q[x])].n].time - File[Head(q[x]).n].time
    ELSE parsed[x]

Less(a, b) == IF a < b THEN a ELSE b

(* Its two critical sections are one: only this thread uses the result. *)
calc_rate ==
  /\ pc["parser"] = "rate"
  /\ Goto("parser", "top")
  /\ parsed' = [x \in {"audio", "video"} |-> Span(x)]
  /\ time_parsed' =
       IF {"audio", "video"} \subseteq Valid THEN Less(Span("video"), Span("audio"))
       ELSE IF "audio" \in Valid THEN Span("audio") ELSE Span("video")
  /\ ParserKeeps

Parser == ParserTop \/ parse_once("parser") \/ SkipRate \/ calc_rate

-----------------------------------------------------------------------------
(***************************************************************************)
(* The engine thread: _get_next_chunk, _check_end, and a decode.           *)
(* cdata_now and cdata_next are one cell.                                  *)
(***************************************************************************)
EngineKeeps == UNCHANGED <<parked, fileVars, seen, rateVars, parse_end, seek, audio_end,
                           loopVars, crashed>>

EngineNext ==
  /\ pc["engine"] = "top"
  /\ Goto("engine", IF "video" \in Valid /\ ~seek /\ chunk["video"] = NoChunk
                      THEN "get" ELSE "check")
  /\ UNCHANGED <<queueVars, chunkVars, video_end, stream_end>> /\ EngineKeeps

(* Taking the packet and making a chunk of it are one action: a seek that  *)
(* comes in between might as well have come before.                        *)
get_video_cdata ==
  /\ pc["engine"] = "get"
  /\ \/ /\ q["video"] = <<>>
        /\ Goto("engine", "end")
        /\ UNCHANGED <<queueVars, chunkVars>>
     \/ /\ get_packet("video")
        /\ Goto("engine", "check")
        /\ IF need_key /\ ~peek_packet("video").key
             THEN UNCHANGED chunkVars
             ELSE /\ need_key' = FALSE
                  /\ chunk' = [chunk EXCEPT !["video"] = Head(q["video"])]
  /\ UNCHANGED <<video_end, stream_end>> /\ EngineKeeps

EngineEnd ==
  /\ pc["engine"] = "end"
  /\ Goto("engine", "check")
  /\ video_end' = (video_end \/ parse_end)
  /\ UNCHANGED <<queueVars, chunkVars, stream_end>> /\ EngineKeeps

(* Both streams, as far as there are any, are at the end. *)
AllEnded ==
  /\ "video" \in Valid => video_end /\ chunk["video"] = NoChunk
  /\ "audio" \in Valid => audio_end

(* At the end it goes on only when the video's flag is off again. *)
MayContinue == IF "video" \in Valid THEN ~video_end ELSE ~audio_end

(* The synchronous player does not look for the end while it plays the     *)
(* frames of a seek in a pause, the asynchronous one does.                 *)
TestsEnd == IF Async THEN MayPlay ELSE ~Paused

(* A decode takes the chunk. *)
GoesOn == MayPlay /\ (stream_end /\ TestsEnd => MayContinue)

check_end ==
  /\ pc["engine"] = "check"
  /\ Goto("engine", "top")
  /\ stream_end' = IF ~TestsEnd THEN stream_end
                   ELSE IF stream_end THEN ~MayContinue ELSE AllEnded
  /\ chunk' = IF GoesOn THEN [chunk EXCEPT !["video"] = NoChunk] ELSE chunk
  /\ UNCHANGED <<queueVars, need_key, video_end>> /\ EngineKeeps

Engine == EngineNext \/ get_video_cdata \/ EngineEnd \/ check_end

-----------------------------------------------------------------------------
(***************************************************************************)
(* The audio thread, which a seek idles: each turn of _audio_decode's loop *)
(* starts at "top", where it may be stopped.                               *)
(***************************************************************************)
AudioKeeps == UNCHANGED <<parked, fileVars, seen, rateVars, parse_end, need_key,
                          seek, video_end, stream_end, loopVars, crashed>>

(* No audio before the video has its first key frame. *)
AudioBlocked == "video" \in Valid /\ need_key

AudioNext ==
  /\ pc["audio"] = "top" /\ Running("audio") /\ "audio" \in Valid /\ ~Paused
  /\ chunk["audio"] = NoChunk
  /\ Goto("audio", IF AudioBlocked THEN "end" ELSE "get")
  /\ UNCHANGED <<queueVars, chunk, audio_end>> /\ AudioKeeps

(* Audio is dropped once the video is at its end. *)
get_audio_cdata ==
  /\ pc["audio"] = "get"
  /\ \/ /\ q["audio"] = <<>>
        /\ Goto("audio", "end")
        /\ UNCHANGED <<queueVars, chunk>>
     \/ /\ get_packet("audio")
        /\ Goto("audio", "top")
        /\ chunk' = [chunk EXCEPT !["audio"] =
                       IF "video" \in Valid /\ video_end THEN NoChunk ELSE Head(q["audio"])]
  /\ UNCHANGED audio_end /\ AudioKeeps

AudioEnd ==
  /\ pc["audio"] = "end"
  /\ Goto("audio", "top")
  /\ audio_end' = (audio_end \/ parse_end)
  /\ UNCHANGED <<queueVars, chunk>> /\ AudioKeeps

AudioDecode ==
  /\ pc["audio"] = "top" /\ Running("audio") /\ ~Paused
  /\ chunk["audio"] # NoChunk
  /\ chunk' = [chunk EXCEPT !["audio"] = NoChunk]
  /\ UNCHANGED <<pc, queueVars, audio_end>> /\ AudioKeeps

Audio == AudioNext \/ get_audio_cdata \/ AudioEnd \/ AudioDecode

-----------------------------------------------------------------------------
(***************************************************************************)
(* The subtitle thread, which a seek does not idle.                        *)
(***************************************************************************)
SubKeeps == UNCHANGED <<parked, fileVars, seen, rateVars, parse_end, need_key, seek,
                        endVars, loopVars, crashed>>

SubNext ==
  /\ pc["sub"] = "top" /\ "subtitle" \in Valid /\ ~Paused /\ ~seek
  /\ chunk["subtitle"] = NoChunk
  /\ Goto("sub", "get")
  /\ UNCHANGED <<queueVars, chunk>> /\ SubKeeps

get_subtitle_cdata ==
  /\ pc["sub"] = "get"
  /\ Goto("sub", "top")
  /\ IF q["subtitle"] = <<>>
       THEN UNCHANGED <<queueVars, chunk>>
       ELSE /\ get_packet("subtitle")
            /\ chunk' = [chunk EXCEPT !["subtitle"] = Head(q["subtitle"])]
  /\ SubKeeps

(* Its time has come. *)
SubShow ==
  /\ pc["sub"] = "top" /\ ~Paused /\ ~seek
  /\ chunk["subtitle"] # NoChunk
  /\ chunk' = [chunk EXCEPT !["subtitle"] = NoChunk]
  /\ UNCHANGED <<pc, queueVars>> /\ SubKeeps

Sub == SubNext \/ get_subtitle_cdata \/ SubShow

-----------------------------------------------------------------------------
(***************************************************************************)
(* A seek: _stream_seek_real around _seek of the parser.                   *)
(***************************************************************************)
SeekKeeps == UNCHANGED <<i, stream_end, video_end>>

Seek ==
  /\ pc["app"] = "out" /\ epoch < MaxSeeks
  /\ Goto("app", "idle_parser")
  /\ UNCHANGED <<parked, fileVars, queueVars, seen, rateVars, parse_end, chunkVars, seek,
                 audio_end, retry, ignore, sc, crashed>> /\ SeekKeeps

(* thread_state_set( IDLE ) of t: it returns when t is outside its work. *)
IdleThread(t, here, next) ==
  /\ pc["app"] = here
  /\ pc[t] = "top"
  /\ parked' = parked \cup {t}
  /\ Goto("app", next)
  /\ UNCHANGED <<fileVars, queueVars, seen, rateVars, parse_end, chunkVars, seek,
                 audio_end, retry, ignore, sc, crashed>> /\ SeekKeeps

(* The engine does not become idle: the seek is given up. *)
CannotIdle ==
  /\ pc["app"] = "wait"
  /\ Goto("app", "run_audio")
  /\ UNCHANGED <<parked, fileVars, queueVars, seen, rateVars, parse_end, chunkVars, seek,
                 audio_end, retry, ignore, sc, crashed>> /\ SeekKeeps

seek_init ==
  /\ pc["app"] = "wait"
  /\ Goto("app", "file")
  /\ seek' = TRUE
  /\ chunk' = [chunk EXCEPT !["video"] = NoChunk, !["subtitle"] = NoChunk]
  /\ sc' = 0
  /\ UNCHANGED <<parked, fileVars, queueVars, seen, rateVars, parse_end, need_key,
                 audio_end, retry, ignore, crashed>> /\ SeekKeeps

(* avformat_seek_file: it fails, or the file goes on at some packet. *)
SeekFile ==
  /\ pc["app"] = "file"
  /\ \/ Goto("app", "video_err") /\ UNCHANGED <<fileVars, parse_end>>
     \/ /\ Goto("app", "flush_video")
        /\ pos' \in Landings
        /\ from' = pos'
        /\ epoch' = epoch + 1
        /\ parse_end' = FALSE
  /\ UNCHANGED <<parked, queueVars, seen, rateVars, chunkVars, seek, audio_end, retry,
                 ignore, sc, crashed>> /\ SeekKeeps

(* Mutant of flush_packets: one packet is taken and no more. *)
flush_packetsOnce(x, here, next) ==
  /\ pc["app"] = here
  /\ Goto("app", next)
  /\ IF q[x] # <<>> THEN get_packet(x) ELSE UNCHANGED queueVars
  /\ UNCHANGED <<parked, fileVars, seen, rateVars, parse_end, chunkVars, seek, audio_end,
                 retry, ignore, sc, crashed>> /\ SeekKeeps

(* flush_packets takes packet after packet until there is none. *)
flush_packets(x, here, next) ==
  /\ pc["app"] = here
  /\ \/ get_packet(x) /\ UNCHANGED pc
     \/ q[x] = <<>> /\ Goto("app", next) /\ UNCHANGED queueVars
  /\ UNCHANGED <<parked, fileVars, seen, rateVars, parse_end, chunkVars, seek, audio_end,
                 retry, ignore, sc, crashed>> /\ SeekKeeps

SearchInit ==
  /\ pc["app"] = "init"
  /\ Goto("app", "search")
  /\ sleeping' = FALSE /\ retry' = Retries /\ ignore' = IgnoreFirst
  /\ UNCHANGED <<parked, fileVars, queueVars, seen, parsed, time_parsed, parse_end,
                 chunkVars, seek, audio_end, sc, crashed>> /\ SeekKeeps

SearchKeeps == UNCHANGED <<parked, fileVars, seen, rateVars, parse_end, chunkVars, seek,
                           audio_end>> /\ SeekKeeps

(* Mutant of SearchOn: the count is tested after it is decremented. *)
SearchOnPast ==
  /\ pc["app"] = "search"
  /\ retry' = retry - 1
  /\ Goto("app", IF retry' < 0 THEN "audio" ELSE "parse")
  /\ UNCHANGED <<queueVars, ignore, sc, crashed>> /\ SearchKeeps

SearchOn ==
  /\ pc["app"] = "search"
  /\ IF retry = 0 THEN Goto("app", "audio") /\ UNCHANGED retry
                  ELSE Goto("app", "parse") /\ retry' = retry - 1
  /\ UNCHANGED <<queueVars, ignore, sc, crashed>> /\ SearchKeeps

(* A key frame with a time ends the search; any other packet is dropped. *)
SearchPeek ==
  /\ pc["app"] = "peek"
  /\ IF q["video"] = <<>> THEN Goto("app", "search") /\ UNCHANGED <<ignore, sc>>
     ELSE LET p == peek_packet("video") IN
       IF p.key /\ ~ignore /\ p.time # NoTime
         THEN Goto("app", "audio") /\ sc' = p.time /\ UNCHANGED ignore
         ELSE Goto("app", "drop") /\ ignore' = (ignore /\ ~p.key) /\ UNCHANGED sc
  /\ UNCHANGED <<queueVars, retry, crashed>> /\ SearchKeeps

(* The packet that was seen may be gone: the engine is not idle. *)
SearchDrop ==
  /\ pc["app"] = "drop"
  /\ \/ get_packet("video") /\ Goto("app", "search") /\ UNCHANGED crashed
     \/ q["video"] = <<>> /\ crashed' = TRUE /\ UNCHANGED <<pc, queueVars>>
  /\ UNCHANGED <<retry, ignore, sc>> /\ SearchKeeps

(* Audio of before the key frame is dropped; the audio thread is idle. *)
SkipAudio ==
  /\ pc["app"] = "audio"
  /\ IF "audio" \in Valid /\ q["audio"] # <<>> /\ peek_packet("audio").time < sc
       THEN get_packet("audio") /\ UNCHANGED <<pc, retry, ignore, sc>>
       ELSE /\ Goto("app", "video_init") /\ UNCHANGED queueVars
            /\ retry' = 0 /\ ignore' = FALSE /\ sc' = 0
  /\ UNCHANGED crashed /\ SearchKeeps

(* Mutant of stream_audio_flush: what was decoded last is kept. *)
stream_audio_flushKeeps ==
  /\ audio_end' = FALSE
  /\ UNCHANGED chunk

(* stream_audio_flush: what the audio thread has is forgotten. *)
stream_audio_flush ==
  /\ chunk' = [chunk EXCEPT !["audio"] = NoChunk]
  /\ audio_end' = FALSE

(* video_init and stream_audio_flush, whether the parser could seek or not. *)
video_init ==
  /\ pc["app"] \in {"video_init", "video_err"}
  /\ Goto("app", IF pc["app"] = "video_init" THEN "run_parser" ELSE "run_audio")
  /\ seek' = FALSE /\ time_parsed' = 0
  /\ stream_audio_flush
  /\ UNCHANGED <<parked, fileVars, queueVars, seen, sleeping, parsed, parse_end,
                 need_key, retry, ignore, sc, crashed>> /\ SeekKeeps

RunKeeps == UNCHANGED <<fileVars, queueVars, seen, rateVars, parse_end, chunkVars, seek,
                        audio_end, retry, ignore, sc, crashed>> /\ SeekKeeps

RunParser ==
  /\ pc["app"] = "run_parser"
  /\ parked' = parked \ {"parser"}
  /\ Goto("app", "play")
  /\ RunKeeps

(* _stream_play_n_frames shows a frame, or gives up after a while. *)
PlayFrame ==
  /\ pc["app"] = "play"
  /\ Goto("app", "run_audio")
  /\ UNCHANGED parked /\ RunKeeps

seek_un_pause ==
  /\ pc["app"] = "run_audio"
  /\ parked' = {}
  /\ Goto("app", "out")
  /\ RunKeeps

SeekSteps ==
  \/ IdleThread("parser", "idle_parser", "idle_audio")
  \/ IdleThread("audio", "idle_audio", "wait")
  \/ CannotIdle \/ seek_init \/ SeekFile
  \/ flush_packets("video", "flush_video", "flush_audio")
  \/ flush_packets("audio", "flush_audio", "flush_subtitle")
  \/ flush_packets("subtitle", "flush_subtitle", "init")
  \/ SearchInit \/ SearchOn \/ parse_once("app") \/ SearchPeek \/ SearchDrop
  \/ SkipAudio \/ video_init \/ RunParser \/ PlayFrame \/ seek_un_pause

Next ==
  /\ ~crashed
  /\ Parser \/ Engine \/ Audio \/ Sub \/ Seek \/ SeekSteps

Spec == Init /\ [][Next]_vars

(* Each thread is scheduled; what a seek waits for ends or times out. *)
Fairness ==
  /\ WF_vars(~crashed /\ Parser) /\ WF_vars(~crashed /\ Engine)
  /\ WF_vars(~crashed /\ Audio) /\ WF_vars(~crashed /\ Sub)
  /\ WF_vars(~crashed /\ SeekSteps)

FairSpec == Spec /\ Fairness
-----------------------------------------------------------------------------
(***************************************************************************)
(* Properties.                                                             *)
(***************************************************************************)
Used == mem["audio"] + mem["video"] + mem["subtitle"]

(* The queues never hold more than one packet over the limit, although     *)
(* mem_used is summed unlocked while consumers change it, and although a   *)
(* seek reads packets in a thread of its own.                              *)
BufferBound == Used <= BufferSize + NodeSize + MaxSize

(* While the seek works on the queues the parser thread is outside of its  *)
(* work, and stays there.                                                  *)
SeekAlone ==
  pc["app"] \notin AppQuiet \cup {"play", "run_audio"} =>
    pc["parser"] = "top" /\ "parser" \in parked

(* What a producer has read of mem_used is not less than what is used now. *)
LevelSeen ==
  \A t \in Producers :
    /\ pc[t] = "vmem" => mem["audio"] <= seen[t]
    /\ pc[t] = "smem" => mem["audio"] + mem["video"] <= seen[t]
    /\ pc[t] = "frame" => Used <= BufferSize

(* The inductive invariant behind BufferBound: a producer that found room  *)
(* still has it when it adds its packet, since only it adds.               *)
LevelInv == SeekAlone /\ LevelSeen /\ BufferBound

Flushing == pc["app"] \in {"flush_video", "flush_audio", "flush_subtitle"}

(* Which packets of the file queue x holds. *)
Queued(x) == {q[x][k].n : k \in DOMAIN q[x]}

(* But while a seek flushes, a queue holds the last packets read of its    *)
(* stream since the seek landed, in the order of the file, none missing    *)
(* and none from before (_parse_once, _seek, _flush_packets).              *)
QueueIsRecent ==
  Flushing \/ \A x \in Valid :
    /\ \A k \in DOMAIN q[x] : q[x][k].epoch = epoch
    /\ \A k, l \in DOMAIN q[x] : k < l => q[x][k].n < q[x][l].n
    /\ \E first \in from..pos :
         Queued(x) = {n \in first..pos - 1 : File[n].stream = x}

(* Out of a seek the audio thread has no chunk from before the last one:   *)
(* it was idle, and stream_audio_flush forgot what it had.                 *)
AudioFresh ==
  pc["app"] = "out" /\ chunk["audio"] # NoChunk => chunk["audio"].epoch = epoch

(* Once the user leaves it alone, a parser that is not asleep for ever     *)
(* reads up to the end of the file: the consumers make room, and audio     *)
(* does not wait for a key frame that there is no room to read.            *)
FileIsRead ==
  <>[](pc["app"] = "out") /\ []<>~sleeping => <>(parse_end \/ crashed)

(* "video is at the end of file", s->video_end (Include/stream.h).         *)
VideoEndIsEnd == pc["app"] = "out" /\ video_end => parse_end
=============================================================================
