------------------------- MODULE PacketQueuesProofs -------------------------
(***************************************************************************)
(* Proofs about PacketQueues: type correctness, the bound on the memory of *)
(* the queues, what a seek leaves the audio thread, and what is in the     *)
(* queues, for any file, sizes, streams and limits.                        *)
(***************************************************************************)
EXTENDS PacketQueues, TLAPS

USE DEF Streams, Producers, Threads

(* A packet of the file has a size and a time. *)
LEMMA PacketFields ==
  ASSUME NEW n \in 1..Len(File)
  PROVE  /\ File[n].stream \in Streams \cup {"other"} /\ File[n].time \in Int
         /\ File[n].size \in Nat /\ File[n].size <= MaxSize
         /\ NodeMem(n) \in Nat /\ NodeMem(n) <= NodeSize + MaxSize
  <1>1. n \in DOMAIN File /\ File[n] \in Packet BY FileAssumption
  <1>2. File[n].size \in Nat /\ File[n].time \in Int
        /\ File[n].stream \in Streams \cup {"other"}
        BY <1>1 DEF Packet, NoTime
  <1>3. File[n].size <= MaxSize BY <1>1, FileAssumption
  <1>4. QED BY <1>2, <1>3, SizesAssumption DEF NodeMem

(* Taking a packet keeps the types and makes no queue larger. *)
LEMMA GetShrinks ==
  ASSUME QueueType, NEW x \in Streams, get_packet(x)
  PROVE  /\ q' \in [Streams -> Seq(Chunk)] /\ mem' \in [Streams -> Int]
         /\ \A y \in Streams : mem'[y] <= mem[y]
         /\ Head(q[x]) \in Chunk
  <1>0. q \in [Streams -> Seq(Chunk)] /\ mem \in [Streams -> Int] BY DEF QueueType
  <1>1. q[x] \in Seq(Chunk) /\ q[x] # <<>> BY <1>0 DEF get_packet
  <1>2. Head(q[x]) \in Chunk /\ Tail(q[x]) \in Seq(Chunk) BY <1>1
  <1>3. NodeMem(Head(q[x]).n) \in Nat BY <1>2, PacketFields DEF Chunk
  <1>4. q' \in [Streams -> Seq(Chunk)] BY <1>0, <1>2 DEF get_packet
  <1>5. mem' = [mem EXCEPT ![x] = @ - NodeMem(Head(q[x]).n)] BY DEF get_packet
  <1>6. mem[x] - NodeMem(Head(q[x]).n) \in Int /\ mem[x] - NodeMem(Head(q[x]).n) <= mem[x]
        BY <1>0, <1>3
  <1>7. mem' \in [Streams -> Int] BY <1>0, <1>5, <1>6
  <1>8. \A y \in Streams : mem'[y] <= mem[y] BY <1>0, <1>5, <1>6
  <1>9. QED BY <1>2, <1>4, <1>7, <1>8

(* Adding the packet at pos keeps the types. *)
LEMMA AddTypes ==
  ASSUME QueueType, pos \in 1..Len(File), File[pos].stream \in Streams,
         add_packet(File[pos].stream, pos)
  PROVE  q' \in [Streams -> Seq(Chunk)] /\ mem' \in [Streams -> Int]
  <1>1. q \in [Streams -> Seq(Chunk)] /\ mem \in [Streams -> Int] BY DEF QueueType
  <1>2. [n |-> pos, epoch |-> epoch] \in Chunk BY DEF QueueType, Chunk
  <1>3. Append(q[File[pos].stream], [n |-> pos, epoch |-> epoch]) \in Seq(Chunk)
        BY <1>1, <1>2
  <1>4. NodeMem(pos) \in Nat BY PacketFields
  <1>5. QED BY <1>1, <1>3, <1>4, SMTT(15) DEF add_packet

LEMMA PcStep == TypeOK /\ [Next]_vars => PcType'
  <1> SUFFICES ASSUME TypeOK, [Next]_vars PROVE PcType'
    OBVIOUS
  <1> USE DEF TypeOK, PcType, AppPC, AppQuiet, Searching, Parsing, Goto
  <1>1. CASE Parser
    BY <1>1, ZenonT(30) DEF Parser, ParserTop, parse_once, ParseEnter, ParseReadVideo, ParseTest,
       ReadFrame, Return, SkipRate, calc_rate, ParserKeeps, ParseKeeps
  <1>2. CASE Engine
    BY <1>2 DEF Engine, EngineNext, get_video_cdata, EngineEnd, check_end, EngineKeeps
  <1>3. CASE Audio
    <2>1. CASE AudioNext BY <2>1, ZenonT(30) DEF AudioNext, AudioKeeps
    <2>2. CASE get_audio_cdata BY <2>2, ZenonT(30) DEF get_audio_cdata, AudioKeeps
    <2>3. CASE AudioEnd BY <2>3, ZenonT(30) DEF AudioEnd, AudioKeeps
    <2>4. CASE AudioDecode BY <2>4, ZenonT(30) DEF AudioDecode, AudioKeeps
    <2>5. QED
      <3> HIDE DEF TypeOK, PcType, Goto
      <3> QED BY <1>3, <2>1, <2>2, <2>3, <2>4 DEF Audio
  <1>4. CASE Sub
    BY <1>4, ZenonT(30) DEF Sub, SubNext, get_subtitle_cdata, SubShow, SubKeeps
  <1>5. CASE Seek
    BY <1>5 DEF Seek
  <1>6. CASE SeekSteps
    <2>1. CASE \/ IdleThread("parser", "idle_parser", "idle_audio")
               \/ IdleThread("audio", "idle_audio", "wait")
               \/ CannotIdle \/ seek_init \/ SeekFile
      BY <2>1, ZenonT(30) DEF IdleThread, CannotIdle, seek_init, SeekFile
    <2>2. CASE \/ flush_packets("video", "flush_video", "flush_audio")
               \/ flush_packets("audio", "flush_audio", "flush_subtitle")
               \/ flush_packets("subtitle", "flush_subtitle", "init")
      BY <2>2 DEF flush_packets
    <2>3. CASE parse_once("app")
      BY <2>3, ZenonT(30) DEF parse_once, ParseEnter, ParseReadVideo, ParseTest, ReadFrame, Return,
         ParseKeeps
    <2>4. CASE SearchInit \/ SearchOn \/ SearchPeek \/ SearchDrop \/ SkipAudio
      <3>1. CASE SearchInit BY <3>1 DEF SearchInit
      <3>2. CASE SearchOn BY <3>2 DEF SearchOn, SearchKeeps
      <3>3. CASE SearchPeek BY <3>3 DEF SearchPeek, SearchKeeps
      <3>4. CASE SearchDrop BY <3>4 DEF SearchDrop, SearchKeeps
      <3>5. CASE SkipAudio BY <3>5 DEF SkipAudio, SearchKeeps
      <3>6. QED BY <2>4, <3>1, <3>2, <3>3, <3>4, <3>5
    <2>5. CASE video_init \/ RunParser \/ PlayFrame \/ seek_un_pause
      BY <2>5, ZenonT(30) DEF video_init, RunParser, PlayFrame, seek_un_pause, RunKeeps
    <2>6. QED
      <3> HIDE DEF TypeOK, PcType, Goto
      <3> QED BY <1>6, <2>1, <2>2, <2>3, <2>4, <2>5 DEF SeekSteps
  <1>7. CASE UNCHANGED vars
    BY <1>7 DEF vars
  <1>8. QED BY <1>1, <1>2, <1>3, <1>4, <1>5, <1>6, <1>7 DEF Next

(* A step of _parse_once adds the packet it reads, or leaves the queues. *)
LEMMA ParseQueues ==
  ASSUME QueueType, NEW t \in Producers, parse_once(t)
  PROVE  QueueType'
  <1>1. CASE ReadFrame(t)
    <2>1. pos \in Nat /\ Len(File) \in Nat BY FileAssumption DEF QueueType
    <2>2. CASE pos > Len(File)
      BY <1>1, <2>2 DEF ReadFrame, ParseKeeps, chunkVars, queueVars, QueueType, Chunk
    <2>3. CASE ~(pos > Len(File)) /\ File[pos].stream \in Valid
      <3>1. pos \in 1..Len(File) BY <2>1, <2>3 DEF QueueType
      <3>2. File[pos].stream \in Streams BY <2>3, ValidAssumption
      <3>3. add_packet(File[pos].stream, pos) BY <1>1, <2>3 DEF ReadFrame
      <3>4. q' \in [Streams -> Seq(Chunk)] /\ mem' \in [Streams -> Int]
            BY <3>1, <3>2, <3>3, AddTypes
      <3>5. pos' \in 1..Len(File) + 1 BY <1>1, <2>1, <2>3, <3>1 DEF ReadFrame
      <3>6. UNCHANGED <<from, epoch, chunk>>
            BY <1>1 DEF ReadFrame, ParseKeeps, chunkVars
      <3>7. QED BY <3>4, <3>5, <3>6 DEF QueueType, Chunk
    <2>4. CASE ~(pos > Len(File)) /\ File[pos].stream \notin Valid
      BY <1>1, <2>1, <2>4 DEF ReadFrame, ParseKeeps, chunkVars, queueVars, QueueType, Chunk
    <2>5. QED BY <2>2, <2>3, <2>4
  <1>2. CASE ParseEnter(t) \/ ParseReadVideo(t) \/ ParseTest(t)
    BY <1>2 DEF ParseEnter, ParseReadVideo, ParseTest, ParseKeeps, chunkVars, queueVars,
       QueueType, Chunk
  <1>3. QED BY <1>1, <1>2 DEF parse_once

LEMMA QueueStep == TypeOK /\ [Next]_vars => QueueType'
  <1> SUFFICES ASSUME QueueType, [Next]_vars PROVE QueueType'
    BY DEF TypeOK
  <1> USE DEF QueueType, Chunk, fileVars, queueVars, chunkVars
  <1>1. CASE Parser
    <2>1. CASE parse_once("parser") BY <2>1, ParseQueues
    <2>2. CASE ParserTop \/ SkipRate \/ calc_rate
      BY <2>2 DEF ParserTop, SkipRate, calc_rate, ParserKeeps
    <2>3. QED BY <1>1, <2>1, <2>2 DEF Parser
  <1>2. CASE Engine
    <2>1. CASE get_video_cdata
      <3>1. CASE get_packet("video")
        BY <2>1, <3>1, GetShrinks DEF get_video_cdata, EngineKeeps
      <3>2. CASE UNCHANGED <<queueVars, chunkVars>>
        BY <2>1, <3>2 DEF get_video_cdata, EngineKeeps
      <3>3. QED BY <2>1, <3>1, <3>2 DEF get_video_cdata
    <2>2. CASE EngineNext \/ EngineEnd \/ check_end
      BY <2>2 DEF EngineNext, EngineEnd, check_end, EngineKeeps
    <2>3. QED BY <1>2, <2>1, <2>2 DEF Engine
  <1>3. CASE Audio
    <2>1. CASE get_audio_cdata
      <3>1. CASE get_packet("audio")
        <4>1. q' \in [Streams -> Seq(Chunk)] /\ mem' \in [Streams -> Int]
              /\ Head(q["audio"]) \in Chunk
              BY <3>1, GetShrinks
        <4>2. UNCHANGED chunk \/ chunk' = [chunk EXCEPT !["audio"] =
                IF "video" \in Valid /\ video_end THEN NoChunk ELSE Head(q["audio"])]
              BY <2>1 DEF get_audio_cdata
        <4>3. chunk' \in [Streams -> Chunk \cup {NoChunk}] BY <4>1, <4>2
        <4>4. UNCHANGED fileVars BY <2>1 DEF get_audio_cdata, AudioKeeps
        <4>5. QED BY <4>1, <4>3, <4>4
      <3>2. CASE UNCHANGED <<queueVars, chunk>>
        BY <2>1, <3>2 DEF get_audio_cdata, AudioKeeps
      <3>3. QED BY <2>1, <3>1, <3>2 DEF get_audio_cdata
    <2>2. CASE AudioNext \/ AudioEnd \/ AudioDecode
      BY <2>2 DEF AudioNext, AudioEnd, AudioDecode, AudioKeeps
    <2>3. QED BY <1>3, <2>1, <2>2 DEF Audio
  <1>4. CASE Sub
    <2>1. CASE get_subtitle_cdata
      <3>1. CASE get_packet("subtitle")
        BY <2>1, <3>1, GetShrinks DEF get_subtitle_cdata, SubKeeps
      <3>2. CASE UNCHANGED <<queueVars, chunk>>
        BY <2>1, <3>2 DEF get_subtitle_cdata, SubKeeps
      <3>3. QED BY <2>1, <3>1, <3>2 DEF get_subtitle_cdata
    <2>2. CASE SubNext \/ SubShow
      BY <2>2 DEF SubNext, SubShow, SubKeeps
    <2>3. QED BY <1>4, <2>1, <2>2 DEF Sub
  <1>5. CASE Seek
    BY <1>5 DEF Seek
  <1>6. CASE SeekSteps
    <2>1. CASE SeekFile
      <3>1. UNCHANGED <<q, mem, chunk>> BY <2>1 DEF SeekFile
      <3>2. CASE UNCHANGED fileVars BY <3>1, <3>2
      <3>3. CASE pos' \in Landings /\ from' = pos' /\ epoch' = epoch + 1
        <4>1. pos' \in 1..Len(File) + 1 /\ from' \in 1..Len(File) + 1 /\ epoch' \in Nat
              BY <3>3, LandingsAssumption
        <4>2. QED BY <3>1, <4>1
      <3>4. QED BY <2>1, <3>2, <3>3 DEF SeekFile
    <2>2. CASE \/ IdleThread("parser", "idle_parser", "idle_audio")
               \/ IdleThread("audio", "idle_audio", "wait")
               \/ CannotIdle \/ seek_init
      BY <2>2 DEF IdleThread, CannotIdle, seek_init
    <2>3. ASSUME NEW x \in Streams, NEW here, NEW next, flush_packets(x, here, next)
          PROVE  QueueType'
      <3>1. CASE get_packet(x)
        BY <2>3, <3>1, GetShrinks DEF flush_packets
      <3>2. CASE UNCHANGED queueVars
        BY <2>3, <3>2 DEF flush_packets
      <3>3. QED BY <2>3, <3>1, <3>2 DEF flush_packets
    <2>4. CASE parse_once("app") BY <2>4, ParseQueues
    <2>5. CASE SearchInit \/ SearchOn \/ SearchPeek
      BY <2>5 DEF SearchInit, SearchOn, SearchPeek, SearchKeeps
    <2>6. CASE SearchDrop
      <3>1. CASE get_packet("video")
        BY <2>6, <3>1, GetShrinks DEF SearchDrop, SearchKeeps
      <3>2. CASE UNCHANGED queueVars
        BY <2>6, <3>2 DEF SearchDrop, SearchKeeps
      <3>3. QED BY <2>6, <3>1, <3>2 DEF SearchDrop
    <2>7. CASE SkipAudio
      <3>1. CASE get_packet("audio")
        BY <2>7, <3>1, GetShrinks DEF SkipAudio, SearchKeeps
      <3>2. CASE UNCHANGED queueVars
        BY <2>7, <3>2 DEF SkipAudio, SearchKeeps
      <3>3. QED BY <2>7, <3>1, <3>2 DEF SkipAudio
    <2>8. CASE video_init \/ RunParser \/ PlayFrame \/ seek_un_pause
      BY <2>8 DEF video_init, stream_audio_flush, RunParser, PlayFrame, seek_un_pause,
         RunKeeps
    <2>9. QED
      <3> HIDE DEF QueueType
      <3> QED BY <1>6, <2>1, <2>2, <2>3, <2>4, <2>5, <2>6, <2>7, <2>8 DEF SeekSteps
  <1>7. CASE UNCHANGED vars
    BY <1>7 DEF vars
  <1>8. QED BY <1>1, <1>2, <1>3, <1>4, <1>5, <1>6, <1>7 DEF Next

(* What calc_rate computes of a queue is a number. *)
LEMMA SpanType ==
  ASSUME QueueType, CounterType, NEW x \in {"audio", "video"}
  PROVE  Span(x) \in Int
  <1>1. CASE x \in Valid /\ q[x] # <<>>
    <2>1. q[x] \in Seq(Chunk) BY DEF QueueType
    <2>2. Head(q[x]) \in Chunk /\ q[x][Len(q[x])] \in Chunk BY <1>1, <2>1
    <2>3. Head(q[x]).n \in 1..Len(File) /\ q[x][Len(q[x])].n \in 1..Len(File)
          BY <2>2 DEF Chunk
    <2>4. File[Head(q[x]).n].time \in Int /\ File[q[x][Len(q[x])].n].time \in Int
          BY <2>3, PacketFields
    <2>5. QED BY <1>1, <2>4 DEF Span
  <1>2. CASE ~(x \in Valid /\ q[x] # <<>>)
    BY <1>2 DEF Span, CounterType
  <1>3. QED BY <1>1, <1>2

(* A step of _parse_once keeps its sum and its count in range. *)
LEMMA ParseCounters ==
  ASSUME QueueType, CounterType, NEW t \in Producers, parse_once(t)
  PROVE  CounterType'
  <1>1. mem \in [Streams -> Int] /\ seen \in [Producers -> Int] /\ Burst \in Nat
        BY BoundsAssumption DEF QueueType, CounterType
  <1>2. seen' \in [Producers -> Int]
    <2>1. CASE ParseEnter(t) BY <1>1, <2>1 DEF ParseEnter, Return
    <2>2. CASE ParseReadVideo(t) BY <1>1, <2>2 DEF ParseReadVideo
    <2>3. CASE ParseTest(t) BY <1>1, <2>3 DEF ParseTest, Return
    <2>4. CASE ReadFrame(t) BY <1>1, <2>4 DEF ReadFrame, Return
    <2>5. QED BY <2>1, <2>2, <2>3, <2>4 DEF parse_once
  <1>3. i' \in 0..Burst - 1
    <2>1. i' = i \/ i' = 0 \/ (i + 1 # Burst /\ i' = i + 1)
          BY DEF parse_once, ParseEnter, ParseReadVideo, ParseTest, ReadFrame, Return
    <2>2. i \in 0..Burst - 1 BY DEF CounterType
    <2>3. QED BY <1>1, <2>1, <2>2
  <1>4. UNCHANGED <<parsed, time_parsed, retry, sc>>
        BY DEF parse_once, ParseEnter, ParseReadVideo, ParseTest, ReadFrame, ParseKeeps
  <1>5. QED BY <1>2, <1>3, <1>4 DEF CounterType

LEMMA CounterStep == TypeOK /\ [Next]_vars => CounterType'
  <1> SUFFICES ASSUME QueueType, CounterType, [Next]_vars PROVE CounterType'
    BY DEF TypeOK
  <1>1. CASE Parser
    <2>1. CASE parse_once("parser") BY <2>1, ParseCounters
    <2>2. CASE ParserTop \/ SkipRate
      BY <2>2 DEF ParserTop, SkipRate, ParserKeeps, loopVars, CounterType
    <2>3. CASE calc_rate
      <3>1. Span("audio") \in Int /\ Span("video") \in Int BY SpanType
      <3>2. time_parsed' \in Int BY <2>3, <3>1 DEF calc_rate, Less
      <3>3. parsed' \in [{"audio", "video"} -> Int] BY <2>3, <3>1 DEF calc_rate
      <3>4. UNCHANGED <<seen, i, retry, sc>> BY <2>3 DEF calc_rate, ParserKeeps, loopVars
      <3>5. QED BY <3>2, <3>3, <3>4 DEF CounterType
    <2>4. QED BY <1>1, <2>1, <2>2, <2>3 DEF Parser
  <1>2. CASE Engine
    BY <1>2 DEF Engine, EngineNext, get_video_cdata, EngineEnd, check_end, EngineKeeps,
       rateVars, loopVars, CounterType
  <1>3. CASE Audio
    BY <1>3 DEF Audio, AudioNext, get_audio_cdata, AudioEnd, AudioDecode, AudioKeeps,
       rateVars, loopVars, CounterType
  <1>4. CASE Sub
    BY <1>4 DEF Sub, SubNext, get_subtitle_cdata, SubShow, SubKeeps, rateVars, loopVars,
       CounterType
  <1>5. CASE Seek
    BY <1>5 DEF Seek, SeekKeeps, rateVars, CounterType
  <1>6. CASE SeekSteps
    <2> USE DEF SeekKeeps, rateVars, CounterType
    <2>1. CASE SeekFile BY <2>1 DEF SeekFile
    <2>2. CASE \/ IdleThread("parser", "idle_parser", "idle_audio")
               \/ IdleThread("audio", "idle_audio", "wait")
               \/ CannotIdle \/ seek_init
      BY <2>2 DEF IdleThread, CannotIdle, seek_init
    <2>3. CASE \/ flush_packets("video", "flush_video", "flush_audio")
               \/ flush_packets("audio", "flush_audio", "flush_subtitle")
               \/ flush_packets("subtitle", "flush_subtitle", "init")
      BY <2>3 DEF flush_packets
    <2>4. CASE parse_once("app") BY <2>4, ParseCounters
    <2>5. CASE SearchInit BY <2>5, BoundsAssumption DEF SearchInit
    <2>6. CASE SearchOn
      <3>1. retry' = retry \/ (retry # 0 /\ retry' = retry - 1) BY <2>6 DEF SearchOn
      <3>2. retry' \in 0..Retries BY <3>1, BoundsAssumption
      <3>3. QED BY <2>6, <3>2 DEF SearchOn, SearchKeeps
    <2>7. CASE SearchPeek
      <3>1. sc' \in Int
        <4>1. CASE q["video"] = <<>> BY <2>7, <4>1 DEF SearchPeek
        <4>2. CASE q["video"] # <<>>
          <5>1. Head(q["video"]) \in Chunk BY <4>2 DEF QueueType
          <5>2. peek_packet("video").time \in Int
                BY <5>1, PacketFields DEF peek_packet, Chunk
          <5>3. QED BY <2>7, <4>2, <5>2 DEF SearchPeek
        <4>3. QED BY <4>1, <4>2
      <3>2. QED BY <2>7, <3>1 DEF SearchPeek, SearchKeeps
    <2>8. CASE SearchDrop BY <2>8 DEF SearchDrop, SearchKeeps
    <2>9. CASE SkipAudio BY <2>9, BoundsAssumption DEF SkipAudio, SearchKeeps
    <2>10. CASE video_init \/ RunParser \/ PlayFrame \/ seek_un_pause
      BY <2>10 DEF video_init, RunParser, PlayFrame, seek_un_pause, RunKeeps
    <2>11. QED
      <3> HIDE DEF CounterType
      <3> QED BY <1>6, <2>1, <2>2, <2>3, <2>4, <2>5, <2>6, <2>7, <2>8, <2>9, <2>10
            DEF SeekSteps
  <1>7. CASE UNCHANGED vars
    BY <1>7 DEF vars, rateVars, loopVars, CounterType
  <1>8. QED BY <1>1, <1>2, <1>3, <1>4, <1>5, <1>6, <1>7 DEF Next

LEMMA FlagStep == TypeOK /\ [Next]_vars => FlagType'
  <1> SUFFICES ASSUME FlagType, [Next]_vars PROVE FlagType'
    BY DEF TypeOK
  <1> USE DEF FlagType, rateVars, chunkVars, endVars, loopVars
  <1>1. ASSUME NEW t \in Producers, parse_once(t) PROVE FlagType'
    <2>1. UNCHANGED <<need_key, seek, ignore, crashed, video_end, audio_end, stream_end>>
          BY <1>1 DEF parse_once, ParseEnter, ParseReadVideo, ParseTest, ReadFrame,
             ParseKeeps
    <2>2. parse_end' \in BOOLEAN
          BY <1>1 DEF parse_once, ParseEnter, ParseReadVideo, ParseTest, ReadFrame
    <2>3. sleeping' \in BOOLEAN
      <3>1. CASE ParseEnter(t) BY <3>1 DEF ParseEnter
      <3>2. CASE ParseReadVideo(t) BY <3>2 DEF ParseReadVideo
      <3>3. CASE ParseTest(t) BY <3>3 DEF ParseTest
      <3>4. CASE ReadFrame(t) BY <3>4 DEF ReadFrame
      <3>5. QED BY <1>1, <3>1, <3>2, <3>3, <3>4 DEF parse_once
    <2>4. QED BY <2>1, <2>2, <2>3
  <1>2. CASE ParserTop \/ SkipRate \/ calc_rate
    BY <1>2 DEF ParserTop, SkipRate, calc_rate, ParserKeeps
  <1>3. CASE EngineNext BY <1>3 DEF EngineNext, EngineKeeps
  <1>4. CASE get_video_cdata BY <1>4 DEF get_video_cdata, EngineKeeps
  <1>5. CASE EngineEnd BY <1>5 DEF EngineEnd, EngineKeeps
  <1>6. CASE check_end
    <2>1. MayContinue \in BOOLEAN BY DEF MayContinue
    <2>2. AllEnded \in BOOLEAN BY DEF AllEnded
    <2>3. stream_end' \in BOOLEAN BY <1>6, <2>1, <2>2 DEF check_end
    <2>4. UNCHANGED <<sleeping, parse_end, need_key, seek, ignore, crashed, video_end,
                      audio_end>>
          BY <1>6 DEF check_end, EngineKeeps
    <2>5. QED BY <2>3, <2>4
  <1>7. CASE AudioNext \/ get_audio_cdata \/ AudioEnd \/ AudioDecode
    BY <1>7 DEF AudioNext, get_audio_cdata, AudioEnd, AudioDecode, AudioKeeps
  <1>8. CASE Sub
    BY <1>8 DEF Sub, SubNext, get_subtitle_cdata, SubShow, SubKeeps
  <1>9. CASE Seek
    BY <1>9 DEF Seek, SeekKeeps
  <1>10. CASE SeekSteps
    <2> USE DEF SeekKeeps
    <2>1. CASE \/ IdleThread("parser", "idle_parser", "idle_audio")
               \/ IdleThread("audio", "idle_audio", "wait")
               \/ CannotIdle \/ seek_init \/ SeekFile
      BY <2>1, ZenonT(30) DEF IdleThread, CannotIdle, seek_init, SeekFile
    <2>2. CASE \/ flush_packets("video", "flush_video", "flush_audio")
               \/ flush_packets("audio", "flush_audio", "flush_subtitle")
               \/ flush_packets("subtitle", "flush_subtitle", "init")
      BY <2>2 DEF flush_packets
    <2>3. CASE SearchInit BY <2>3, BoundsAssumption DEF SearchInit
    <2>4. CASE SearchOn BY <2>4 DEF SearchOn, SearchKeeps
    <2>5. CASE SearchPeek BY <2>5 DEF SearchPeek, SearchKeeps
    <2>6. CASE SearchDrop BY <2>6 DEF SearchDrop, SearchKeeps
    <2>7. CASE SkipAudio BY <2>7 DEF SkipAudio, SearchKeeps
    <2>8. CASE video_init \/ RunParser \/ PlayFrame \/ seek_un_pause
      BY <2>8, ZenonT(30) DEF video_init, stream_audio_flush, RunParser, PlayFrame, seek_un_pause,
         RunKeeps
    <2>9. QED
      <3> HIDE DEF FlagType
      <3> QED BY <1>1, <1>10, <2>1, <2>2, <2>3, <2>4, <2>5, <2>6, <2>7, <2>8 DEF SeekSteps
  <1>11. CASE UNCHANGED vars
    BY <1>11 DEF vars
  <1>12. QED
    <2> HIDE DEF FlagType
    <2> QED BY <1>1, <1>2, <1>3, <1>4, <1>5, <1>6, <1>7, <1>8, <1>9, <1>10, <1>11
          DEF Next, Parser, Engine, Audio

LEMMA InitTypes == Init => TypeOK
  <1> SUFFICES ASSUME Init PROVE TypeOK
    OBVIOUS
  <1>1. Len(File) \in Nat BY FileAssumption
  <1>2. PcType BY DEF Init, PcType, AppPC, AppQuiet, Searching, Parsing
  <1>3. QueueType BY <1>1 DEF Init, QueueType
  <1>4. CounterType BY BoundsAssumption DEF Init, CounterType
  <1>5. FlagType
    <2>1. ("video" \in Valid) \in BOOLEAN OBVIOUS
    <2>2. need_key \in BOOLEAN BY <2>1, Zenon DEF Init
    <2>3. QED BY <2>2, Zenon DEF Init, FlagType
  <1>6. QED BY <1>2, <1>3, <1>4, <1>5 DEF TypeOK

(* Every variable keeps its type: the parser thread and the seek are where *)
(* their code can be, the queues hold packets of the file, and the counts  *)
(* of _parse and of _seek stay in range.                                   *)
THEOREM TypeCorrect == Spec => []TypeOK
  <1>1. TypeOK /\ [Next]_vars => TypeOK'
        BY PcStep, QueueStep, CounterStep, FlagStep DEF TypeOK
  <1>2. QED BY InitTypes, <1>1, PTL DEF Spec

(***************************************************************************)
(* The bound.  Only _parse_once makes a queue larger, and while the seek   *)
(* is in it the parser thread is not.                                      *)
(***************************************************************************)
Smaller == \A x \in Streams : mem'[x] <= mem[x]

(* A step that takes packets, leaves what the producers have read, and     *)
(* brings none of them into _parse_once keeps what they have read true.    *)
LEMMA LevelKept ==
  ASSUME TypeOK, TypeOK', LevelInv, Smaller,
         \A t \in Producers : pc'[t] = pc[t] \/ pc'[t] \notin Parsing,
         UNCHANGED seen
  PROVE  (LevelSeen /\ BufferBound)'
  <1>1. mem \in [Streams -> Int] /\ mem' \in [Streams -> Int] BY DEF TypeOK, QueueType
  <1>2. seen \in [Producers -> Int] /\ BufferSize \in Int
        BY SizesAssumption DEF TypeOK, CounterType
  <1>3. /\ mem["audio"] \in Int /\ mem["video"] \in Int /\ mem["subtitle"] \in Int
        /\ mem'["audio"] \in Int /\ mem'["video"] \in Int /\ mem'["subtitle"] \in Int
        BY <1>1
  <1>4. /\ mem'["audio"] <= mem["audio"] /\ mem'["video"] <= mem["video"]
        /\ mem'["subtitle"] <= mem["subtitle"]
        BY DEF Smaller
  <1>5. Used' <= Used BY <1>3, <1>4 DEF Used
  <1>6. BufferBound'
        BY <1>3, <1>5, SizesAssumption DEF BufferBound, LevelInv, Used
  <1>7. LevelSeen'
    <2> SUFFICES ASSUME NEW t \in Producers
                 PROVE  /\ pc'[t] = "vmem" => mem'["audio"] <= seen'[t]
                        /\ pc'[t] = "smem" => mem'["audio"] + mem'["video"] <= seen'[t]
                        /\ pc'[t] = "frame" => Used' <= BufferSize
      BY DEF LevelSeen
    <2>1. seen[t] \in Int /\ seen'[t] = seen[t] BY <1>2
    <2>2. CASE pc'[t] = pc[t]
      BY <1>2, <1>3, <1>4, <1>5, <2>1, <2>2 DEF LevelInv, LevelSeen, Used
    <2>3. CASE pc'[t] \notin Parsing BY <2>3 DEF Parsing
    <2>4. QED BY <2>2, <2>3
  <1>8. QED BY <1>6, <1>7

(* While a producer is in _parse_once the other one is not. *)
LEMMA OneProducer ==
  ASSUME TypeOK, SeekAlone, NEW t \in Producers, pc[t] \in Searching
  PROVE  \A u \in Producers \ {t} : pc[u] \notin Searching
  BY DEF TypeOK, PcType, SeekAlone, Searching, Parsing, AppQuiet

(* A step of _parse_once: what it has read is what is used or more, and it *)
(* adds a packet only where there was room.                                *)
LEMMA ParseLevel ==
  ASSUME TypeOK, TypeOK', LevelInv, NEW t \in Producers, parse_once(t)
  PROVE  (LevelSeen /\ BufferBound)'
  <1>1. mem \in [Streams -> Int] /\ mem' \in [Streams -> Int] BY DEF TypeOK, QueueType
  <1>2. seen \in [Producers -> Int] /\ BufferSize \in Nat /\ NodeSize \in Nat
        /\ MaxSize \in Nat
        BY SizesAssumption DEF TypeOK, CounterType
  <1>3. /\ mem["audio"] \in Int /\ mem["video"] \in Int /\ mem["subtitle"] \in Int
        /\ mem'["audio"] \in Int /\ mem'["video"] \in Int /\ mem'["subtitle"] \in Int
        /\ seen[t] \in Int
        BY <1>1, <1>2
  <1>4. pc \in [Threads -> AppPC \cup {"top", "rate", "get", "end", "check"}]
        BY DEF TypeOK, PcType
  <1>5. pc[t] \in Searching
        BY DEF parse_once, ParseEnter, ParseReadVideo, ParseTest, ReadFrame, Searching,
           Parsing
  <1>6. \A u \in Producers \ {t} : pc'[u] = pc[u] /\ pc'[u] \notin Parsing
        BY <1>4, <1>5, OneProducer DEF LevelInv, parse_once, ParseEnter, ParseReadVideo,
           ParseTest, ReadFrame, Return, Goto, Searching
  <1>7. SUFFICES /\ pc'[t] = "vmem" => mem'["audio"] <= seen'[t]
                 /\ pc'[t] = "smem" => mem'["audio"] + mem'["video"] <= seen'[t]
                 /\ pc'[t] = "frame" => Used' <= BufferSize
                 /\ BufferBound'
    BY <1>6 DEF LevelSeen, Parsing
  <1>8. CASE ParseEnter(t)
    <2>1. mem' = mem BY <1>8 DEF ParseEnter, queueVars
    <2>2. pc'[t] \notin Parsing \/ (pc'[t] = "vmem" /\ seen'[t] = mem["audio"])
          BY <1>2, <1>4, <1>8 DEF ParseEnter, Return, Goto, Parsing
    <2>3. QED BY <1>3, <2>1, <2>2 DEF LevelInv, BufferBound, Used, Parsing
  <1>9. CASE ParseReadVideo(t)
    <2>1. mem' = mem BY <1>9 DEF ParseReadVideo, queueVars
    <2>2. pc'[t] = "smem" /\ seen'[t] = seen[t] + mem["video"]
          BY <1>2, <1>4, <1>9 DEF ParseReadVideo, Goto
    <2>3. mem["audio"] <= seen[t] BY <1>9 DEF ParseReadVideo, LevelInv, LevelSeen
    <2>4. QED BY <1>3, <2>1, <2>2, <2>3 DEF LevelInv, BufferBound, Used
  <1>10. CASE ParseTest(t)
    <2>1. mem' = mem BY <1>10 DEF ParseTest, queueVars
    <2>2. mem["audio"] + mem["video"] <= seen[t]
          BY <1>10 DEF ParseTest, LevelInv, LevelSeen
    <2>3. CASE seen[t] + mem["subtitle"] > BufferSize
      <3>1. pc'[t] \notin Parsing BY <1>4, <1>10, <2>3 DEF ParseTest, Return, Goto, Parsing
      <3>2. QED BY <2>1, <3>1 DEF LevelInv, BufferBound, Used, Parsing
    <2>4. CASE ~(seen[t] + mem["subtitle"] > BufferSize)
      <3>1. pc'[t] = "frame" BY <1>4, <1>10, <2>4 DEF ParseTest, Goto
      <3>2. Used <= BufferSize BY <1>2, <1>3, <2>2, <2>4 DEF Used
      <3>3. QED BY <2>1, <3>1, <3>2 DEF LevelInv, BufferBound, Used
    <2>5. QED BY <2>3, <2>4
  <1>11. CASE ReadFrame(t)
    <2>1. Used <= BufferSize BY <1>11 DEF ReadFrame, LevelInv, LevelSeen
    <2>2. pc'[t] \notin Parsing BY <1>4, <1>11 DEF ReadFrame, Return, Goto, Parsing
    <2>3. Used' <= Used + (NodeSize + MaxSize)
      <3>1. CASE mem' = mem BY <1>2, <1>3, <3>1 DEF Used
      <3>2. CASE /\ ~(pos > Len(File)) /\ File[pos].stream \in Valid
                 /\ add_packet(File[pos].stream, pos)
        <4>1. pos \in 1..Len(File) BY <3>2, FileAssumption DEF TypeOK, QueueType
        <4>2. NodeMem(pos) \in Nat /\ NodeMem(pos) <= NodeSize + MaxSize
              BY <4>1, PacketFields
        <4>3. File[pos].stream \in Streams BY <3>2, ValidAssumption
        <4>4. mem' = [mem EXCEPT ![File[pos].stream] = @ + NodeMem(pos)]
              BY <3>2 DEF add_packet
        <4>5. Used' = Used + NodeMem(pos)
          <5>1. CASE File[pos].stream = "audio" BY <1>1, <1>3, <4>2, <4>4, <5>1 DEF Used
          <5>2. CASE File[pos].stream = "video" BY <1>1, <1>3, <4>2, <4>4, <5>2 DEF Used
          <5>3. CASE File[pos].stream = "subtitle"
            BY <1>1, <1>3, <4>2, <4>4, <5>3 DEF Used
          <5>4. QED BY <4>3, <5>1, <5>2, <5>3
        <4>6. Used \in Int BY <1>3 DEF Used
        <4>7. QED BY <1>2, <4>2, <4>5, <4>6
      <3>3. QED BY <1>11, <3>1, <3>2 DEF ReadFrame, queueVars
    <2>4. Used \in Int /\ Used' \in Int BY <1>3 DEF Used
    <2>5. QED BY <1>2, <2>1, <2>2, <2>3, <2>4 DEF BufferBound, Parsing
  <1>12. QED BY <1>8, <1>9, <1>10, <1>11 DEF parse_once

(* The parser thread that the seek has stopped stays where it is.          *)
LEMMA AloneStep == TypeOK /\ SeekAlone /\ [Next]_vars => SeekAlone'
  <1> SUFFICES ASSUME TypeOK, SeekAlone, [Next]_vars PROVE SeekAlone'
    OBVIOUS
  <1>0. pc \in [Threads -> AppPC \cup {"top", "rate", "get", "end", "check"}]
        BY DEF TypeOK, PcType
  <1> USE <1>0 DEF SeekAlone, AppQuiet, Goto
  <1>1. CASE Parser
    BY <1>1 DEF Parser, ParserTop, Running, parse_once, ParseEnter, ParseReadVideo,
       ParseTest, ReadFrame, Return, SkipRate, calc_rate, ParserKeeps, ParseKeeps
  <1>2. CASE Engine
    BY <1>2 DEF Engine, EngineNext, get_video_cdata, EngineEnd, check_end, EngineKeeps
  <1>3. CASE Audio
    BY <1>3 DEF Audio, AudioNext, get_audio_cdata, AudioEnd, AudioDecode, AudioKeeps
  <1>4. CASE Sub
    BY <1>4 DEF Sub, SubNext, get_subtitle_cdata, SubShow, SubKeeps
  <1>5. CASE Seek
    BY <1>5 DEF Seek
  <1>6. CASE SeekSteps
    <2>1. CASE IdleThread("parser", "idle_parser", "idle_audio")
      BY <2>1 DEF IdleThread
    <2>2. CASE \/ IdleThread("audio", "idle_audio", "wait")
               \/ CannotIdle \/ seek_init \/ SeekFile
      BY <2>2 DEF IdleThread, CannotIdle, seek_init, SeekFile
    <2>3. CASE \/ flush_packets("video", "flush_video", "flush_audio")
               \/ flush_packets("audio", "flush_audio", "flush_subtitle")
               \/ flush_packets("subtitle", "flush_subtitle", "init")
      BY <2>3 DEF flush_packets
    <2>4. CASE parse_once("app")
      BY <2>4 DEF parse_once, ParseEnter, ParseReadVideo, ParseTest, ReadFrame, Return,
         ParseKeeps
    <2>5. CASE SearchInit BY <2>5 DEF SearchInit
    <2>6. CASE SearchOn BY <2>6 DEF SearchOn, SearchKeeps
    <2>7. CASE SearchPeek BY <2>7 DEF SearchPeek, SearchKeeps
    <2>8. CASE SearchDrop BY <2>8 DEF SearchDrop, SearchKeeps
    <2>9. CASE SkipAudio BY <2>9 DEF SkipAudio, SearchKeeps
    <2>10. CASE video_init BY <2>10 DEF video_init
    <2>11. CASE RunParser \/ PlayFrame \/ seek_un_pause
      BY <2>11 DEF RunParser, PlayFrame, seek_un_pause, RunKeeps
    <2>12. QED
      <3> HIDE DEF SeekAlone, Goto
      <3> QED BY <1>6, <2>1, <2>2, <2>3, <2>4, <2>5, <2>6, <2>7, <2>8, <2>9, <2>10, <2>11
            DEF SeekSteps
  <1>7. CASE UNCHANGED vars
    BY <1>7 DEF vars
  <1>8. QED BY <1>1, <1>2, <1>3, <1>4, <1>5, <1>6, <1>7 DEF Next

(* A step that is not one of _parse_once only takes packets.               *)
Takes ==
  Smaller /\ UNCHANGED seen
  /\ \A t \in Producers : pc'[t] = pc[t] \/ pc'[t] \notin Parsing

LEMMA OthersTake ==
  ASSUME TypeOK, [Next]_vars, ~parse_once("parser"), ~parse_once("app")
  PROVE  Takes
  <1>0. /\ pc \in [Threads -> AppPC \cup {"top", "rate", "get", "end", "check"}]
        /\ mem \in [Streams -> Int] /\ QueueType
        BY DEF TypeOK, PcType, QueueType
  <1>1. ASSUME UNCHANGED mem PROVE Smaller BY <1>0, <1>1 DEF Smaller
  <1>2. ASSUME NEW x \in Streams, get_packet(x) PROVE Smaller
        BY <1>0, <1>2, GetShrinks DEF Smaller
  <1>3. Smaller
    <2> USE DEF queueVars
    <2>1. CASE ParserTop \/ SkipRate \/ calc_rate
      BY <1>1, <2>1 DEF ParserTop, SkipRate, calc_rate, ParserKeeps
    <2>2. CASE Engine
      BY <1>1, <1>2, <2>2 DEF Engine, EngineNext, get_video_cdata, EngineEnd, check_end
    <2>3. CASE Audio
      BY <1>1, <1>2, <2>3 DEF Audio, AudioNext, get_audio_cdata, AudioEnd, AudioDecode
    <2>4. CASE Sub
      BY <1>1, <1>2, <2>4 DEF Sub, SubNext, get_subtitle_cdata, SubShow
    <2>5. CASE Seek
      BY <1>1, <2>5 DEF Seek
    <2>6. CASE SeekSteps
      <3>1. CASE \/ IdleThread("parser", "idle_parser", "idle_audio")
                 \/ IdleThread("audio", "idle_audio", "wait")
                 \/ CannotIdle \/ seek_init \/ SeekFile \/ SearchInit
        BY <1>1, <3>1 DEF IdleThread, CannotIdle, seek_init, SeekFile, SearchInit
      <3>2. CASE \/ flush_packets("video", "flush_video", "flush_audio")
                 \/ flush_packets("audio", "flush_audio", "flush_subtitle")
                 \/ flush_packets("subtitle", "flush_subtitle", "init")
        BY <1>1, <1>2, <3>2 DEF flush_packets
      <3>3. CASE SearchOn \/ SearchPeek \/ SearchDrop \/ SkipAudio
        BY <1>1, <1>2, <3>3 DEF SearchOn, SearchPeek, SearchDrop, SkipAudio
      <3>4. CASE video_init \/ RunParser \/ PlayFrame \/ seek_un_pause
        BY <1>1, <3>4 DEF video_init, RunParser, PlayFrame, seek_un_pause, RunKeeps
      <3>5. QED BY <2>6, <3>1, <3>2, <3>3, <3>4 DEF SeekSteps
    <2>7. CASE UNCHANGED vars BY <1>1, <2>7 DEF vars
    <2>8. QED BY <2>1, <2>2, <2>3, <2>4, <2>5, <2>6, <2>7 DEF Next, Parser
  <1>4. UNCHANGED seen /\ \A t \in Producers : pc'[t] = pc[t] \/ pc'[t] \notin Parsing
    <2> USE <1>0 DEF Goto, Parsing
    <2>1. CASE ParserTop \/ SkipRate \/ calc_rate
      BY <2>1 DEF ParserTop, SkipRate, calc_rate, ParserKeeps
    <2>2. CASE Engine
      BY <2>2 DEF Engine, EngineNext, get_video_cdata, EngineEnd, check_end, EngineKeeps
    <2>3. CASE Audio
      BY <2>3 DEF Audio, AudioNext, get_audio_cdata, AudioEnd, AudioDecode, AudioKeeps
    <2>4. CASE Sub
      BY <2>4 DEF Sub, SubNext, get_subtitle_cdata, SubShow, SubKeeps
    <2>5. CASE Seek
      BY <2>5 DEF Seek
    <2>6. CASE SeekSteps
      <3>1. CASE \/ IdleThread("parser", "idle_parser", "idle_audio")
                 \/ IdleThread("audio", "idle_audio", "wait")
                 \/ CannotIdle \/ seek_init \/ SeekFile \/ SearchInit
        BY <3>1 DEF IdleThread, CannotIdle, seek_init, SeekFile, SearchInit
      <3>2. CASE \/ flush_packets("video", "flush_video", "flush_audio")
                 \/ flush_packets("audio", "flush_audio", "flush_subtitle")
                 \/ flush_packets("subtitle", "flush_subtitle", "init")
        BY <3>2 DEF flush_packets
      <3>3. CASE SearchOn \/ SearchPeek \/ SearchDrop \/ SkipAudio
        BY <3>3 DEF SearchOn, SearchPeek, SearchDrop, SkipAudio, SearchKeeps
      <3>4. CASE video_init \/ RunParser \/ PlayFrame \/ seek_un_pause
        BY <3>4 DEF video_init, RunParser, PlayFrame, seek_un_pause, RunKeeps
      <3>5. QED
        <4> HIDE <1>0 DEF Goto, Parsing
        <4> QED BY <2>6, <3>1, <3>2, <3>3, <3>4 DEF SeekSteps
    <2>7. CASE UNCHANGED vars BY <2>7 DEF vars
    <2>8. QED
      <3> HIDE <1>0 DEF Goto, Parsing
      <3> QED BY <2>1, <2>2, <2>3, <2>4, <2>5, <2>6, <2>7 DEF Next, Parser
  <1>5. QED BY <1>3, <1>4 DEF Takes

(* What a producer in _parse_once has summed is never less than what is    *)
(* used, and only one producer is in it: the invariant behind the bound.   *)
THEOREM LevelInductive == Spec => []LevelInv
  <1>1. Init => LevelInv
    <2> SUFFICES ASSUME Init PROVE LevelInv
      OBVIOUS
    <2>1. SeekAlone BY DEF Init, SeekAlone, AppQuiet
    <2>2. LevelSeen BY DEF Init, LevelSeen
    <2>3. BufferBound BY SizesAssumption DEF Init, BufferBound, Used
    <2>4. QED BY <2>1, <2>2, <2>3 DEF LevelInv
  <1>2. TypeOK /\ TypeOK' /\ LevelInv /\ [Next]_vars => LevelInv'
    <2> SUFFICES ASSUME TypeOK, TypeOK', LevelInv, [Next]_vars PROVE LevelInv'
      OBVIOUS
    <2>1. SeekAlone' BY AloneStep DEF LevelInv
    <2>2. (LevelSeen /\ BufferBound)'
      <3>1. CASE parse_once("parser") BY <3>1, ParseLevel
      <3>2. CASE parse_once("app") BY <3>2, ParseLevel
      <3>3. CASE ~parse_once("parser") /\ ~parse_once("app")
        <4>1. Takes BY <3>3, OthersTake
        <4>2. QED BY <4>1, LevelKept DEF Takes
      <3>4. QED BY <3>1, <3>2, <3>3
    <2>3. QED BY <2>1, <2>2 DEF LevelInv
  <1>3. QED BY <1>1, <1>2, TypeCorrect, PTL DEF Spec

(* For any file, buffer and packet sizes, and however many seeks: the      *)
(* queues hold at most one packet more than the buffer size, whatever the  *)
(* consumers do while a producer sums mem_used without a lock.             *)
THEOREM QueuesBounded == Spec => []BufferBound
  <1>1. LevelInv => BufferBound BY DEF LevelInv
  <1>2. QED BY <1>1, LevelInductive, PTL
-----------------------------------------------------------------------------
(* The audio thread is outside of its work from the moment the seek has    *)
(* its answer.                                                             *)
AudioStopped ==
  pc["app"] \notin AppQuiet \cup {"idle_audio"} =>
    pc["audio"] = "top" /\ "audio" \in parked

(* Every packet in the audio queue was read after the last seek landed. *)
Recent == \A k \in 1..Len(q["audio"]) : q["audio"][k].epoch = epoch

(* But for the time it takes to flush what was queued before. *)
QueueFresh == pc["app"] \in {"flush_video", "flush_audio"} \/ Recent

(* But for the time from the landing until stream_audio_flush. *)
ChunkFresh ==
  pc["app"] \in {"out", "idle_parser", "idle_audio", "wait", "file", "run_parser",
                 "play", "run_audio"} =>
    chunk["audio"] = NoChunk \/ chunk["audio"].epoch = epoch

FreshInv == AudioStopped /\ QueueFresh /\ ChunkFresh

(* Taking a packet leaves none older, and takes none older. *)
LEMMA GetRecent ==
  ASSUME QueueType, NEW x \in Streams, get_packet(x), Recent, epoch' = epoch
  PROVE  Recent' /\ (x = "audio" => Head(q[x]).epoch = epoch)
  <1>1. q \in [Streams -> Seq(Chunk)] BY DEF QueueType
  <1>2. q' = [q EXCEPT ![x] = Tail(@)] /\ q[x] # <<>> BY DEF get_packet
  <1>3. CASE x = "audio"
    <2>1. PICK s \in Seq(Chunk) : s = q["audio"] BY <1>1
    <2>2. q'["audio"] = Tail(s) /\ s # <<>> BY <1>1, <1>2, <1>3, <2>1
    <2>3. \A k \in 1..Len(s) : s[k].epoch = epoch BY <2>1 DEF Recent
    <2>4. Len(Tail(s)) = Len(s) - 1 /\ \A k \in 1..Len(Tail(s)) : Tail(s)[k] = s[k + 1]
          BY <2>1, <2>2
    <2>5. \A k \in 1..Len(Tail(s)) : Tail(s)[k].epoch = epoch
          BY <2>1, <2>2, <2>3, <2>4
    <2>6. Head(s).epoch = epoch BY <2>1, <2>2, <2>3
    <2>7. QED BY <1>3, <2>1, <2>2, <2>5, <2>6 DEF Recent
  <1>4. CASE x # "audio"
    BY <1>1, <1>2, <1>4 DEF Recent
  <1>5. QED BY <1>3, <1>4

(* A packet that is added has been read after the last landing. *)
LEMMA AddRecent ==
  ASSUME QueueType, NEW x \in Streams, NEW n \in 1..Len(File), add_packet(x, n),
         Recent, epoch' = epoch
  PROVE  Recent'
  <1>1. q \in [Streams -> Seq(Chunk)] /\ epoch \in Nat BY DEF QueueType
  <1>2. [n |-> n, epoch |-> epoch] \in Chunk BY <1>1 DEF Chunk
  <1>3. CASE x = "audio"
    <2>1. PICK s \in Seq(Chunk) : s = q["audio"] BY <1>1
    <2>2. PICK c \in Chunk : c = [n |-> n, epoch |-> epoch] BY <1>2
    <2>3. q'["audio"] = Append(s, c) BY <1>1, <1>3, <2>1, <2>2 DEF add_packet
    <2>4. c.epoch = epoch BY <2>2
    <2>5. \A k \in 1..Len(s) : s[k].epoch = epoch BY <2>1 DEF Recent
    <2>6. Len(Append(s, c)) = Len(s) + 1 /\ Append(s, c)[Len(s) + 1] = c
          /\ \A k \in 1..Len(s) : Append(s, c)[k] = s[k]
          BY <2>1, <2>2
    <2>7. \A k \in 1..Len(Append(s, c)) : Append(s, c)[k].epoch = epoch
          BY <2>1, <2>4, <2>5, <2>6
    <2>8. QED BY <2>3, <2>7 DEF Recent
  <1>4. CASE x # "audio"
    BY <1>1, <1>4 DEF add_packet, Recent
  <1>5. QED BY <1>3, <1>4

(* A step of _parse_once adds what has just been read. *)
LEMMA ParseRecent ==
  ASSUME QueueType, NEW t \in Producers, parse_once(t), Recent
  PROVE  Recent'
  <1>1. epoch' = epoch
        BY DEF parse_once, ParseEnter, ParseReadVideo, ParseTest, ReadFrame, ParseKeeps
  <1>2. CASE UNCHANGED queueVars
    BY <1>1, <1>2 DEF queueVars, Recent
  <1>3. CASE /\ ~(pos > Len(File)) /\ File[pos].stream \in Valid
             /\ add_packet(File[pos].stream, pos)
    <2>1. pos \in 1..Len(File) BY <1>3, FileAssumption DEF QueueType
    <2>2. File[pos].stream \in Streams BY <1>3, ValidAssumption
    <2>3. QED BY <1>1, <1>3, <2>1, <2>2, AddRecent
  <1>4. QED
    BY <1>2, <1>3 DEF parse_once, ParseEnter, ParseReadVideo, ParseTest, ReadFrame,
       queueVars

(* Whatever takes packets, or leaves them, keeps the queue fresh. *)
LEMMA QueueFreshKept ==
  ASSUME QueueType, QueueFresh, epoch' = epoch,
         pc["app"] \in {"flush_video", "flush_audio"} =>
           pc'["app"] \in {"flush_video", "flush_audio"} \/ q'["audio"] = <<>>,
         \/ UNCHANGED q
         \/ \E x \in Streams : get_packet(x)
         \/ \E t \in Producers : parse_once(t)
  PROVE  QueueFresh'
  <1>1. CASE Recent
    <2>1. CASE UNCHANGED q BY <1>1, <2>1 DEF Recent, QueueFresh
    <2>2. CASE \E x \in Streams : get_packet(x)
      BY <1>1, <2>2, GetRecent DEF QueueFresh
    <2>3. CASE \E t \in Producers : parse_once(t)
      BY <1>1, <2>3, ParseRecent DEF QueueFresh
    <2>4. QED BY <2>1, <2>2, <2>3
  <1>2. CASE pc["app"] \in {"flush_video", "flush_audio"}
    <2>1. CASE q'["audio"] = <<>>
      <3>1. Len(q'["audio"]) = 0 BY <2>1
      <3>2. QED BY <3>1 DEF QueueFresh, Recent
    <2>2. QED BY <1>2, <2>1 DEF QueueFresh
  <1>3. QED BY <1>1, <1>2 DEF QueueFresh

(* A stopped audio thread stays where it is. *)
LEMMA StoppedStep ==
  ASSUME TypeOK, FreshInv, [Next]_vars
  PROVE  AudioStopped'
  <1>0. /\ pc \in [Threads -> AppPC \cup {"top", "rate", "get", "end", "check"}]
        /\ q \in [Streams -> Seq(Chunk)] /\ QueueType
        /\ chunk \in [Streams -> Chunk \cup {NoChunk}]
        BY DEF TypeOK, PcType, QueueType
  <1> USE <1>0 DEF FreshInv, AudioStopped, AppQuiet, Goto, AppPC, Searching, Parsing
  <1>1. CASE ParserTop
    BY <1>1 DEF ParserTop, Running, ParserKeeps
  <1>2. CASE SkipRate
    BY <1>2 DEF SkipRate, ParserKeeps
  <1>3. CASE calc_rate
    BY <1>3 DEF calc_rate, ParserKeeps
  <1>4. CASE parse_once("parser")
    BY <1>4 DEF parse_once, ParseEnter, ParseReadVideo, ParseTest, ReadFrame, Return,
       ParseKeeps
  <1>5. CASE parse_once("app")
    BY <1>5 DEF parse_once, ParseEnter, ParseReadVideo, ParseTest, ReadFrame, Return,
       ParseKeeps
  <1>6. CASE EngineNext \/ EngineEnd \/ check_end
    BY <1>6 DEF EngineNext, EngineEnd, check_end, EngineKeeps
  <1>7. CASE get_video_cdata
    BY <1>7 DEF get_video_cdata, EngineKeeps
  <1>8. CASE AudioNext
    BY <1>8 DEF AudioNext, Running, AudioKeeps
  <1>9. CASE get_audio_cdata
    BY <1>9 DEF get_audio_cdata, AudioKeeps
  <1>10. CASE AudioEnd
    BY <1>10 DEF AudioEnd, AudioKeeps
  <1>11. CASE AudioDecode
    BY <1>11 DEF AudioDecode, Running, AudioKeeps
  <1>12. CASE SubNext \/ SubShow
    BY <1>12 DEF SubNext, SubShow, SubKeeps
  <1>13. CASE get_subtitle_cdata
    BY <1>13 DEF get_subtitle_cdata, SubKeeps
  <1>14. CASE Seek
    BY <1>14 DEF Seek
  <1>15. CASE IdleThread("parser", "idle_parser", "idle_audio")
    BY <1>15 DEF IdleThread
  <1>16. CASE IdleThread("audio", "idle_audio", "wait")
    BY <1>16 DEF IdleThread
  <1>17. CASE CannotIdle \/ seek_init
    BY <1>17 DEF CannotIdle, seek_init
  <1>18. CASE SeekFile
    BY <1>18 DEF SeekFile
  <1>19. CASE flush_packets("video", "flush_video", "flush_audio")
    BY <1>19 DEF flush_packets
  <1>20. CASE flush_packets("audio", "flush_audio", "flush_subtitle")
    BY <1>20 DEF flush_packets
  <1>21. CASE flush_packets("subtitle", "flush_subtitle", "init")
    BY <1>21 DEF flush_packets
  <1>22. CASE SearchInit
    BY <1>22 DEF SearchInit
  <1>23. CASE SearchOn
    BY <1>23 DEF SearchOn, SearchKeeps
  <1>24. CASE SearchPeek
    BY <1>24 DEF SearchPeek, SearchKeeps
  <1>25. CASE SearchDrop
    BY <1>25 DEF SearchDrop, SearchKeeps
  <1>26. CASE SkipAudio
    BY <1>26 DEF SkipAudio, SearchKeeps
  <1>27. CASE video_init
    BY <1>27 DEF video_init, stream_audio_flush
  <1>28. CASE RunParser \/ PlayFrame \/ seek_un_pause
    BY <1>28 DEF RunParser, PlayFrame, seek_un_pause, RunKeeps
  <1>29. CASE UNCHANGED vars
    BY <1>29 DEF vars
  <1>30. QED
    <2> HIDE <1>0 DEF FreshInv, AudioStopped, AppQuiet, Goto, AppPC, Searching, Parsing
    <2> QED BY <1>1, <1>2, <1>3, <1>4, <1>5, <1>6, <1>7, <1>8, <1>9, <1>10, <1>11,
       <1>12, <1>13, <1>14, <1>15, <1>16, <1>17, <1>18, <1>19, <1>20, <1>21, <1>22,
       <1>23, <1>24, <1>25, <1>26, <1>27, <1>28, <1>29
       DEF Next, Parser, Engine, Audio, Sub, SeekSteps

(* Only a seek makes a queue old, and it flushes it. *)
LEMMA QueueFreshStep ==
  ASSUME TypeOK, FreshInv, [Next]_vars
  PROVE  QueueFresh'
  <1>0. /\ pc \in [Threads -> AppPC \cup {"top", "rate", "get", "end", "check"}]
        /\ q \in [Streams -> Seq(Chunk)] /\ QueueType
        /\ chunk \in [Streams -> Chunk \cup {NoChunk}]
        BY DEF TypeOK, PcType, QueueType
  <1> USE <1>0 DEF FreshInv, fileVars, queueVars, chunkVars, Goto
  <1>1. CASE ParserTop
    BY <1>1, QueueFreshKept DEF ParserTop, Running, ParserKeeps
  <1>2. CASE SkipRate
    BY <1>2, QueueFreshKept DEF SkipRate, ParserKeeps
  <1>3. CASE calc_rate
    BY <1>3, QueueFreshKept DEF calc_rate, ParserKeeps
  <1>4. CASE parse_once("parser")
    BY <1>4, QueueFreshKept DEF parse_once, ParseEnter, ParseReadVideo, ParseTest,
       ReadFrame, Return, ParseKeeps
  <1>5. CASE parse_once("app")
    BY <1>5, QueueFreshKept DEF parse_once, ParseEnter, ParseReadVideo, ParseTest,
       ReadFrame, Return, ParseKeeps
  <1>6. CASE EngineNext \/ EngineEnd \/ check_end
    BY <1>6, QueueFreshKept DEF EngineNext, EngineEnd, check_end, EngineKeeps
  <1>7. CASE get_video_cdata
    BY <1>7, QueueFreshKept DEF get_video_cdata, EngineKeeps
  <1>8. CASE AudioNext
    BY <1>8, QueueFreshKept DEF AudioNext, Running, AudioKeeps
  <1>9. CASE get_audio_cdata
    BY <1>9, QueueFreshKept DEF get_audio_cdata, AudioKeeps
  <1>10. CASE AudioEnd
    BY <1>10, QueueFreshKept DEF AudioEnd, AudioKeeps
  <1>11. CASE AudioDecode
    BY <1>11, QueueFreshKept DEF AudioDecode, Running, AudioKeeps
  <1>12. CASE SubNext \/ SubShow
    BY <1>12, QueueFreshKept DEF SubNext, SubShow, SubKeeps
  <1>13. CASE get_subtitle_cdata
    BY <1>13, QueueFreshKept DEF get_subtitle_cdata, SubKeeps
  <1>14. CASE Seek
    BY <1>14, QueueFreshKept DEF Seek
  <1>15. CASE IdleThread("parser", "idle_parser", "idle_audio")
    BY <1>15, QueueFreshKept DEF IdleThread
  <1>16. CASE IdleThread("audio", "idle_audio", "wait")
    BY <1>16, QueueFreshKept DEF IdleThread
  <1>17. CASE CannotIdle \/ seek_init
    BY <1>17, QueueFreshKept DEF CannotIdle, seek_init
  <1>18. CASE SeekFile
    <2>1. Recent /\ q' = q BY <1>18 DEF SeekFile, QueueFresh
    <2>2. CASE pc'["app"] = "flush_video" BY <2>2 DEF QueueFresh
    <2>3. CASE epoch' = epoch BY <2>1, <2>3 DEF QueueFresh, Recent
    <2>4. QED BY <1>18, <2>2, <2>3 DEF SeekFile
  <1>19. CASE flush_packets("video", "flush_video", "flush_audio")
    BY <1>19, QueueFreshKept DEF flush_packets
  <1>20. CASE flush_packets("audio", "flush_audio", "flush_subtitle")
    BY <1>20, QueueFreshKept DEF flush_packets
  <1>21. CASE flush_packets("subtitle", "flush_subtitle", "init")
    BY <1>21, QueueFreshKept DEF flush_packets
  <1>22. CASE SearchInit
    BY <1>22, QueueFreshKept DEF SearchInit
  <1>23. CASE SearchOn
    BY <1>23, QueueFreshKept DEF SearchOn, SearchKeeps
  <1>24. CASE SearchPeek
    BY <1>24, QueueFreshKept DEF SearchPeek, SearchKeeps
  <1>25. CASE SearchDrop
    BY <1>25, QueueFreshKept DEF SearchDrop, SearchKeeps
  <1>26. CASE SkipAudio
    BY <1>26, QueueFreshKept DEF SkipAudio, SearchKeeps
  <1>27. CASE video_init
    BY <1>27, QueueFreshKept DEF video_init, stream_audio_flush
  <1>28. CASE RunParser \/ PlayFrame \/ seek_un_pause
    BY <1>28, QueueFreshKept DEF RunParser, PlayFrame, seek_un_pause, RunKeeps
  <1>29. CASE UNCHANGED vars
    BY <1>29 DEF vars, QueueFresh, Recent
  <1>30. QED
    <2> HIDE <1>0 DEF FreshInv, fileVars, queueVars, chunkVars, Goto
    <2> QED BY <1>1, <1>2, <1>3, <1>4, <1>5, <1>6, <1>7, <1>8, <1>9, <1>10, <1>11,
       <1>12, <1>13, <1>14, <1>15, <1>16, <1>17, <1>18, <1>19, <1>20, <1>21, <1>22,
       <1>23, <1>24, <1>25, <1>26, <1>27, <1>28, <1>29
       DEF Next, Parser, Engine, Audio, Sub, SeekSteps

(* What is taken from a fresh queue is fresh. *)
LEMMA ChunkStep ==
  ASSUME TypeOK, FreshInv, [Next]_vars
  PROVE  ChunkFresh'
  <1>0. /\ pc \in [Threads -> AppPC \cup {"top", "rate", "get", "end", "check"}]
        /\ q \in [Streams -> Seq(Chunk)] /\ QueueType
        /\ chunk \in [Streams -> Chunk \cup {NoChunk}]
        BY DEF TypeOK, PcType, QueueType
  <1> USE <1>0 DEF FreshInv, AudioStopped, ChunkFresh, AppQuiet, fileVars, queueVars,
     chunkVars, Goto
  <1>1. CASE ParserTop
    BY <1>1 DEF ParserTop, Running, ParserKeeps
  <1>2. CASE SkipRate
    BY <1>2 DEF SkipRate, ParserKeeps
  <1>3. CASE calc_rate
    BY <1>3 DEF calc_rate, ParserKeeps
  <1>4. CASE parse_once("parser")
    BY <1>4 DEF parse_once, ParseEnter, ParseReadVideo, ParseTest, ReadFrame, Return,
       ParseKeeps
  <1>5. CASE parse_once("app")
    BY <1>5 DEF parse_once, ParseEnter, ParseReadVideo, ParseTest, ReadFrame, Return,
       ParseKeeps
  <1>6. CASE EngineNext \/ EngineEnd \/ check_end
    BY <1>6 DEF EngineNext, EngineEnd, check_end, EngineKeeps
  <1>7. CASE get_video_cdata
    BY <1>7 DEF get_video_cdata, EngineKeeps
  <1>8. CASE AudioNext
    BY <1>8 DEF AudioNext, Running, AudioKeeps
  <1>9. CASE get_audio_cdata
    <2>1. pc["audio"] = "get" /\ UNCHANGED epoch /\ pc'["app"] = pc["app"]
      BY <1>9 DEF get_audio_cdata, AudioKeeps
    <2>2. Recent BY <2>1 DEF QueueFresh
    <2>3. CASE UNCHANGED chunk BY <2>1, <2>3
    <2>4. CASE get_packet("audio")
      <3>1. Head(q["audio"]).epoch = epoch BY <2>1, <2>2, <2>4, GetRecent
      <3>2. chunk'["audio"] \in {NoChunk, Head(q["audio"])}
        BY <1>9, <2>4 DEF get_audio_cdata, get_packet
      <3>3. QED BY <2>1, <3>1, <3>2
    <2>5. QED BY <1>9, <2>3, <2>4 DEF get_audio_cdata
  <1>10. CASE AudioEnd
    BY <1>10 DEF AudioEnd, AudioKeeps
  <1>11. CASE AudioDecode
    BY <1>11 DEF AudioDecode, Running, AudioKeeps
  <1>12. CASE SubNext \/ SubShow
    BY <1>12 DEF SubNext, SubShow, SubKeeps
  <1>13. CASE get_subtitle_cdata
    BY <1>13 DEF get_subtitle_cdata, SubKeeps
  <1>14. CASE Seek
    BY <1>14 DEF Seek
  <1>15. CASE IdleThread("parser", "idle_parser", "idle_audio")
    BY <1>15 DEF IdleThread
  <1>16. CASE IdleThread("audio", "idle_audio", "wait")
    BY <1>16 DEF IdleThread
  <1>17. CASE CannotIdle \/ seek_init
    BY <1>17 DEF CannotIdle, seek_init
  <1>18. CASE SeekFile
    BY <1>18 DEF SeekFile
  <1>19. CASE flush_packets("video", "flush_video", "flush_audio")
    BY <1>19 DEF flush_packets
  <1>20. CASE flush_packets("audio", "flush_audio", "flush_subtitle")
    BY <1>20 DEF flush_packets
  <1>21. CASE flush_packets("subtitle", "flush_subtitle", "init")
    BY <1>21 DEF flush_packets
  <1>22. CASE SearchInit
    BY <1>22 DEF SearchInit
  <1>23. CASE SearchOn
    BY <1>23 DEF SearchOn, SearchKeeps
  <1>24. CASE SearchPeek
    BY <1>24 DEF SearchPeek, SearchKeeps
  <1>25. CASE SearchDrop
    BY <1>25 DEF SearchDrop, SearchKeeps
  <1>26. CASE SkipAudio
    BY <1>26 DEF SkipAudio, SearchKeeps
  <1>27. CASE video_init
    BY <1>27 DEF video_init, stream_audio_flush
  <1>28. CASE RunParser \/ PlayFrame \/ seek_un_pause
    BY <1>28 DEF RunParser, PlayFrame, seek_un_pause, RunKeeps
  <1>29. CASE UNCHANGED vars
    BY <1>29 DEF vars
  <1>30. QED
    <2> HIDE <1>0 DEF FreshInv, AudioStopped, ChunkFresh, AppQuiet, fileVars, queueVars, chunkVars, Goto
    <2> QED BY <1>1, <1>2, <1>3, <1>4, <1>5, <1>6, <1>7, <1>8, <1>9, <1>10, <1>11,
       <1>12, <1>13, <1>14, <1>15, <1>16, <1>17, <1>18, <1>19, <1>20, <1>21, <1>22,
       <1>23, <1>24, <1>25, <1>26, <1>27, <1>28, <1>29
       DEF Next, Parser, Engine, Audio, Sub, SeekSteps

(* A seek leaves the audio thread nothing that was read before it: it was   *)
(* stopped before the parser landed, and its chunk and the queue were      *)
(* emptied before it runs again.                                           *)
THEOREM AudioFreshCorrect == Spec => []AudioFresh
  <1>1. Init => FreshInv
    <2> SUFFICES ASSUME Init PROVE FreshInv
      OBVIOUS
    <2>1. Len(q["audio"]) = 0 BY DEF Init
    <2>2. QueueFresh BY <2>1 DEF QueueFresh, Recent
    <2>3. AudioStopped BY DEF Init, AudioStopped, AppQuiet
    <2>4. ChunkFresh BY DEF Init, ChunkFresh
    <2>5. QED BY <2>2, <2>3, <2>4 DEF FreshInv
  <1>2. TypeOK /\ FreshInv /\ [Next]_vars => FreshInv'
    BY StoppedStep, QueueFreshStep, ChunkStep DEF FreshInv
  <1>3. FreshInv => AudioFresh BY DEF FreshInv, ChunkFresh, AudioFresh
  <1>4. QED BY <1>1, <1>2, <1>3, TypeCorrect, PTL DEF Spec
-----------------------------------------------------------------------------
(***************************************************************************)
(* What is in a queue: a run of the file.  A consumer takes its first      *)
(* packet, parse_once adds the next one after its last, a seek empties it. *)
(***************************************************************************)
(* The packets of stream x from some first one of lo..hi up to hi, in the   *)
(* order of the file, all of seek e.                                        *)
Last(s, e, lo, hi, x) ==
  /\ \A k \in 1..Len(s) : s[k].epoch = e
  /\ \A k, l \in 1..Len(s) : k < l => s[k].n < s[l].n
  /\ \E first \in lo..hi :
       {s[k].n : k \in 1..Len(s)} = {n \in first..hi - 1 : File[n].stream = x}

(* The empty queue is the run that begins at its end. *)
LEMMA LastEmpty ==
  ASSUME NEW e, NEW lo \in Nat, NEW hi \in Nat, lo <= hi, NEW x
  PROVE  Last(<<>>, e, lo, hi, x)
  <1>1. Len(<<>>) = 0 /\ 1..0 = {} OBVIOUS
  <1>2. hi \in lo..hi /\ hi..hi - 1 = {} OBVIOUS
  <1>3. {<<>>[k].n : k \in 1..Len(<<>>)} = {n \in hi..hi - 1 : File[n].stream = x}
    BY <1>1, <1>2
  <1>4. QED BY <1>1, <1>2, <1>3 DEF Last

(* The first packet is taken: what is left begins behind it.               *)
LEMMA LastTail ==
  ASSUME NEW s \in Seq(Chunk), s # <<>>, NEW e, NEW lo \in Nat, NEW hi \in Nat, NEW x,
         Last(s, e, lo, hi, x)
  PROVE  Last(Tail(s), e, lo, hi, x)
  <1> DEFINE t == Tail(s)
             m == s[1].n
  <1>1. Len(s) \in Nat /\ Len(s) >= 1 /\ Len(t) = Len(s) - 1
        /\ \A k \in 1..Len(t) : t[k] = s[k + 1] /\ k + 1 \in 1..Len(s)
    OBVIOUS
  <1>2. \A k \in 1..Len(s) : s[k].n \in Nat
    <2>1. \A c \in Chunk : c.n \in Nat BY DEF Chunk
    <2>2. \A k \in 1..Len(s) : s[k] \in Chunk OBVIOUS
    <2>3. QED BY <2>1, <2>2
  <1>3. PICK first \in lo..hi :
          {s[k].n : k \in 1..Len(s)} = {n \in first..hi - 1 : File[n].stream = x}
    BY DEF Last
  <1>4. m \in first..hi - 1 /\ m + 1 \in lo..hi
    <2>1. m \in {s[k].n : k \in 1..Len(s)} BY <1>1
    <2>2. m \in first..hi - 1 BY <2>1, <1>3
    <2>3. QED BY <2>2
  <1>5. \A k \in 1..Len(t) : t[k].epoch = e
    BY <1>1 DEF Last
  <1>6. \A k, l \in 1..Len(t) : k < l => t[k].n < t[l].n
    <2> SUFFICES ASSUME NEW k \in 1..Len(t), NEW l \in 1..Len(t), k < l
                 PROVE  t[k].n < t[l].n
      OBVIOUS
    <2>1. k + 1 \in 1..Len(s) /\ l + 1 \in 1..Len(s) /\ k + 1 < l + 1 BY <1>1
    <2>2. s[k + 1].n < s[l + 1].n BY <2>1 DEF Last
    <2>3. QED BY <1>1, <2>2
  <1>7. {t[k].n : k \in 1..Len(t)} = {n \in m + 1..hi - 1 : File[n].stream = x}
    <2>1. ASSUME NEW k \in 1..Len(t)
          PROVE  t[k].n \in {n \in m + 1..hi - 1 : File[n].stream = x}
      <3>1. k + 1 \in 1..Len(s) /\ t[k] = s[k + 1] /\ 1 \in 1..Len(s) /\ 1 < k + 1
        BY <1>1
      <3>2. m < s[k + 1].n BY <3>1 DEF Last
      <3>3. s[k + 1].n \in {n \in first..hi - 1 : File[n].stream = x} BY <3>1, <1>3
      <3>4. s[k + 1].n \in first..hi - 1 /\ File[s[k + 1].n].stream = x BY <3>3
      <3>5. first \in Nat /\ m \in Nat BY <1>2, <3>1
      <3>6. s[k + 1].n \in m + 1..hi - 1 BY <3>2, <3>4, <3>5
      <3>7. QED BY <3>1, <3>4, <3>6
    <2>2. ASSUME NEW n \in m + 1..hi - 1, File[n].stream = x
          PROVE  n \in {t[k].n : k \in 1..Len(t)}
      <3>1. n \in first..hi - 1 BY <1>4
      <3>2. n \in {s[k].n : k \in 1..Len(s)} BY <3>1, <2>2, <1>3
      <3>3. PICK j \in 1..Len(s) : s[j].n = n BY <3>2
      <3>4. j # 1
        <4>1. n # m BY <1>4
        <4>2. QED BY <3>3, <4>1
      <3>5. j - 1 \in 1..Len(t) /\ (j - 1) + 1 = j BY <1>1, <3>4
      <3>6. t[j - 1] = s[j] BY <1>1, <3>5
      <3>7. QED BY <3>3, <3>5, <3>6
    <2>3. QED BY <2>1, <2>2
  <1>8. QED BY <1>4, <1>5, <1>6, <1>7 DEF Last

(* The packet at hi is of the stream and is added.                         *)
LEMMA LastAppend ==
  ASSUME NEW s \in Seq(Chunk), NEW e \in Nat, NEW lo \in Nat, NEW hi \in 1..Len(File),
         File[hi].stream \in Streams, Last(s, e, lo, hi, File[hi].stream)
  PROVE  Last(Append(s, [n |-> hi, epoch |-> e]), e, lo, hi + 1, File[hi].stream)
  <1>1. PICK x : x = File[hi].stream OBVIOUS
  <1>2. PICK c \in Chunk : c = [n |-> hi, epoch |-> e] BY DEF Chunk
  <1> DEFINE t == Append(s, c)
  <1>3. Len(s) \in Nat /\ Len(t) = Len(s) + 1 /\ t[Len(s) + 1] = c
        /\ \A k \in 1..Len(s) : t[k] = s[k]
    OBVIOUS
  <1>4. c.n = hi /\ c.epoch = e BY <1>2
  <1>5. \A k \in 1..Len(t) : k \in 1..Len(s) \/ k = Len(s) + 1 BY <1>3
  <1>6. PICK first \in lo..hi :
          {s[k].n : k \in 1..Len(s)} = {n \in first..hi - 1 : File[n].stream = x}
    BY <1>1 DEF Last
  <1>7. hi \in Nat /\ first \in lo..hi + 1 BY FileAssumption
  <1>8. \A k \in 1..Len(t) : t[k].epoch = e
    BY <1>3, <1>4, <1>5 DEF Last
  <1>9. \A k \in 1..Len(s) : s[k].n < hi
    <2> SUFFICES ASSUME NEW k \in 1..Len(s) PROVE s[k].n < hi
      OBVIOUS
    <2>1. s[k].n \in first..hi - 1 BY <1>6
    <2>2. QED BY <2>1, <1>7
  <1>10. \A k, l \in 1..Len(t) : k < l => t[k].n < t[l].n
    <2> SUFFICES ASSUME NEW k \in 1..Len(t), NEW l \in 1..Len(t), k < l
                 PROVE  t[k].n < t[l].n
      OBVIOUS
    <2>1. k \in 1..Len(s) BY <1>3
    <2>2. CASE l \in 1..Len(s)
      <3>1. s[k].n < s[l].n BY <2>1, <2>2 DEF Last
      <3>2. QED BY <3>1, <2>1, <2>2, <1>3
    <2>3. CASE l = Len(s) + 1
      BY <2>1, <2>3, <1>3, <1>4, <1>9
    <2>4. QED BY <2>2, <2>3, <1>5
  <1>11. {t[k].n : k \in 1..Len(t)} = {n \in first..(hi + 1) - 1 : File[n].stream = x}
    <2>1. {t[k].n : k \in 1..Len(t)} = {s[k].n : k \in 1..Len(s)} \cup {hi}
      <3>1. \A k \in 1..Len(t) : t[k].n \in {s[j].n : j \in 1..Len(s)} \cup {hi}
        BY <1>3, <1>4, <1>5
      <3>2. \A k \in 1..Len(s) : s[k].n \in {t[j].n : j \in 1..Len(t)}
        <4>1. \A k \in 1..Len(s) : k \in 1..Len(t) BY <1>3
        <4>2. QED BY <4>1, <1>3
      <3>3. hi \in {t[j].n : j \in 1..Len(t)}
        <4>1. Len(s) + 1 \in 1..Len(t) BY <1>3
        <4>2. QED BY <4>1, <1>3, <1>4
      <3>4. QED BY <3>1, <3>2, <3>3
    <2>2. first..(hi + 1) - 1 = (first..hi - 1) \cup {hi} BY <1>7
    <2>3. QED BY <1>1, <1>6, <2>1, <2>2
  <1>12. Last(t, e, lo, hi + 1, x)
    BY <1>7, <1>8, <1>10, <1>11 DEF Last
  <1>13. QED BY <1>1, <1>2, <1>12

(* The packet at hi is of another stream. *)
LEMMA LastSkip ==
  ASSUME NEW s, NEW e, NEW lo \in Nat, NEW hi \in Nat, NEW x, File[hi].stream # x,
         Last(s, e, lo, hi, x)
  PROVE  Last(s, e, lo, hi + 1, x)
  <1>1. PICK first \in lo..hi :
          {s[k].n : k \in 1..Len(s)} = {n \in first..hi - 1 : File[n].stream = x}
    BY DEF Last
  <1>2. first \in lo..hi + 1 /\ first..(hi + 1) - 1 = (first..hi - 1) \cup {hi} OBVIOUS
  <1>3. {s[k].n : k \in 1..Len(s)} = {n \in first..(hi + 1) - 1 : File[n].stream = x}
    BY <1>1, <1>2
  <1>4. QED BY <1>2, <1>3 DEF Last

(* Every queue that is played is such a run. *)
Lasts == \A x \in Valid : Last(q[x], epoch, from, pos, x)

(* The property, said with Last. *)
LEMMA RecentLasts ==
  ASSUME QueueType
  PROVE  QueueIsRecent <=> Flushing \/ Lasts
  <1>1. \A x \in Valid : DOMAIN q[x] = 1..Len(q[x])
    BY ValidAssumption DEF QueueType
  <1>2. QED BY <1>1 DEF QueueIsRecent, Queued, Lasts, Last

(* Taking a packet, or none, leaves the last ones. *)
LEMMA GetLasts ==
  ASSUME QueueType, Lasts, UNCHANGED <<from, pos, epoch>>,
         UNCHANGED q \/ \E y \in Streams : get_packet(y)
  PROVE  Lasts'
  <1>0. q \in [Streams -> Seq(Chunk)] /\ pos \in Nat /\ from \in Nat /\ Valid \subseteq Streams
    BY FileAssumption, ValidAssumption DEF QueueType
  <1>1. CASE UNCHANGED q
    BY <1>1 DEF Lasts, Last
  <1>2. ASSUME NEW y \in Streams, get_packet(y) PROVE Lasts'
    <2> SUFFICES ASSUME NEW x \in Valid PROVE Last(q'[x], epoch, from, pos, x)
      BY DEF Lasts, Last
    <2>1. Last(q[x], epoch, from, pos, x) BY DEF Lasts
    <2>2. q[y] # <<>> /\ q' = [q EXCEPT ![y] = Tail(@)] BY <1>2 DEF get_packet
    <2>3. CASE x = y
      <3>1. q'[x] = Tail(q[x]) /\ q[x] \in Seq(Chunk) /\ q[x] # <<>> BY <1>0, <2>2, <2>3
      <3>2. QED BY <1>0, <2>1, <3>1, LastTail
    <2>4. CASE x # y
      BY <1>0, <2>1, <2>2, <2>4
    <2>5. QED BY <2>3, <2>4
  <1>3. QED BY <1>1, <1>2

(* What parse_once reads is the next to be last. *)
LEMMA ParseLasts ==
  ASSUME QueueType, Lasts, NEW t \in Producers, parse_once(t)
  PROVE  Lasts'
  <1>0. /\ q \in [Streams -> Seq(Chunk)] /\ pos \in Nat /\ from \in Nat /\ epoch \in Nat
        /\ Valid \subseteq Streams /\ Len(File) \in Nat /\ pos >= 1
    BY FileAssumption, ValidAssumption DEF QueueType
  <1>1. UNCHANGED <<from, epoch>>
    BY DEF parse_once, ParseEnter, ParseReadVideo, ParseTest, ReadFrame, ParseKeeps
  <1>2. CASE UNCHANGED <<pos, q>>
    BY <1>1, <1>2, GetLasts
  <1>3. CASE ReadFrame(t) /\ ~(pos > Len(File))
    <2>1. pos' = pos + 1 /\ pos \in 1..Len(File) BY <1>0, <1>3 DEF ReadFrame
    <2> SUFFICES ASSUME NEW x \in Valid PROVE Last(q'[x], epoch, from, pos + 1, x)
      BY <1>1, <2>1 DEF Lasts, Last
    <2>2. Last(q[x], epoch, from, pos, x) BY DEF Lasts
    <2>3. CASE x = File[pos].stream
      <3>1. add_packet(x, pos) BY <1>3, <2>3 DEF ReadFrame
      <3>2. q'[x] = Append(q[x], [n |-> pos, epoch |-> epoch]) /\ q[x] \in Seq(Chunk)
        BY <1>0, <3>1 DEF add_packet
      <3>3. File[pos].stream \in Streams BY <1>0, <2>3
      <3>4. Last(Append(q[x], [n |-> pos, epoch |-> epoch]), epoch, from, pos + 1, x)
        <4> HIDE DEF Streams
        <4> QED BY <1>0, <2>1, <2>2, <2>3, <3>2, <3>3, LastAppend
      <3>5. QED BY <3>2, <3>4
    <2>4. CASE x # File[pos].stream
      <3>1. q'[x] = q[x]
        BY <1>0, <1>3, <2>4 DEF ReadFrame, add_packet, queueVars
      <3>2. QED BY <1>0, <2>2, <2>4, <3>1, LastSkip
    <2>5. QED BY <2>3, <2>4
  <1>4. QED
    BY <1>2, <1>3 DEF parse_once, ParseEnter, ParseReadVideo, ParseTest, ReadFrame,
       queueVars

(* A queue that was flushed stays empty until there is a producer again. *)
FlushedInv ==
  /\ from <= pos
  /\ pc["app"] \in {"flush_audio", "flush_subtitle"} => q["video"] = <<>>
  /\ pc["app"] = "flush_subtitle" => q["audio"] = <<>>

RecentInv == FlushedInv /\ (Flushing \/ Lasts)

Flush == {"flush_video", "flush_audio", "flush_subtitle"}

(* A step that takes a packet or leaves the queues, and moves no mark. *)
Kept ==
  /\ UNCHANGED <<from, pos, epoch>>
  /\ UNCHANGED q \/ \E y \in Streams : get_packet(y)

(* An empty queue gives no packet. *)
LEMMA EmptyStays ==
  ASSUME QueueType, Kept, NEW x \in Streams, q[x] = <<>>
  PROVE  q'[x] = <<>>
  <1>1. q \in [Streams -> Seq(Chunk)] BY DEF QueueType
  <1>2. QED BY <1>1 DEF Kept, get_packet

(* Such a step, not one of the flush's own. *)
LEMMA KeptRecent ==
  ASSUME QueueType, RecentInv, Kept,
         \/ pc'["app"] = pc["app"]
         \/ pc["app"] \notin Flush /\ pc'["app"] \notin Flush
  PROVE  RecentInv'
  <1>1. FlushedInv'
    BY EmptyStays DEF RecentInv, FlushedInv, Kept, Flush
  <1>2. Flushing => Flushing'
    BY DEF Flushing, Flush
  <1>3. Lasts => Lasts'
    BY GetLasts DEF Kept
  <1>4. QED BY <1>1, <1>2, <1>3 DEF RecentInv

(* So is every step but those of parse_once, of the landing, of the flush. *)
LEMMA OthersKeep ==
  ASSUME TypeOK, [Next]_vars, ~parse_once("parser"), ~parse_once("app"), ~SeekFile,
         pc["app"] \notin Flush \/ ~SeekSteps
  PROVE  Kept /\ \/ pc'["app"] = pc["app"]
                 \/ pc["app"] \notin Flush /\ pc'["app"] \notin Flush
  <1>0. pc \in [Threads -> AppPC \cup {"top", "rate", "get", "end", "check"}]
        BY DEF TypeOK, PcType
  <1> USE <1>0 DEF Kept, Goto, queueVars, fileVars, Flush
  <1>1. CASE ParserTop \/ SkipRate \/ calc_rate
    BY <1>1 DEF ParserTop, SkipRate, calc_rate, ParserKeeps
  <1>2. CASE Engine
    BY <1>2 DEF Engine, EngineNext, get_video_cdata, EngineEnd, check_end, EngineKeeps
  <1>3. CASE Audio
    BY <1>3 DEF Audio, AudioNext, get_audio_cdata, AudioEnd, AudioDecode, AudioKeeps
  <1>4. CASE Sub
    BY <1>4 DEF Sub, SubNext, get_subtitle_cdata, SubShow, SubKeeps
  <1>5. CASE Seek
    BY <1>5 DEF Seek
  <1>6. CASE SeekSteps
    <2>1. CASE \/ IdleThread("parser", "idle_parser", "idle_audio")
               \/ IdleThread("audio", "idle_audio", "wait")
               \/ CannotIdle \/ seek_init \/ SearchInit
      BY <2>1 DEF IdleThread, CannotIdle, seek_init, SearchInit
    <2>2. CASE \/ flush_packets("video", "flush_video", "flush_audio")
               \/ flush_packets("audio", "flush_audio", "flush_subtitle")
               \/ flush_packets("subtitle", "flush_subtitle", "init")
      BY <1>6, <2>2 DEF flush_packets
    <2>3. CASE SearchOn \/ SearchPeek \/ SearchDrop \/ SkipAudio
      BY <2>3 DEF SearchOn, SearchPeek, SearchDrop, SkipAudio, SearchKeeps
    <2>4. CASE video_init \/ RunParser \/ PlayFrame \/ seek_un_pause
      BY <2>4 DEF video_init, RunParser, PlayFrame, seek_un_pause, RunKeeps
    <2>5. QED
      <3> HIDE <1>0 DEF Kept, Goto, queueVars, fileVars, Flush
      <3> QED BY <1>6, <2>1, <2>2, <2>3, <2>4 DEF SeekSteps
  <1>7. CASE UNCHANGED vars BY <1>7 DEF vars
  <1>8. QED
    <2> HIDE <1>0 DEF Kept, Goto, queueVars, fileVars, Flush
    <2> QED BY <1>1, <1>2, <1>3, <1>4, <1>5, <1>6, <1>7 DEF Next, Parser

(* The flush empties one queue after the other, with no producer about. *)
LEMMA FlushRecent ==
  ASSUME TypeOK, RecentInv, SeekSteps, pc["app"] \in Flush
  PROVE  RecentInv'
  <1>0. /\ pc \in [Threads -> AppPC \cup {"top", "rate", "get", "end", "check"}]
        /\ QueueType /\ q \in [Streams -> Seq(Chunk)] /\ from <= pos
        BY DEF TypeOK, PcType, QueueType, RecentInv, FlushedInv
  <1>1. \/ flush_packets("video", "flush_video", "flush_audio")
        \/ flush_packets("audio", "flush_audio", "flush_subtitle")
        \/ flush_packets("subtitle", "flush_subtitle", "init")
    BY DEF Flush, SeekSteps, IdleThread, CannotIdle, seek_init, SeekFile, SearchInit,
       SearchOn, parse_once, ParseEnter, ParseReadVideo, ParseTest, ReadFrame, SearchPeek,
       SearchDrop, SkipAudio, video_init, RunParser, PlayFrame, seek_un_pause
  <1>2. UNCHANGED <<from, pos, epoch>>
    BY <1>1 DEF flush_packets, fileVars
  <1>3. CASE UNCHANGED pc
    <2>1. Kept BY <1>1, <1>2, <1>3 DEF flush_packets, Kept, queueVars
    <2>2. QED BY <1>0, <1>3, <2>1, KeptRecent
  <1>4. CASE pc["app"] = "flush_video" /\ pc' # pc
    <2>1. q["video"] = <<>> /\ pc'["app"] = "flush_audio" /\ q' = q
      BY <1>0, <1>1, <1>4 DEF flush_packets, Goto, queueVars
    <2>2. QED BY <1>0, <1>2, <2>1 DEF RecentInv, FlushedInv, Flushing
  <1>5. CASE pc["app"] = "flush_audio" /\ pc' # pc
    <2>1. q["audio"] = <<>> /\ pc'["app"] = "flush_subtitle" /\ q' = q
      BY <1>0, <1>1, <1>5 DEF flush_packets, Goto, queueVars
    <2>2. QED BY <1>0, <1>2, <1>5, <2>1 DEF RecentInv, FlushedInv, Flushing
  <1>6. CASE pc["app"] = "flush_subtitle" /\ pc' # pc
    <2>1. q["subtitle"] = <<>> /\ pc'["app"] = "init" /\ q' = q
      BY <1>0, <1>1, <1>6 DEF flush_packets, Goto, queueVars
    <2>2. \A x \in Streams : q'[x] = <<>>
      BY <1>6, <2>1 DEF RecentInv, FlushedInv
    <2>3. Lasts'
      <3>1. from' \in Nat /\ pos' \in Nat /\ from' <= pos'
        BY <1>0, <1>2, FileAssumption DEF QueueType
      <3>2. \A x \in Valid : Last(<<>>, epoch', from', pos', x)
        BY <3>1, LastEmpty
      <3>3. QED BY <2>2, <3>2, ValidAssumption DEF Lasts
    <2>4. QED BY <1>0, <1>2, <2>1, <2>3 DEF RecentInv, FlushedInv
  <1>7. QED BY <1>3, <1>4, <1>5, <1>6 DEF Flush

(* While there is a producer nothing is being flushed. *)
LEMMA ParseKeepsRecent ==
  ASSUME TypeOK, SeekAlone, RecentInv, NEW t \in Producers, parse_once(t)
  PROVE  RecentInv'
  <1>0. /\ pc \in [Threads -> AppPC \cup {"top", "rate", "get", "end", "check"}]
        /\ QueueType
        BY DEF TypeOK, PcType
  <1>1. pc[t] \in Searching
    BY DEF parse_once, ParseEnter, ParseReadVideo, ParseTest, ReadFrame, Searching, Parsing
  <1>2. pc["app"] \notin Flush
    BY <1>1 DEF SeekAlone, AppQuiet, Flush, Searching, Parsing
  <1>3. pc'["app"] \notin Flush
    BY <1>0, <1>2 DEF parse_once, ParseEnter, ParseReadVideo, ParseTest, ReadFrame, Return,
       Goto, Flush
  <1>4. Lasts' BY <1>0, <1>2, ParseLasts DEF RecentInv, Flushing, Flush
  <1>5. from' = from /\ pos' \in {pos, pos + 1}
    BY DEF parse_once, ParseEnter, ParseReadVideo, ParseTest, ReadFrame, ParseKeeps
  <1>6. from' <= pos'
    BY <1>0, <1>5 DEF QueueType, RecentInv, FlushedInv
  <1>7. QED BY <1>3, <1>4, <1>6 DEF RecentInv, FlushedInv, Flush

(* A landing makes the queues old; they are not looked at until flushed. *)
LEMMA RecentStep ==
  ASSUME TypeOK, SeekAlone, RecentInv, [Next]_vars
  PROVE  RecentInv'
  <1>0. QueueType BY DEF TypeOK
  <1>1. CASE parse_once("parser") \/ parse_once("app")
    BY <1>1, ParseKeepsRecent
  <1>2. CASE SeekFile
    <2>0. pc \in [Threads -> AppPC \cup {"top", "rate", "get", "end", "check"}]
      BY DEF TypeOK, PcType
    <2>1. CASE pc'["app"] = "flush_video" /\ pos' \in Landings /\ from' = pos'
      <3>1. from' <= pos' BY <2>1, LandingsAssumption
      <3>2. QED BY <2>1, <3>1 DEF RecentInv, FlushedInv, Flushing
    <2>2. CASE UNCHANGED fileVars /\ pc'["app"] = "video_err"
      <3>1. Kept BY <1>2, <2>2 DEF SeekFile, Kept, fileVars, queueVars
      <3>2. pc["app"] \notin Flush /\ pc'["app"] \notin Flush
        BY <1>2, <2>2 DEF SeekFile, Flush
      <3>3. QED BY <1>0, <3>1, <3>2, KeptRecent
    <2>3. QED BY <1>2, <2>0, <2>1, <2>2 DEF SeekFile, Goto
  <1>3. CASE SeekSteps /\ pc["app"] \in Flush
    BY <1>3, FlushRecent
  <1>4. CASE /\ ~parse_once("parser") /\ ~parse_once("app") /\ ~SeekFile
             /\ pc["app"] \notin Flush \/ ~SeekSteps
    BY <1>0, <1>4, OthersKeep, KeptRecent
  <1>5. QED BY <1>1, <1>2, <1>3, <1>4

(* For any file, buffer and landing, and however many seeks: what a        *)
(* consumer finds in its queue follows what it took last, without a gap,   *)
(* and nothing in it is from before the last seek.                         *)
THEOREM QueuesRecent == Spec => []QueueIsRecent
  <1>1. Init => RecentInv
    <2> SUFFICES ASSUME Init PROVE RecentInv
      OBVIOUS
    <2>1. FlushedInv BY DEF Init, FlushedInv
    <2>2. Lasts BY LastEmpty, ValidAssumption DEF Init, Lasts
    <2>3. QED BY <2>1, <2>2 DEF RecentInv
  <1>2. TypeOK /\ SeekAlone /\ RecentInv /\ [Next]_vars => RecentInv'
    BY RecentStep
  <1>3. TypeOK /\ RecentInv => QueueIsRecent
    BY RecentLasts DEF TypeOK, RecentInv
  <1>4. LevelInv => SeekAlone BY DEF LevelInv
  <1>5. QED BY <1>1, <1>2, <1>3, <1>4, TypeCorrect, LevelInductive, PTL DEF Spec
=============================================================================
