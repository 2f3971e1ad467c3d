-------------------------- MODULE VideoEngineProofs --------------------------
(***************************************************************************)
(* Proofs about VideoEngine: what the application thread relies on while   *)
(* it seeks or changes a stream, and what it leaves behind, for any set of *)
(* operations, any frames, any outcome of a decode and any timeout; and,   *)
(* when it neither seeks nor changes a stream, where every frame is.       *)
(***************************************************************************)
EXTENDS VideoEngine, TLAPS

(* Who has acknowledged IDLE is outside of its work. *)
WorkersInv ==
  /\ TS!HandleTypeOK
  /\ got["engine"] = "idle" => epc \in {"top", "ack"}
  /\ got["parser"] = "idle" => ppc \in {"top", "ack"}

(* The sets of the handles: handle, where the call goes on, what is asked. *)
Sets == {<<"parser", "start_engine", "running">>,
         <<"engine", "out", "running">>,
         <<"parser", "pausing", "idle">>, <<"parser", "play", "running">>,
         <<"parser", "un_pause", "running">>, <<"engine", "changing", "idle">>,
         <<"engine", "un_pause", "running">>,
         <<"engine", "join_engine", "exit">>,
         <<"parser", "join_parser", "exit">>}

(* Is the application inside the set of h that goes on at "to"? *)
Setting(h, to) == apc = "in_set" /\ after = <<h, to>>

SetInv ==
  /\ apc \in AppPC
  /\ apc = "in_set" =>
       \E s \in Sets : after = <<s[1], s[2]>> /\ asked[s[1]] = s[3]
  /\ apc \in {"start", "start_engine"} \/ Setting("parser", "start_engine")
     \/ Setting("engine", "out") => op = "start"
  /\ apc = "idle_parser" \/ Setting("parser", "pausing") => op = "seek"

(* Handle h has been asked for v, and v is what it has acknowledged. *)
Is(h, v) == asked[h] = v /\ got[h] = v

Middle == {"pausing", "pause_wait", "idle"}
Seeking == {"seek_init", "seeking", "seek_ok", "seek_err", "run_parser"}
Playing == {"play", "playing", "played"}
Changing == {"changing", "run_engine"}

EngineRuns ==
  \/ apc \in {"out", "idle_parser", "resume_parser", "idle_engine", "un_pause",
               "exit_engine"}
             \cup Middle \cup Seeking \cup Playing
  \/ \E to \in {"pausing", "play", "un_pause"} : Setting("parser", to)

ParserRuns ==
  \/ apc \in {"start_engine", "out", "idle_parser", "idle_engine", "un_pause",
               "exit_engine"}
             \cup Playing \cup Changing
  \/ apc \in Middle /\ op # "seek"
  \/ \E to \in {"out", "changing", "un_pause"} : Setting("engine", to)

(* Where the parser has been idled for a seek. *)
ParserIdle == apc \in Seeking \/ (apc \in Middle /\ op = "seek")

(* What the application has made of the handles before it goes on. *)
HandlesInv ==
  /\ EngineRuns => Is("engine", "running")
  /\ apc \in Changing => Is("engine", "idle")
  /\ ParserRuns => Is("parser", "running")
  /\ ParserIdle => Is("parser", "idle")

(* What pauses the stream, and restores it at the end. *)
Restoring == {"seek", "set_speed", "set_stream"}

(* Is it between stream_pause and stream_un_pause? *)
Paused ==
  /\ op \in Restoring
  /\ \/ apc \in {"pause_wait", "idle", "resume_parser", "idle_engine",
                  "un_pause"}
                \cup Seeking \cup Playing \cup Changing
     \/ \E s \in {<<"parser", "play">>, <<"parser", "un_pause">>,
                  <<"engine", "changing">>, <<"engine", "un_pause">>} :
          Setting(s[1], s[2])

PausedInv ==
  /\ paused \in BOOLEAN /\ was_paused \in BOOLEAN
  /\ Paused => paused
  /\ op \in Restoring /\ apc = "out" => paused = was_paused

EInv == WorkersInv /\ SetInv /\ HandlesInv /\ PausedInv
-----------------------------------------------------------------------------
(* A worker idles and leaves its idling on its own only. *)
LEMMA WorkersStep ==
  ASSUME EInv, [Next]_vars
  PROVE  WorkersInv'
<1> USE DEF EngineKeeps, DecodeKeeps, ParserKeeps, AppKeeps, KeepHandles,
   KeepPlayer, Goto, handleVars, appVars, codecVars, streamVars
<1> USE DEF EInv, WorkersInv, SetInv, Sets, TS!HandleTypeOK, TS!THREAD_STATES
<1>1. CASE EngineAck
  BY <1>1 DEF EngineAck, TS!AckEnter
<1>2. CASE EngineWake
  BY <1>2 DEF EngineWake, TS!AckSleepAgain, TS!AckReturn, TS!handleVars
<1>3. CASE EngineExit
  BY <1>3 DEF EngineExit
<1>4. CASE Player
  BY <1>4 DEF Player, QueueSinkFrames, PauseTest, NoChunkLeft, NoFrameLeft, GetDecodeFrame,
     DropPipeline, DropFrame, Submit, Signal, PollFetch, PollAbort, Finish
<1>5. CASE ParserAck
  BY <1>5 DEF ParserAck, TS!AckEnter
<1>6. CASE ParserWake
  BY <1>6 DEF ParserWake, TS!AckSleepAgain, TS!AckReturn, TS!handleVars
<1>7. CASE Parse
  BY <1>7 DEF Parse
<1>8. CASE ParserExit
  BY <1>8 DEF ParserExit
<1>9. CASE Decoder
  BY <1>9 DEF Decoder, DecodeTest, DecodeLock, VideoDecode, DecodeAnswer
<1>10. CASE DecoderSpurious
  BY <1>10 DEF DecoderSpurious
<1>11. CASE AppInSet
  BY <1>11 DEF AppInSet, TS!SetSleepAgain, TS!SetReturn, TS!Settled,
     TS!handleVars, Continue
<1>12. CASE Start
  BY <1>12 DEF Start, AppSet, TS!SetEnter
<1>13. CASE SeekSets
  BY <1>13 DEF SeekSets, AppSet, TS!SetEnter
<1>14. CASE ChangeSets
  BY <1>14 DEF ChangeSets, AppSet, TS!SetEnter
<1>15. CASE StopSets
  BY <1>15 DEF StopSets, AppSet, TS!SetEnter
<1>16. CASE Begin
  BY <1>16 DEF Begin
<1>17. CASE Resume
  BY <1>17 DEF Resume, UnPause
<1>18. CASE stream_pause
  BY <1>18 DEF stream_pause
<1>19. CASE PauseWaited
  BY <1>19 DEF PauseWaited, WaitedForIdle, Continue
<1>20. CASE Idle
  BY <1>20 DEF Idle, WaitedForIdle, Continue
<1>21. CASE IdleTimeout
  BY <1>21 DEF IdleTimeout, WaitedForIdle, Continue
<1>22. CASE Played
  BY <1>22 DEF Played, WaitedForIdle, Continue
<1>23. CASE Change
  BY <1>23 DEF Change, WaitedForIdle, Continue
<1>24. CASE StopJoins
  BY <1>24 DEF StopJoins, WaitedForIdle, Continue
<1>25. CASE seek_init
  BY <1>25 DEF seek_init, Continue
<1>26. CASE ParserSeeks
  BY <1>26 DEF ParserSeeks, Continue
<1>27. CASE video_init
  BY <1>27 DEF video_init, Continue
<1>28. CASE PlayFrames
  BY <1>28 DEF PlayFrames, Continue
<1>29. CASE StopCodec
  BY <1>29 DEF StopCodec, Continue
<1>30. CASE WakeCodec
  BY <1>30 DEF WakeCodec, Continue
<1>31. CASE HandleSpurious
  BY <1>31 DEF HandleSpurious, TS!SpuriousWakeup
<1>32. CASE UNCHANGED vars
  BY <1>32 DEF vars
<1>33. QED
  BY <1>1, <1>2, <1>3, <1>4, <1>5, <1>6, <1>7, <1>8, <1>9, <1>10, <1>11, <1>12,
     <1>13, <1>14, <1>15, <1>16, <1>17, <1>18, <1>19, <1>20, <1>21, <1>22,
     <1>23, <1>24, <1>25, <1>26, <1>27, <1>28, <1>29, <1>30, <1>31, <1>32 DEF
     Next, Engine, Parser, App

(* What is asked of a handle stays while the application waits in the set. *)
LEMMA SetStep ==
  ASSUME EInv, [Next]_vars
  PROVE  SetInv'
<1> USE DEF EngineKeeps, DecodeKeeps, ParserKeeps, AppKeeps, KeepHandles,
   KeepPlayer, Goto, handleVars, appVars, codecVars, streamVars
<1> USE DEF EInv, WorkersInv, SetInv, Sets, Setting, AppPC, TS!HandleTypeOK
<1>1. CASE EngineAck
  BY <1>1 DEF EngineAck, TS!AckEnter
<1>2. CASE EngineWake
  BY <1>2 DEF EngineWake, TS!AckSleepAgain, TS!AckReturn, TS!handleVars
<1>3. CASE EngineExit
  BY <1>3 DEF EngineExit
<1>4. CASE Player
  <2>1. UNCHANGED <<apc, op, after, asked>>
    BY <1>4 DEF Player, QueueSinkFrames, PauseTest, NoChunkLeft, NoFrameLeft,
       GetDecodeFrame, DropPipeline, DropFrame, Submit, Signal, PollFetch,
       PollAbort, Finish
  <2>2. QED BY <2>1
<1>5. CASE ParserAck
  BY <1>5 DEF ParserAck, TS!AckEnter
<1>6. CASE ParserWake
  BY <1>6 DEF ParserWake, TS!AckSleepAgain, TS!AckReturn, TS!handleVars
<1>7. CASE Parse
  BY <1>7 DEF Parse
<1>8. CASE ParserExit
  BY <1>8 DEF ParserExit
<1>9. CASE Decoder
  BY <1>9 DEF Decoder, DecodeTest, DecodeLock, VideoDecode, DecodeAnswer
<1>10. CASE DecoderSpurious
  BY <1>10 DEF DecoderSpurious
<1>11. CASE AppInSet
  <2>1. CASE TS!SetSleepAgain(after[1], "app") /\ UNCHANGED appVars
    BY <1>11, <2>1 DEF AppInSet, TS!SetSleepAgain
  <2>2. CASE TS!SetReturn(after[1], "app") /\ Continue(after[2])
    <3>1. PICK s \in Sets : after = <<s[1], s[2]>>
      BY <1>11 DEF AppInSet
    <3>2. apc = "in_set" /\ apc' = s[2] /\ after' = after /\ op' = op
      BY <1>11, <2>2, <3>1 DEF AppInSet, Continue
    <3>3. apc' \in AppPC \ {"in_set", "idle_parser", "start"}
      BY <3>1, <3>2
    <3>4. apc' = "start_engine" => op' = "start"
      BY <3>1, <3>2
    <3>5. QED BY <3>3, <3>4
  <2>3. QED BY <1>11, <2>1, <2>2 DEF AppInSet
<1>12. CASE Start
  BY <1>12 DEF Start, AppSet, TS!SetEnter
<1>13. CASE SeekSets
  BY <1>13 DEF SeekSets, AppSet, TS!SetEnter
<1>14. CASE ChangeSets
  BY <1>14 DEF ChangeSets, AppSet, TS!SetEnter
<1>15. CASE StopSets
  BY <1>15 DEF StopSets, AppSet, TS!SetEnter
<1>16. CASE Begin
  BY <1>16 DEF Begin
<1>17. CASE Resume
  BY <1>17 DEF Resume, UnPause
<1>18. CASE stream_pause
  BY <1>18 DEF stream_pause
<1>19. CASE PauseWaited
  BY <1>19 DEF PauseWaited, WaitedForIdle, Continue
<1>20. CASE Idle
  BY <1>20 DEF Idle, WaitedForIdle, Continue
<1>21. CASE IdleTimeout
  BY <1>21 DEF IdleTimeout, WaitedForIdle, Continue
<1>22. CASE Played
  BY <1>22 DEF Played, WaitedForIdle, Continue
<1>23. CASE Change
  BY <1>23 DEF Change, WaitedForIdle, Continue
<1>24. CASE StopJoins
  BY <1>24 DEF StopJoins, WaitedForIdle, Continue
<1>25. CASE seek_init
  BY <1>25 DEF seek_init, Continue
<1>26. CASE ParserSeeks
  BY <1>26 DEF ParserSeeks, Continue
<1>27. CASE video_init
  BY <1>27 DEF video_init, Continue
<1>28. CASE PlayFrames
  BY <1>28 DEF PlayFrames, Continue
<1>29. CASE StopCodec
  BY <1>29 DEF StopCodec, Continue
<1>30. CASE WakeCodec
  BY <1>30 DEF WakeCodec, Continue
<1>31. CASE HandleSpurious
  BY <1>31 DEF HandleSpurious, TS!SpuriousWakeup
<1>32. CASE UNCHANGED vars
  BY <1>32 DEF vars
<1>33. QED
  BY <1>1, <1>2, <1>3, <1>4, <1>5, <1>6, <1>7, <1>8, <1>9, <1>10, <1>11, <1>12,
     <1>13, <1>14, <1>15, <1>16, <1>17, <1>18, <1>19, <1>20, <1>21, <1>22,
     <1>23, <1>24, <1>25, <1>26, <1>27, <1>28, <1>29, <1>30, <1>31, <1>32 DEF
     Next, Engine, Parser, App

(* Nobody but the application asks, and an acknowledgement changes nothing *)
(* that is settled.                                                        *)
LEMMA HandlesStep ==
  ASSUME EInv, [Next]_vars
  PROVE  HandlesInv'
<1> USE DEF EngineKeeps, DecodeKeeps, ParserKeeps, AppKeeps, KeepHandles,
   KeepPlayer, Goto, handleVars, appVars, codecVars, streamVars
<1> USE DEF EInv, WorkersInv, TS!HandleTypeOK, SetInv, Sets, HandlesInv,
   EngineRuns, ParserRuns, ParserIdle, Is, Setting, Middle, Seeking, Playing,
   Changing
<1>1. CASE EngineAck
  BY <1>1 DEF EngineAck, TS!AckEnter
<1>2. CASE EngineWake
  BY <1>2 DEF EngineWake, TS!AckSleepAgain, TS!AckReturn, TS!handleVars
<1>3. CASE EngineExit
  BY <1>3 DEF EngineExit
<1>4. CASE Player
  BY <1>4 DEF Player, QueueSinkFrames, PauseTest, NoChunkLeft, NoFrameLeft, GetDecodeFrame,
     DropPipeline, DropFrame, Submit, Signal, PollFetch, PollAbort, Finish
<1>5. CASE ParserAck
  BY <1>5 DEF ParserAck, TS!AckEnter
<1>6. CASE ParserWake
  BY <1>6 DEF ParserWake, TS!AckSleepAgain, TS!AckReturn, TS!handleVars
<1>7. CASE Parse
  BY <1>7 DEF Parse
<1>8. CASE ParserExit
  BY <1>8 DEF ParserExit
<1>9. CASE Decoder
  BY <1>9 DEF Decoder, DecodeTest, DecodeLock, VideoDecode, DecodeAnswer
<1>10. CASE DecoderSpurious
  BY <1>10 DEF DecoderSpurious
<1>11. CASE AppInSet
  <2>1. CASE TS!SetSleepAgain(after[1], "app") /\ UNCHANGED appVars
    BY <1>11, <2>1 DEF AppInSet, TS!SetSleepAgain
  <2>2. CASE TS!SetReturn(after[1], "app") /\ Continue(after[2])
    <3>1. PICK s \in Sets : after = <<s[1], s[2]>> /\ asked[s[1]] = s[3]
      BY <1>11 DEF AppInSet
    <3>2. /\ apc = "in_set" /\ apc' = s[2] /\ Is(s[1], s[3])
          /\ UNCHANGED <<got, asked, op>>
      BY <1>11, <2>2, <3>1 DEF AppInSet, TS!SetReturn, TS!Settled,
         TS!handleVars, Continue
    <3>3. EngineRuns' => Is("engine", "running")'
      BY <3>1, <3>2
    <3>4. (apc \in Changing)' => Is("engine", "idle")'
      BY <3>1, <3>2
    <3>5. ParserRuns' => Is("parser", "running")'
      BY <3>1, <3>2
    <3>6. ParserIdle' => Is("parser", "idle")'
      BY <3>1, <3>2
    <3>7. QED BY <3>3, <3>4, <3>5, <3>6
  <2>3. QED BY <1>11, <2>1, <2>2 DEF AppInSet
<1>12. CASE Start
  BY <1>12 DEF Start, AppSet, TS!SetEnter
<1>13. CASE SeekSets
  BY <1>13 DEF SeekSets, AppSet, TS!SetEnter
<1>14. CASE ChangeSets
  BY <1>14 DEF ChangeSets, AppSet, TS!SetEnter
<1>15. CASE StopSets
  BY <1>15 DEF StopSets, AppSet, TS!SetEnter
<1>16. CASE Begin
  BY <1>16 DEF Begin
<1>17. CASE Resume
  BY <1>17 DEF Resume, UnPause
<1>18. CASE stream_pause
  BY <1>18 DEF stream_pause
<1>19. CASE PauseWaited
  BY <1>19 DEF PauseWaited, WaitedForIdle, Continue
<1>20. CASE Idle
  BY <1>20 DEF Idle, WaitedForIdle, Continue
<1>21. CASE IdleTimeout
  BY <1>21 DEF IdleTimeout, WaitedForIdle, Continue
<1>22. CASE Played
  BY <1>22 DEF Played, WaitedForIdle, Continue
<1>23. CASE Change
  BY <1>23 DEF Change, WaitedForIdle, Continue
<1>24. CASE StopJoins
  BY <1>24 DEF StopJoins, WaitedForIdle, Continue
<1>25. CASE seek_init
  BY <1>25 DEF seek_init, Continue
<1>26. CASE ParserSeeks
  BY <1>26 DEF ParserSeeks, Continue
<1>27. CASE video_init
  BY <1>27 DEF video_init, Continue
<1>28. CASE PlayFrames
  BY <1>28 DEF PlayFrames, Continue
<1>29. CASE StopCodec
  BY <1>29 DEF StopCodec, Continue
<1>30. CASE WakeCodec
  BY <1>30 DEF WakeCodec, Continue
<1>31. CASE HandleSpurious
  BY <1>31 DEF HandleSpurious, TS!SpuriousWakeup
<1>32. CASE UNCHANGED vars
  BY <1>32 DEF vars
<1>33. QED
  BY <1>1, <1>2, <1>3, <1>4, <1>5, <1>6, <1>7, <1>8, <1>9, <1>10, <1>11, <1>12,
     <1>13, <1>14, <1>15, <1>16, <1>17, <1>18, <1>19, <1>20, <1>21, <1>22,
     <1>23, <1>24, <1>25, <1>26, <1>27, <1>28, <1>29, <1>30, <1>31, <1>32 DEF
     Next, Engine, Parser, App

(* What was paused for an operation stays so until its end. *)
LEMMA PausedStep ==
  ASSUME EInv, [Next]_vars
  PROVE  PausedInv'
<1> USE DEF EngineKeeps, DecodeKeeps, ParserKeeps, AppKeeps, KeepHandles,
   KeepPlayer, Goto, handleVars, appVars, codecVars, streamVars
<1> USE DEF EInv, SetInv, Sets, PausedInv, Paused, Restoring, Setting, Seeking,
   Playing, Changing
<1>1. CASE EngineAck
  BY <1>1 DEF EngineAck, TS!AckEnter
<1>2. CASE EngineWake
  BY <1>2 DEF EngineWake, TS!AckSleepAgain, TS!AckReturn, TS!handleVars
<1>3. CASE EngineExit
  BY <1>3 DEF EngineExit
<1>4. CASE Player
  BY <1>4 DEF Player, QueueSinkFrames, PauseTest, NoChunkLeft, NoFrameLeft, GetDecodeFrame,
     DropPipeline, DropFrame, Submit, Signal, PollFetch, PollAbort, Finish
<1>5. CASE ParserAck
  BY <1>5 DEF ParserAck, TS!AckEnter
<1>6. CASE ParserWake
  BY <1>6 DEF ParserWake, TS!AckSleepAgain, TS!AckReturn, TS!handleVars
<1>7. CASE Parse
  BY <1>7 DEF Parse
<1>8. CASE ParserExit
  BY <1>8 DEF ParserExit
<1>9. CASE Decoder
  BY <1>9 DEF Decoder, DecodeTest, DecodeLock, VideoDecode, DecodeAnswer
<1>10. CASE DecoderSpurious
  BY <1>10 DEF DecoderSpurious
<1>11. CASE AppInSet
  <2>1. UNCHANGED <<paused, op, was_paused>>
    BY <1>11 DEF AppInSet, Continue
  <2>2. CASE TS!SetSleepAgain(after[1], "app") /\ UNCHANGED appVars
    BY <2>1, <2>2
  <2>3. CASE TS!SetReturn(after[1], "app") /\ Continue(after[2])
    <3>1. PICK s \in Sets : after = <<s[1], s[2]>>
      BY <1>11 DEF AppInSet
    <3>2. apc = "in_set" /\ apc' = s[2] /\ after' = after
      BY <1>11, <2>3, <3>1 DEF AppInSet, Continue
    <3>3. Paused' => Paused \/ apc' = "pausing"
      BY <2>1, <3>1, <3>2
    <3>4. ~(op \in Restoring /\ apc' = "out")
      BY <2>1, <3>1, <3>2
    <3>5. QED BY <2>1, <3>2, <3>3, <3>4
  <2>4. QED BY <1>11, <2>2, <2>3 DEF AppInSet
<1>12. CASE Start
  BY <1>12 DEF Start, AppSet, TS!SetEnter
<1>13. CASE SeekSets
  BY <1>13 DEF SeekSets, AppSet, TS!SetEnter
<1>14. CASE ChangeSets
  BY <1>14 DEF ChangeSets, AppSet, TS!SetEnter
<1>15. CASE StopSets
  BY <1>15 DEF StopSets, AppSet, TS!SetEnter
<1>16. CASE Begin
  BY <1>16 DEF Begin
<1>17. CASE Resume
  BY <1>17 DEF Resume, UnPause
<1>18. CASE stream_pause
  BY <1>18 DEF stream_pause
<1>19. CASE PauseWaited
  BY <1>19 DEF PauseWaited, WaitedForIdle, Continue
<1>20. CASE Idle
  BY <1>20 DEF Idle, WaitedForIdle, Continue
<1>21. CASE IdleTimeout
  BY <1>21 DEF IdleTimeout, WaitedForIdle, Continue
<1>22. CASE Played
  BY <1>22 DEF Played, WaitedForIdle, Continue
<1>23. CASE Change
  BY <1>23 DEF Change, WaitedForIdle, Continue
<1>24. CASE StopJoins
  BY <1>24 DEF StopJoins, WaitedForIdle, Continue
<1>25. CASE seek_init
  BY <1>25 DEF seek_init, Continue
<1>26. CASE ParserSeeks
  BY <1>26 DEF ParserSeeks, Continue
<1>27. CASE video_init
  BY <1>27 DEF video_init, Continue
<1>28. CASE PlayFrames
  BY <1>28 DEF PlayFrames, Continue
<1>29. CASE StopCodec
  BY <1>29 DEF StopCodec, Continue
<1>30. CASE WakeCodec
  BY <1>30 DEF WakeCodec, Continue
<1>31. CASE HandleSpurious
  BY <1>31 DEF HandleSpurious, TS!SpuriousWakeup
<1>32. CASE UNCHANGED vars
  BY <1>32 DEF vars
<1>33. QED
  BY <1>1, <1>2, <1>3, <1>4, <1>5, <1>6, <1>7, <1>8, <1>9, <1>10, <1>11, <1>12,
     <1>13, <1>14, <1>15, <1>16, <1>17, <1>18, <1>19, <1>20, <1>21, <1>22,
     <1>23, <1>24, <1>25, <1>26, <1>27, <1>28, <1>29, <1>30, <1>31, <1>32 DEF
     Next, Engine, Parser, App

LEMMA InitEInv == Init => EInv
<1> SUFFICES ASSUME Init PROVE EInv
  OBVIOUS
<1>1. WorkersInv
  BY DEF Init, WorkersInv, TS!thread_state_init, TS!HandleTypeOK,
     TS!THREAD_STATES
<1>2. SetInv
  BY DEF Init, SetInv, AppPC, Setting
<1>3. HandlesInv
  BY DEF Init, HandlesInv, EngineRuns, ParserRuns, ParserIdle, Setting, Middle,
         Seeking, Playing, Changing
<1>4. PausedInv
  BY DEF Init, PausedInv, Paused, Restoring
<1>5. QED BY <1>1, <1>2, <1>3, <1>4 DEF EInv

LEMMA Inductive == Spec => []EInv
<1>1. EInv /\ [Next]_vars => EInv'
  BY WorkersStep, SetStep, HandlesStep, PausedStep DEF EInv
<1>2. QED BY <1>1, InitEInv, PTL DEF Spec

-----------------------------------------------------------------------------
(* While the application is inside the parser's seek, the parser thread is *)
(* not inside its parse: both work on the same file and buffers.           *)
THEOREM SeekAlone == Spec => []SeekParserExclusive
<1>1. EInv => SeekParserExclusive
  BY DEF EInv, WorkersInv, HandlesInv, ParserIdle, Seeking, Is,
     SeekParserExclusive
<1>2. QED BY <1>1, Inductive, PTL

(* While decoders and sinks are exchanged the engine is not in its player. *)
THEOREM ChangeAlone == Spec => []EngineOwned
<1>1. EInv => EngineOwned
  BY DEF EInv, WorkersInv, HandlesInv, Changing, Is, EngineOwned
<1>2. QED BY <1>1, Inductive, PTL

(* Whatever fails or times out in a seek or a change, both threads run and *)
(* the stream is paused or not as before when it returns.                  *)
THEOREM RestoresCorrect == Spec => []OperationRestores
<1>1. EInv => OperationRestores
  BY DEF EInv, HandlesInv, EngineRuns, ParserRuns, Is, PausedInv, Restoring,
         OperationRestores
<1>2. QED BY <1>1, Inductive, PTL
-----------------------------------------------------------------------------
(* The flags, one by one. *)
Flags ==
  /\ was_paused \in BOOLEAN /\ paused \in BOOLEAN /\ seek \in BOOLEAN
  /\ cdata \in BOOLEAN /\ drop \in BOOLEAN /\ codec_run \in BOOLEAN
  /\ data \in BOOLEAN /\ crashed \in BOOLEAN

LEMMA TypeStep ==
  ASSUME TypeOK, [Next]_vars
  PROVE  TypeOK'
<1> USE FramesAssumption, PlayNAssumption, OperationsAssumption DEF TypeOK
<1> USE DEF TS!HandleTypeOK, TS!THREAD_STATES, AppPC, Operation
<1> USE DEF EngineKeeps, DecodeKeeps, ParserKeeps, AppKeeps, KeepHandles,
   KeepPlayer, Goto, handleVars, appVars, codecVars, streamVars, frameVars
<1>0. Flags
  BY DEF Flags
<1>1. CASE EngineAck
  BY <1>1 DEF EngineAck, TS!AckEnter
<1>2. CASE EngineWake
  BY <1>2 DEF EngineWake, TS!AckSleepAgain, TS!AckReturn, TS!handleVars
<1>3. CASE EngineExit
  BY <1>3 DEF EngineExit
<1>4. CASE QueueSinkFrames
  BY <1>4 DEF QueueSinkFrames, GetNextChunk
<1>5. CASE PauseTest \/ NoChunkLeft
  BY <1>5 DEF PauseTest, NoChunkLeft
<1>6. CASE NoFrameLeft
  BY <1>6 DEF NoFrameLeft, OutputMeanwhile, OutputFrames
<1>7. CASE GetDecodeFrame
  BY <1>7 DEF GetDecodeFrame
<1>8. CASE DropPipeline
  <2>1. Flags'
    BY <1>0, <1>8 DEF DropPipeline, FreeAllFrames, Flags
  <2>2. QED BY <1>8, <2>1 DEF DropPipeline, FreeAllFrames, Flags
<1>9. CASE DropFrame
  <2>1. Flags'
    BY <1>0, <1>9 DEF DropFrame, Flags
  <2>2. QED BY <1>9, <2>1 DEF DropFrame, Flags
<1>10. CASE Submit
  <2>1. Flags'
    BY <1>0, <1>10 DEF Submit, Flags
  <2>2. QED BY <1>10, <2>1 DEF Submit, Flags
<1>11. CASE Signal
  BY <1>11 DEF Signal, OutputMeanwhile, OutputFrames, WakeDecoder
<1>12. CASE PollFetch
  BY <1>12 DEF PollFetch, GetNextChunk
<1>13. CASE PollAbort
  BY <1>13 DEF PollAbort
<1>14. CASE Finish
  <2>1. Flags'
    BY <1>0, <1>14 DEF Finish, OutputFrames, FramesLeft, Flags
  <2>2. QED BY <1>14, <2>1 DEF Finish, OutputFrames, FramesLeft, Flags
<1>15. CASE ParserAck
  BY <1>15 DEF ParserAck, TS!AckEnter
<1>16. CASE ParserWake
  BY <1>16 DEF ParserWake, TS!AckSleepAgain, TS!AckReturn, TS!handleVars
<1>17. CASE Parse
  BY <1>17 DEF Parse
<1>18. CASE ParserExit
  BY <1>18 DEF ParserExit
<1>19. CASE Decoder
  <2>1. Flags'
    BY <1>0, <1>19, ZenonT(30) DEF Decoder, DecodeTest, DecodeLock, VideoDecode,
       DecodeAnswer, Flags
  <2>2. QED BY <1>19, <2>1 DEF Decoder, DecodeTest, DecodeLock, VideoDecode,
     DecodeAnswer, Flags
<1>20. CASE DecoderSpurious
  BY <1>20 DEF DecoderSpurious
<1>21. CASE AppInSet
  BY <1>21 DEF AppInSet, TS!SetSleepAgain, TS!SetReturn, TS!Settled,
     TS!handleVars, Continue
<1>22. CASE Start
  BY <1>22 DEF Start, AppSet, TS!SetEnter
<1>23. CASE SeekSets
  BY <1>23 DEF SeekSets, AppSet, TS!SetEnter
<1>24. CASE ChangeSets
  BY <1>24 DEF ChangeSets, AppSet, TS!SetEnter
<1>25. CASE StopSets
  BY <1>25 DEF StopSets, AppSet, TS!SetEnter
<1>26. CASE Begin
  <2>1. Flags'
    BY <1>0, <1>26 DEF Begin, Flags
  <2>2. QED BY <1>26, <2>1 DEF Begin, Flags
<1>27. CASE Resume
  BY <1>27 DEF Resume, UnPause
<1>28. CASE stream_pause
  BY <1>28 DEF stream_pause
<1>29. CASE PauseWaited
  BY <1>29 DEF PauseWaited, WaitedForIdle, Continue
<1>30. CASE Idle
  BY <1>30 DEF Idle, WaitedForIdle, Continue
<1>31. CASE IdleTimeout
  BY <1>31 DEF IdleTimeout, WaitedForIdle, Continue
<1>32. CASE Played
  BY <1>32 DEF Played, WaitedForIdle, Continue
<1>33. CASE Change
  BY <1>33 DEF Change, WaitedForIdle, Continue
<1>34. CASE StopJoins
  BY <1>34 DEF StopJoins, WaitedForIdle, Continue
<1>35. CASE seek_init
  <2>1. Flags'
    BY <1>0, <1>35 DEF seek_init, Continue, Flags
  <2>2. QED BY <1>35, <2>1 DEF seek_init, Continue, Flags
<1>36. CASE ParserSeeks
  BY <1>36 DEF ParserSeeks, Continue
<1>37. CASE video_init
  <2>1. Flags'
    BY <1>0, <1>37 DEF video_init, Continue, FreeAllFrames, Flags
  <2>2. QED BY <1>37, <2>1 DEF video_init, Continue, FreeAllFrames, Flags
<1>38. CASE PlayFrames
  <2>1. Flags'
    BY <1>0, <1>38 DEF PlayFrames, Continue, Flags
  <2>2. QED BY <1>38, <2>1 DEF PlayFrames, Continue, Flags
<1>39. CASE StopCodec
  <2>1. Flags'
    BY <1>0, <1>39 DEF StopCodec, Continue, Flags
  <2>2. QED BY <1>39, <2>1 DEF StopCodec, Continue, Flags
<1>40. CASE WakeCodec
  BY <1>40 DEF WakeCodec, Continue, WakeDecoder
<1>41. CASE HandleSpurious
  BY <1>41 DEF HandleSpurious, TS!SpuriousWakeup
<1>42. CASE UNCHANGED vars
  BY <1>42 DEF vars
<1>43. QED
  BY <1>1, <1>2, <1>3, <1>4, <1>5, <1>6, <1>7, <1>8, <1>9, <1>10, <1>11, <1>12,
     <1>13, <1>14, <1>15, <1>16, <1>17, <1>18, <1>19, <1>20, <1>21, <1>22,
     <1>23, <1>24, <1>25, <1>26, <1>27, <1>28, <1>29, <1>30, <1>31, <1>32,
     <1>33, <1>34, <1>35, <1>36, <1>37, <1>38, <1>39, <1>40, <1>41, <1>42 DEF
     Next, Engine, Parser, App, Player

(* The types, for any number of frames and frames asked for by a seek. *)
THEOREM TypeCorrect == Spec => []TypeOK
<1>1. ASSUME Init PROVE TypeOK
  <2>1. TS!HandleTypeOK
    BY <1>1 DEF Init, TS!thread_state_init, TS!HandleTypeOK, TS!THREAD_STATES
  <2>2. Flags
    BY <1>1 DEF Init, Flags
  <2>3. play_n \in 0..PlayN
    BY <1>1, PlayNAssumption DEF Init
  <2>4. QED BY <1>1, <2>1, <2>2, <2>3 DEF Init, TypeOK, Flags, AppPC, Operation
<1>2. QED BY <1>1, TypeStep, PTL DEF Spec
-----------------------------------------------------------------------------
(***************************************************************************)
(* Where every frame is, when the application only pauses, resumes and     *)
(* stops.  The engine, asked to exit while a decode is under way, leaves   *)
(* its player at once: the frame stays the engine's, and the engine never  *)
(* comes back for another.                                                 *)
(***************************************************************************)
(* The operations that neither rewind nor reconfigure the pipeline. *)
PlayOps == {"pause", "un_pause", "stop"}

(* Where the application can be when it does only these. *)
Starting == apc \in {"start", "start_engine"} \/ Setting("parser", "start_engine")

PlayAppInv ==
  /\ apc \in {"start", "in_set", "start_engine", "out", "pausing", "pause_wait", "un_pause",
              "exit_engine", "join_engine", "exit_parser", "join_parser", "stop_codec",
              "wake_codec", "join_codec", "closed"}
  /\ apc = "in_set" => after \in {<<"parser", "start_engine">>, <<"engine", "out">>,
                                  <<"engine", "join_engine">>, <<"parser", "join_parser">>}
  /\ op \in PlayOps \cup {"start"}
  /\ apc \in {"pausing", "pause_wait"} => op \in {"pause", "stop"}
  /\ IF Starting THEN Is("engine", "idle") /\ epc \in {"top", "ack"}
                 ELSE asked["engine"] \in {"running", "exit"}

(* No decode is asked for or under way. *)
Quiet == done \in {0, 2} /\ dpc \notin {"decode", "answer"}

(* What was asked for and is not answered: frame and data are in place, and *)
(* the decode thread has what it was asked for.                             *)
InFlight ==
  /\ done = 1
  /\ eframe # NoFrame /\ vframe = eframe
  /\ dpc \in {"decode", "answer"} => decoding.frame = eframe
  /\ dpc # "answer" => data
  /\ dpc = "decode" => decoding.data

Idling == epc \in {"ack", "again", "test", "get"} \/ (epc = "top" /\ asked["engine"] # "exit")

HeldInv ==
  /\ eframe \in Frames \cup {NoFrame}
  /\ Quiet \/ InFlight
  /\ Idling => Quiet /\ eframe = NoFrame
  /\ epc = "submit" => Quiet /\ eframe # NoFrame
  /\ epc = "signal" => Quiet /\ eframe # NoFrame /\ vframe = eframe /\ data
  /\ epc = "poll" => eframe # NoFrame /\ vframe = eframe

PlayInv == PlayAppInv /\ HeldInv /\ FramePartition

(* The application stays in these calls, and asks the engine to run once. *)
LEMMA PlayAppStep ==
  ASSUME Operations \subseteq PlayOps, EInv, PlayInv, [Next]_vars
  PROVE  PlayAppInv'
<1> USE DEF EngineKeeps, DecodeKeeps, ParserKeeps, AppKeeps, KeepHandles,
   KeepPlayer, Goto, handleVars, appVars, codecVars, streamVars, frameVars
<1> USE DEF EInv, WorkersInv, TS!HandleTypeOK, PlayInv, PlayAppInv, Starting,
   Is, Setting, PlayOps
<1>1. CASE EngineAck
  BY <1>1 DEF EngineAck, TS!AckEnter
<1>2. CASE EngineWake
  BY <1>2 DEF EngineWake, TS!AckSleepAgain, TS!AckReturn, TS!handleVars
<1>3. CASE EngineExit
  BY <1>3 DEF EngineExit
<1>4. CASE Player
  <2>1. UNCHANGED <<apc, op, after, got, asked>> /\ epc \notin {"top", "ack"}
    BY <1>4 DEF Player, QueueSinkFrames, PauseTest, NoChunkLeft, NoFrameLeft,
       GetDecodeFrame, DropPipeline, DropFrame, Submit, Signal, PollFetch,
       PollAbort, Finish
  <2>2. QED BY <2>1
<1>5. CASE ParserAck
  BY <1>5 DEF ParserAck, TS!AckEnter
<1>6. CASE ParserWake
  BY <1>6 DEF ParserWake, TS!AckSleepAgain, TS!AckReturn, TS!handleVars
<1>7. CASE Parse
  BY <1>7 DEF Parse
<1>8. CASE ParserExit
  BY <1>8 DEF ParserExit
<1>9. CASE Decoder
  BY <1>9 DEF Decoder, DecodeTest, DecodeLock, VideoDecode, DecodeAnswer
<1>10. CASE AppInSet
  BY <1>10 DEF AppInSet, TS!SetSleepAgain, TS!SetReturn, TS!Settled,
     TS!handleVars, Continue
<1>11. CASE Start
  BY <1>11 DEF Start, AppSet, TS!SetEnter
<1>12. CASE StopSets
  BY <1>12 DEF StopSets, AppSet, TS!SetEnter
<1>13. CASE Begin
  BY <1>13 DEF Begin
<1>14. CASE Resume
  BY <1>14 DEF Resume, UnPause
<1>15. CASE stream_pause
  BY <1>15 DEF stream_pause
<1>16. CASE PauseWaited
  BY <1>16 DEF PauseWaited, WaitedForIdle, Continue
<1>17. CASE StopJoins
  BY <1>17 DEF StopJoins, WaitedForIdle, Continue
<1>18. CASE StopCodec
  BY <1>18 DEF StopCodec, Continue
<1>19. CASE WakeCodec
  BY <1>19 DEF WakeCodec, Continue, WakeDecoder
<1>20. CASE Idle
  BY <1>20 DEF Idle, WaitedForIdle
<1>21. CASE IdleTimeout
  BY <1>21 DEF IdleTimeout, WaitedForIdle
<1>22. CASE Played
  BY <1>22 DEF Played, WaitedForIdle
<1>23. CASE Change
  BY <1>23 DEF Change, WaitedForIdle
<1>24. CASE SeekSets
  BY <1>24 DEF SeekSets, AppSet
<1>25. CASE ChangeSets
  BY <1>25 DEF ChangeSets, AppSet
<1>26. CASE seek_init
  BY <1>26 DEF seek_init
<1>27. CASE ParserSeeks
  BY <1>27 DEF ParserSeeks
<1>28. CASE video_init
  BY <1>28 DEF video_init
<1>29. CASE PlayFrames
  BY <1>29 DEF PlayFrames
<1>30. CASE DecoderSpurious
  BY <1>30 DEF DecoderSpurious
<1>31. CASE HandleSpurious
  BY <1>31 DEF HandleSpurious, TS!SpuriousWakeup
<1>32. CASE UNCHANGED vars
  BY <1>32 DEF vars
<1>33. QED
  BY <1>1, <1>2, <1>3, <1>4, <1>5, <1>6, <1>7, <1>8, <1>9, <1>10, <1>11,
     <1>12, <1>13, <1>14, <1>15, <1>16, <1>17, <1>18, <1>19, <1>20, <1>21,
     <1>22, <1>23, <1>24, <1>25, <1>26, <1>27, <1>28, <1>29, <1>30, <1>31,
     <1>32 DEF Next, Engine, Player, Decoder, Parser, App

(* The engine holds the frame of a decode until it is answered, or for good. *)
LEMMA HeldStep ==
  ASSUME EInv, TypeOK, PlayInv, [Next]_vars
  PROVE  HeldInv'
<1> USE DEF EngineKeeps, DecodeKeeps, ParserKeeps, AppKeeps, KeepHandles,
   KeepPlayer, Goto, handleVars, appVars, codecVars, streamVars, frameVars
<1> USE FramesAssumption DEF EInv, WorkersInv, TS!HandleTypeOK, PlayInv, PlayAppInv, Starting,
   Is, Setting, HeldInv, Quiet, InFlight, Idling, TypeOK
<1>1. CASE EngineAck
  BY <1>1 DEF EngineAck, TS!AckEnter
<1>2. CASE EngineWake
  BY <1>2 DEF EngineWake, TS!AckSleepAgain, TS!AckReturn, TS!handleVars
<1>3. CASE EngineExit
  BY <1>3 DEF EngineExit
<1>4. CASE QueueSinkFrames
  BY <1>4 DEF QueueSinkFrames
<1>5. CASE PauseTest \/ NoChunkLeft
  BY <1>5 DEF PauseTest, NoChunkLeft
<1>6. CASE NoFrameLeft
  BY <1>6 DEF NoFrameLeft, OutputMeanwhile, OutputFrames
<1>7. CASE GetDecodeFrame
  BY <1>7 DEF GetDecodeFrame
<1>8. CASE DropPipeline
  BY <1>8 DEF DropPipeline, FreeAllFrames
<1>9. CASE DropFrame
  BY <1>9 DEF DropFrame
<1>10. CASE Submit
  BY <1>10 DEF Submit
<1>11. CASE Signal
  BY <1>11 DEF Signal, WakeDecoder, CodecMutexFree, OutputMeanwhile,
     OutputFrames
<1>12. CASE PollFetch
  BY <1>12 DEF PollFetch
<1>13. CASE PollAbort
  BY <1>13 DEF PollAbort, Answered
<1>14. CASE Finish
  BY <1>14 DEF Finish, Answered, OutputFrames
<1>15. CASE ParserAck
  BY <1>15 DEF ParserAck, TS!AckEnter
<1>16. CASE ParserWake
  BY <1>16 DEF ParserWake, TS!AckSleepAgain, TS!AckReturn, TS!handleVars
<1>17. CASE Parse
  BY <1>17 DEF Parse
<1>18. CASE ParserExit
  BY <1>18 DEF ParserExit
<1>19. CASE DecodeTest
  BY <1>19 DEF DecodeTest
<1>20. CASE DecodeLock
  BY <1>20 DEF DecodeLock
<1>21. CASE VideoDecode
  BY <1>21 DEF VideoDecode
<1>22. CASE DecodeAnswer
  BY <1>22 DEF DecodeAnswer
<1>23. CASE AppInSet
  BY <1>23 DEF AppInSet, TS!SetSleepAgain, TS!SetReturn, TS!Settled,
     TS!handleVars, Continue
<1>24. CASE Start
  BY <1>24 DEF Start, AppSet, TS!SetEnter
<1>25. CASE StopSets
  BY <1>25 DEF StopSets, AppSet, TS!SetEnter
<1>26. CASE Begin
  BY <1>26 DEF Begin
<1>27. CASE Resume
  BY <1>27 DEF Resume, UnPause
<1>28. CASE stream_pause
  BY <1>28 DEF stream_pause
<1>29. CASE PauseWaited
  BY <1>29 DEF PauseWaited, WaitedForIdle, Continue
<1>30. CASE StopJoins
  BY <1>30 DEF StopJoins, WaitedForIdle, Continue
<1>31. CASE StopCodec
  BY <1>31 DEF StopCodec, Continue
<1>32. CASE WakeCodec
  BY <1>32 DEF WakeCodec, Continue, WakeDecoder
<1>33. CASE Idle
  BY <1>33 DEF Idle, WaitedForIdle
<1>34. CASE IdleTimeout
  BY <1>34 DEF IdleTimeout, WaitedForIdle
<1>35. CASE Played
  BY <1>35 DEF Played, WaitedForIdle
<1>36. CASE Change
  BY <1>36 DEF Change, WaitedForIdle
<1>37. CASE SeekSets
  BY <1>37 DEF SeekSets, AppSet
<1>38. CASE ChangeSets
  BY <1>38 DEF ChangeSets, AppSet
<1>39. CASE seek_init
  BY <1>39 DEF seek_init
<1>40. CASE ParserSeeks
  BY <1>40 DEF ParserSeeks
<1>41. CASE video_init
  BY <1>41 DEF video_init
<1>42. CASE PlayFrames
  BY <1>42 DEF PlayFrames
<1>43. CASE DecoderSpurious
  BY <1>43 DEF DecoderSpurious
<1>44. CASE HandleSpurious
  BY <1>44 DEF HandleSpurious, TS!SpuriousWakeup
<1>45. CASE UNCHANGED vars
  BY <1>45 DEF vars
<1>46. QED
  BY <1>1, <1>2, <1>3, <1>4, <1>5, <1>6, <1>7, <1>8, <1>9, <1>10, <1>11,
     <1>12, <1>13, <1>14, <1>15, <1>16, <1>17, <1>18, <1>19, <1>20, <1>21,
     <1>22, <1>23, <1>24, <1>25, <1>26, <1>27, <1>28, <1>29, <1>30, <1>31,
     <1>32, <1>33, <1>34, <1>35, <1>36, <1>37, <1>38, <1>39, <1>40, <1>41,
     <1>42, <1>43, <1>44, <1>45 DEF Next, Engine, Player, Decoder, Parser,
     App

(* FramePartition, with its pairs written out, is what the steps are split by. *)
Held == {eframe} \ {NoFrame}
Split ==
  /\ decode_q \cup disp_q \cup sink \cup Held = Frames
  /\ decode_q \cap disp_q = {} /\ decode_q \cap sink = {} /\ disp_q \cap sink = {}
  /\ Held \cap (decode_q \cup disp_q \cup sink) = {}

LEMMA PartitionSplit == FramePartition <=> Split
<1>1. FramePartition <=>
        /\ decode_q \cup disp_q \cup sink \cup Held = Frames
        /\ \A i, j \in 1..4 : i # j => Parts[i] \cap Parts[j] = {}
  BY DEF FramePartition, Held
<1>2. /\ Parts[1] = decode_q /\ Parts[2] = disp_q
      /\ Parts[3] = sink /\ Parts[4] = Held
  BY DEF Parts, Held
<1>3. FramePartition => Split
  <2>1. \A i, j \in {1, 2, 3, 4} : i \in 1..4 /\ j \in 1..4
    OBVIOUS
  <2>2. QED BY <1>1, <1>2, <2>1 DEF Split
<1>4. ASSUME Split, NEW i \in 1..4, NEW j \in 1..4, i # j
      PROVE  Parts[i] \cap Parts[j] = {}
  <2>1. i \in {1, 2, 3, 4} /\ j \in {1, 2, 3, 4}
    OBVIOUS
  <2>2. QED BY <2>1, <1>2, <1>4 DEF Split
<1>5. Split => FramePartition
  BY <1>1, <1>4 DEF Split
<1>6. QED BY <1>1, <1>3, <1>5

(* A frame leaves one place for another, in one step. *)
LEMMA SplitStep ==
  ASSUME EInv, TypeOK, PlayInv, Split, [Next]_vars
  PROVE  Split'
<1> USE DEF Split, Held, TypeOK
<1> USE DEF EngineKeeps, DecodeKeeps, ParserKeeps, AppKeeps, KeepHandles,
   KeepPlayer, Goto, handleVars, appVars, codecVars, streamVars, frameVars
<1>1. CASE QueueSinkFrames
  BY <1>1 DEF QueueSinkFrames
<1>2. CASE NoFrameLeft
  BY <1>2 DEF NoFrameLeft, OutputMeanwhile, OutputFrames, PlayInv, HeldInv, Idling
<1>3. CASE GetDecodeFrame
  <2>1. PICK f \in decode_q : eframe' = f /\ decode_q' = decode_q \ {f}
    BY <1>3 DEF GetDecodeFrame
  <2>2. eframe = NoFrame /\ UNCHANGED <<disp_q, sink>>
    BY <1>3 DEF GetDecodeFrame, PlayInv, HeldInv, Idling
  <2>3. Held = {} /\ Held' = {f}
    BY <2>1, <2>2, FramesAssumption
  <2>4. QED BY <2>1, <2>2, <2>3
<1>4. CASE DropPipeline
  BY <1>4 DEF DropPipeline, FreeAllFrames
<1>5. CASE DropFrame
  BY <1>5 DEF DropFrame
<1>6. CASE Signal
  BY <1>6 DEF Signal, OutputMeanwhile, OutputFrames
<1>7. CASE Finish
  BY <1>7 DEF Finish, OutputFrames, PlayInv, HeldInv
<1>8. CASE UNCHANGED frameVars
  BY <1>8
<1>9. Player => \/ QueueSinkFrames \/ NoFrameLeft \/ GetDecodeFrame \/ DropPipeline
                \/ DropFrame \/ Signal \/ Finish \/ UNCHANGED frameVars
  BY DEF Player, PauseTest, NoChunkLeft, Submit, PollFetch, PollAbort
<1>10. CASE EngineAck \/ EngineWake \/ EngineExit \/ Decoder \/ Parser \/ DecoderSpurious
  BY <1>10, <1>8 DEF EngineAck, EngineWake, EngineExit, Decoder, DecodeTest, DecodeLock,
     VideoDecode, DecodeAnswer, Parser, ParserAck, ParserWake, Parse, ParserExit,
     DecoderSpurious
<1>11. ~video_init
  BY DEF video_init, PlayInv, PlayAppInv
<1>12. CASE App \/ Begin \/ HandleSpurious
  BY <1>12, <1>11, <1>8 DEF App, AppInSet, Start, AppSet, Resume, UnPause, stream_pause,
     PauseWaited, WaitedForIdle, Idle, IdleTimeout, seek_init, ParserSeeks, PlayFrames,
     Played, SeekSets, Change, ChangeSets, StopSets, StopJoins, StopCodec, WakeCodec,
     Begin, HandleSpurious
<1>13. QED
  BY <1>1, <1>2, <1>3, <1>4, <1>5, <1>6, <1>7, <1>8, <1>9, <1>10, <1>12
     DEF Next, Engine, vars

(* The queues, the engine and the decode thread keep to it together. *)
LEMMA PlayInductive ==
  ASSUME Operations \subseteq PlayOps
  PROVE  Spec => []PlayInv
<1>1. ASSUME Init PROVE PlayInv
  <2>1. PlayAppInv
    BY <1>1 DEF Init, PlayAppInv, Starting, Is, Setting, PlayOps, TS!thread_state_init
  <2>2. HeldInv
    BY <1>1 DEF Init, HeldInv, Quiet, Idling
  <2>3. Split
    BY <1>1 DEF Init, Split, Held
  <2>4. QED BY <2>1, <2>2, <2>3, PartitionSplit DEF PlayInv
<1>2. ASSUME EInv, TypeOK, PlayInv, [Next]_vars PROVE PlayInv'
  <2>1. Split'
    BY <1>2, SplitStep, PartitionSplit DEF PlayInv
  <2>2. FramePartition'
    BY <2>1, PartitionSplit, PTL
  <2>3. QED BY <1>2, <2>2, PlayAppStep, HeldStep DEF PlayInv
<1>3. QED BY <1>1, <1>2, Inductive, TypeCorrect, PTL DEF Spec

(* When nothing is rewound or reconfigured, no frame of the sink is lost   *)
(* and none is in two places, also not while a decode is abandoned by the  *)
(* stop.                                                                   *)
THEOREM FramesKept ==
  Operations \subseteq PlayOps => (Spec => []FramePartition)
<1> SUFFICES ASSUME Operations \subseteq PlayOps PROVE Spec => []FramePartition
  OBVIOUS
<1>1. PlayInv => FramePartition
  BY DEF PlayInv
<1>2. QED BY <1>1, PlayInductive, PTL

(* Then the decode thread writes into a frame that only the engine holds, *)
(* and that stays so when the engine has gone before the answer.          *)
THEOREM DecodesAlone ==
  Operations \subseteq PlayOps => (Spec => []DecodeTargetExclusive)
<1> SUFFICES ASSUME Operations \subseteq PlayOps PROVE Spec => []DecodeTargetExclusive
  OBVIOUS
<1>1. PlayInv => DecodeTargetExclusive
  BY PartitionSplit DEF PlayInv, HeldInv, Quiet, InFlight, Split, Held, DecodeTargetExclusive
<1>2. QED BY <1>1, PlayInductive, PTL

(* Then "set flag last" is enough: what the decode thread takes is whole. *)
THEOREM DecodesData ==
  Operations \subseteq PlayOps => (Spec => []DecodeHasData)
<1> SUFFICES ASSUME Operations \subseteq PlayOps PROVE Spec => []DecodeHasData
  OBVIOUS
<1>1. PlayInv => DecodeHasData
  BY DEF PlayInv, HeldInv, Quiet, InFlight, DecodeHasData
<1>2. QED BY <1>1, PlayInductive, PTL

(* Then the engine never fills in a frame that has been taken from it.    *)
THEOREM NeverCrashes ==
  Operations \subseteq PlayOps => (Spec => []~crashed)
<1> SUFFICES ASSUME Operations \subseteq PlayOps PROVE Spec => []~crashed
  OBVIOUS
<1>1. ASSUME ~crashed, PlayInv, [Next]_vars PROVE ~crashed'
  BY <1>1 DEF Next, Engine, Player, Decoder, Parser, App, PlayInv, HeldInv,
     EngineKeeps, DecodeKeeps, ParserKeeps, AppKeeps, vars,
     EngineAck, EngineWake, EngineExit, QueueSinkFrames, PauseTest, NoChunkLeft, NoFrameLeft,
     GetDecodeFrame, DropPipeline, DropFrame, Submit, Signal, PollFetch, PollAbort,
     Finish, DecodeTest, DecodeLock, VideoDecode, DecodeAnswer, DecoderSpurious,
     ParserAck, ParserWake, Parse, ParserExit, AppInSet, Start, AppSet, Resume, UnPause,
     stream_pause, PauseWaited, WaitedForIdle, Idle, IdleTimeout, seek_init, ParserSeeks,
     video_init, PlayFrames, Played, SeekSets, Change, ChangeSets, StopSets, StopJoins,
     StopCodec, WakeCodec, Begin, HandleSpurious
<1>2. Init => ~crashed
  BY DEF Init
<1>3. QED BY <1>1, <1>2, PlayInductive, PTL DEF Spec
-----------------------------------------------------------------------------
(* Steps of one thread, and of the application, that the promise allows.   *)
LEMMA WorkerMoves ==
  ASSUME NEW h \in Players,
         \A g \in Players : IdledBy(g)' <=> IdledBy(g),
         \A g \in Players \ {h} : ThreadAt(g)' = ThreadAt(g),
         \/ ThreadAt(h)' = ThreadAt(h)
         \/ ThreadAt(h) = "out" /\ ~IdledBy(h) /\ ThreadAt(h)' \in {"in", "gone"}
         \/ ThreadAt(h) = "in" /\ ThreadAt(h)' = "out"
  PROVE  [Gate!Next]_(Gate!gateVars)
<1> DEFINE worker == [g \in Players |-> ThreadAt(g)]
           owners == [g \in Players |-> IF IdledBy(g) THEN {"app"} ELSE {}]
<1>1. owners' = owners
  OBVIOUS
<1>2. worker' = [worker EXCEPT ![h] = ThreadAt(h)']
  OBVIOUS
<1>3. worker[h] = ThreadAt(h) /\ owners[h] = IF IdledBy(h) THEN {"app"} ELSE {}
  OBVIOUS
<1>4. CASE ThreadAt(h)' = ThreadAt(h)
  <2>1. worker' = worker
    BY <1>4
  <2> QED
    BY <1>1, <2>1 DEF Gate!gateVars
<1>5. CASE ThreadAt(h) = "out" /\ ~IdledBy(h) /\ ThreadAt(h)' \in {"in", "gone"}
  <2>1. Gate!Enter(h) \/ Gate!Exit(h)
    BY <1>1, <1>2, <1>3, <1>5 DEF Gate!Enter, Gate!Exit, Gate!Move
  <2> QED
    BY <2>1 DEF Gate!Next
<1>6. CASE ThreadAt(h) = "in" /\ ThreadAt(h)' = "out"
  <2>1. Gate!Leave(h)
    BY <1>1, <1>2, <1>3, <1>6 DEF Gate!Leave, Gate!Move
  <2> QED
    BY <2>1 DEF Gate!Next
<1> QED
  BY <1>4, <1>5, <1>6

LEMMA MasterMoves ==
  ASSUME \A g \in Players : ThreadAt(g)' = ThreadAt(g),
         \/ \A g \in Players : IdledBy(g)' => IdledBy(g)
         \/ /\ \A g \in Players : ~IdledBy(g)
            /\ \E h \in Players : /\ ThreadAt(h) = "out"
                                  /\ \A g \in Players \ {h} : ~IdledBy(g)'
  PROVE  [Gate!Next]_(Gate!gateVars)
<1> DEFINE worker == [g \in Players |-> ThreadAt(g)]
           owners == [g \in Players |-> IF IdledBy(g) THEN {"app"} ELSE {}]
<1>1. worker' = worker
  OBVIOUS
<1>2. CASE \A g \in Players : IdledBy(g)' => IdledBy(g)
  <2> DEFINE H == {g \in Players : ~IdledBy(g)'}
  <2>1. owners' = [g \in Players |-> IF g \in H THEN owners[g] \ {"app"} ELSE owners[g]]
    BY <1>2
  <2>2. Gate!Give(H, "app")
    BY <1>1, <2>1 DEF Gate!Give
  <2>3. H \in SUBSET Players
    OBVIOUS
  <2> QED
    BY <2>2, <2>3 DEF Gate!Next
<1>3. ASSUME \A g \in Players : ~IdledBy(g),
             NEW h \in Players, ThreadAt(h) = "out", 
             \A g \in Players \ {h} : ~IdledBy(g)'
      PROVE  [Gate!Next]_(Gate!gateVars)
  <2>1. CASE IdledBy(h)'
    <3>1. owners' = [owners EXCEPT ![h] = @ \cup {"app"}]
      BY <1>3, <2>1
    <3>2. Gate!Take(h, "app")
      BY <1>1, <1>3, <3>1 DEF Gate!Take
    <3> QED
      BY <3>2 DEF Gate!Next
  <2>2. CASE ~IdledBy(h)'
    <3>1. owners' = owners
      BY <1>3, <2>2
    <3> QED
      BY <1>1, <3>1 DEF Gate!gateVars
  <2> QED
    BY <2>1, <2>2
<1> QED
  BY <1>2, <1>3

(* Whom the application has idled is out of its work, and is asked for     *)
(* nothing else.                                                           *)
Owned == \A h \in Players : IdledBy(h) => ThreadAt(h) = "out" /\ Is(h, "idle")

LEMMA IdledOut == EInv => Owned
  BY DEF EInv, WorkersInv, HandlesInv, Players, IdledBy, ThreadAt, Changing,
     ParserIdle, Seeking, Middle, Is, Owned

(* The application comes to own a thread by an answer to its request.      *)
LEMMA AppMoves ==
  ASSUME EInv, App \/ Begin
  PROVE  /\ UNCHANGED <<epc, ppc>>
         /\ \/ apc \in {"in_set", "idle_engine", "idle_parser"}
            \/ \A h \in Players : IdledBy(h)' => IdledBy(h)
<1> USE DEF AppKeeps, appVars, IdledBy, Players
<1>1. CASE AppInSet
  BY <1>1 DEF AppInSet
<1>2. CASE Start
  BY <1>2 DEF Start, AppSet
<1>3. CASE SeekSets
  BY <1>3 DEF SeekSets, AppSet
<1>4. CASE ChangeSets
  BY <1>4 DEF ChangeSets, AppSet
<1>5. CASE StopSets
  BY <1>5 DEF StopSets, AppSet
<1>6. CASE Begin
  BY <1>6 DEF Begin
<1>7. CASE Resume
  BY <1>7 DEF Resume, UnPause
<1>8. CASE stream_pause
  BY <1>8 DEF stream_pause
<1>9. CASE PauseWaited
  BY <1>9 DEF PauseWaited, WaitedForIdle, Continue
<1>10. CASE Idle
  BY <1>10 DEF Idle, WaitedForIdle, Continue
<1>11. CASE IdleTimeout
  BY <1>11 DEF IdleTimeout, WaitedForIdle, Continue
<1>12. CASE Played
  BY <1>12 DEF Played, WaitedForIdle, Continue
<1>13. CASE Change
  BY <1>13 DEF Change, WaitedForIdle, Continue
<1>14. CASE StopJoins
  BY <1>14 DEF StopJoins, WaitedForIdle, Continue
<1>15. CASE seek_init
  BY <1>15 DEF seek_init, Continue
<1>16. CASE ParserSeeks
  BY <1>16 DEF ParserSeeks, Continue
<1>17. CASE video_init
  BY <1>17 DEF video_init, Continue
<1>18. CASE PlayFrames
  BY <1>18 DEF PlayFrames, Continue
<1>19. CASE StopCodec \/ WakeCodec
  BY <1>19 DEF StopCodec, WakeCodec, Continue
<1> QED
  BY <1>1, <1>2, <1>3, <1>4, <1>5, <1>6, <1>7, <1>8, <1>9, <1>10, <1>11, <1>12,
     <1>13, <1>14, <1>15, <1>16, <1>17, <1>18, <1>19 DEF App

(* A thread enters its work, or exits, when it has not been idled.         *)
LEMMA ThreadMoves ==
  ASSUME EInv, Engine \/ Parser
  PROVE  [Gate!Next]_(Gate!gateVars)
<1>1. \A h \in Players : IdledBy(h) => Is(h, "idle")
  BY IdledOut DEF Owned
<1>2. \A h \in Players : IdledBy(h)' <=> IdledBy(h)
  <2>1. UNCHANGED <<apc, op>>
    BY DEF Engine, EngineAck, EngineWake, EngineExit, Player, QueueSinkFrames,
       PauseTest, NoChunkLeft, NoFrameLeft, GetDecodeFrame, DropPipeline, DropFrame, Submit,
       Signal, PollFetch, PollAbort, Finish, EngineKeeps, appVars, Parser,
       ParserAck, ParserWake, Parse, ParserExit, ParserKeeps
  <2> QED
    BY <2>1 DEF IdledBy
<1>3. CASE Engine
  <2>1. UNCHANGED ppc /\ \A g \in Players \ {"engine"} : ThreadAt(g)' = ThreadAt(g)
    BY <1>3 DEF Engine, EngineAck, EngineWake, EngineExit, Player, QueueSinkFrames,
       PauseTest, NoChunkLeft, NoFrameLeft, GetDecodeFrame, DropPipeline, DropFrame, Submit,
       Signal, PollFetch, PollAbort, Finish, EngineKeeps, Players, ThreadAt
  <2>2. \/ epc \in {"top", "ack"} /\ epc' \in {"top", "ack"}
        \/ epc \in {"top", "ack"} /\ ~Is("engine", "idle") /\ epc' \in {"again", "gone"}
        \/ epc \notin {"top", "ack", "gone"} /\ epc' \notin {"ack", "gone"}
    <3>1. CASE EngineAck
      BY <3>1 DEF EngineAck, TS!AckEnter, Goto, Is
    <3>2. CASE EngineWake
      BY <3>2 DEF EngineWake, TS!AckReturn, Goto, Is
    <3>3. CASE EngineExit
      BY <3>3 DEF EngineExit, Goto, Is
    <3>4. CASE Player
      BY <3>4 DEF Player, QueueSinkFrames, PauseTest, NoChunkLeft, NoFrameLeft, GetDecodeFrame,
         DropPipeline, DropFrame, Submit, Signal, PollFetch, PollAbort, Finish, Goto
    <3> QED
      BY <1>3, <3>1, <3>2, <3>3, <3>4 DEF Engine
  <2>3. \/ ThreadAt("engine")' = ThreadAt("engine")
        \/ /\ ThreadAt("engine") = "out" /\ ~IdledBy("engine")
           /\ ThreadAt("engine")' \in {"in", "gone"}
        \/ ThreadAt("engine") = "in" /\ ThreadAt("engine")' = "out"
    BY <1>1, <2>2 DEF ThreadAt, Players
  <2> QED
    BY <1>2, <2>1, <2>3, WorkerMoves DEF Players
<1>4. CASE Parser
  <2>1. \A g \in Players \ {"parser"} : ThreadAt(g)' = ThreadAt(g)
    BY <1>4 DEF Parser, ParserAck, ParserWake, Parse, ParserExit, ParserKeeps,
       Players, ThreadAt
  <2>2. \/ ppc \in {"top", "ack"} /\ ppc' \in {"top", "ack"}
        \/ ppc \in {"top", "ack"} /\ ~Is("parser", "idle") /\ ppc' \in {"parse", "gone"}
        \/ ppc \notin {"top", "ack", "gone"} /\ ppc' \notin {"ack", "gone"}
    BY <1>4 DEF Parser, ParserAck, ParserWake, Parse, ParserExit, TS!AckEnter,
       TS!AckReturn, Is
  <2>3. \/ ThreadAt("parser")' = ThreadAt("parser")
        \/ /\ ThreadAt("parser") = "out" /\ ~IdledBy("parser")
           /\ ThreadAt("parser")' \in {"in", "gone"}
        \/ ThreadAt("parser") = "in" /\ ThreadAt("parser")' = "out"
    BY <1>1, <2>2 DEF ThreadAt, Players
  <2> QED
    BY <1>2, <2>1, <2>3, WorkerMoves DEF Players
<1> QED
  BY <1>3, <1>4

LEMMA GateStep ==
  ASSUME EInv, EInv', [Next]_vars
  PROVE  [Gate!Next]_(Gate!gateVars)
<1>1. CASE Engine \/ Parser
  BY <1>1, ThreadMoves
<1>2. CASE App \/ Begin
  <2>1. UNCHANGED <<epc, ppc>> /\ \A g \in Players : ThreadAt(g)' = ThreadAt(g)
    BY <1>2, AppMoves DEF ThreadAt
  <2>2. CASE apc \in {"in_set", "idle_engine", "idle_parser"}
    <3>1. \A g \in Players : ~IdledBy(g)
      BY <2>2 DEF IdledBy
    <3>2. \A g, h \in Players : IdledBy(g)' /\ IdledBy(h)' => g = h
      BY DEF IdledBy, Players
    <3>3. Owned'
      BY IdledOut, PTL
    <3>4. CASE \E h \in Players : IdledBy(h)'
      BY <2>1, <3>1, <3>2, <3>3, <3>4, MasterMoves DEF Owned
    <3>5. CASE \A h \in Players : ~IdledBy(h)'
      BY <2>1, <3>5, MasterMoves
    <3> QED
      BY <3>4, <3>5
  <2>3. CASE \A h \in Players : IdledBy(h)' => IdledBy(h)
    BY <2>1, <2>3, MasterMoves
  <2> QED
    BY <1>2, <2>2, <2>3, AppMoves
<1>3. CASE Decoder \/ DecoderSpurious \/ HandleSpurious \/ UNCHANGED vars
  <2>1. UNCHANGED <<epc, ppc, apc, op>>
    BY <1>3 DEF Decoder, DecodeTest, DecodeLock, VideoDecode, DecodeAnswer,
       DecoderSpurious, HandleSpurious, DecodeKeeps, appVars, vars
  <2>2. UNCHANGED Gate!gateVars
    BY <2>1 DEF Gate!gateVars, ThreadAt, IdledBy
  <2> QED
    BY <2>2
<1> QED
  BY <1>1, <1>2, <1>3 DEF Next

(* The operations use the handles' promise and keep their side of it, for  *)
(* any set of operations: of the player and parser threads, each enters    *)
(* its work, or exits, only when no operation has idled it, and an         *)
(* operation goes on with a thread idled only when it is out of its work   *)
(* (_player_thread, _parser_thread, _stream_seek_real, stream_set_speed).  *)
THEOREM PlayersGated == Spec => GateSpec
<1>1. Init => Gate!Init
  BY DEF Init, Gate!Init, ThreadAt, IdledBy, Players
<1> QED
  BY <1>1, GateStep, Inductive, PTL DEF Spec, GateSpec, Gate!Spec
=============================================================================
