---------------------------- MODULE AvosMpProofs ----------------------------
(***************************************************************************)
(* Proofs about AvosMp, for any number of seeks.  TypeCorrect,             *)
(* StreamInUseCorrect, LastSeekWinsCorrect and StreamRefined hold whenever *)
(* the user may stop; NothingLeftCorrect assumes that he stops a prepared  *)
(* player only.                                                            *)
(***************************************************************************)
EXTENDS AvosMp, TLAPS

(* The main thread has not begun to leave. *)
Usual == cpc \in {"looper", "call_wait", "call"}

(***************************************************************************)
(* Where the async thread is follows from its running command, and who     *)
(* leaves has taken the queued one back before it waits.                   *)
(***************************************************************************)
SlotInv ==
  /\ tpc \in {"create", "open"} => cur.id = "OPEN"
  /\ tpc = "seek" => cur.id = "SEEK"
  /\ tpc \in {"wait", "gone"} => cur.id \in {"WAIT", "EXIT"}
  /\ cpc \in {"close_wait", "close_media"} => next.id = "WAIT"
  /\ cpc = "close_media" => cur.id \in {"WAIT", "EXIT"}
  /\ opc = "prepare" => Usual /\ next.id # "OPEN"
  /\ next.id = "SEEK" => Usual \/ cpc = "close"

(* A player is opened once: nobody has used what the OPEN will create. *)
OpenInv ==
  /\ opc = "prepare" \/ next.id = "OPEN" => cur.id # "OPEN" /\ tpc # "create"
  /\ opc = "prepare" \/ next.id = "OPEN" \/ tpc = "create" => media = "none"
  /\ tpc = "open" => media = "created"
  /\ media = "created" => tpc = "open"

(* What the user is told of, and what he may then ask for, is open. *)
ToldInv ==
  /\ cpc \in {"call_wait", "call"} => media = "open"
  /\ Usual /\ (state = "STATE_PREPARED" \/ events # <<>> \/ held # <<>>
               \/ handler # <<>> \/ cur.id = "SEEK") => media = "open"
  /\ next.id = "SEEK" \/ tpc = "seek" => media = "open"

(* The position the stream will be at when the async thread is idle. *)
Target == IF next.id = "SEEK" THEN next.arg
          ELSE IF tpc = "seek" THEN cur.arg ELSE seeked

SeekInv == Usual => Target = seeks

(* Who leaves a prepared player finds it opened, and closes it. *)
LeaveInv ==
  /\ ~Usual => /\ opc # "prepare" /\ next.id # "OPEN"
               /\ tpc \notin {"create", "open"}
  /\ cpc \in {"exit", "join", "gone"} => media = "none"
  /\ cpc = "gone" => tpc = "gone"

IInv == TypeOK /\ SlotInv /\ OpenInv /\ ToldInv /\ SeekInv
-----------------------------------------------------------------------------
(* What the mailbox holds, and what its parts give. *)
Commands == [id : Ids, arg : 0..MaxSeeks]

LEMMA CommandType ==
  \A id \in Ids : \A arg \in 0..MaxSeeks : Command(id, arg) \in Commands
BY DEF Command, Commands

LEMMA WaitType == Wait \in Commands
BY CommandType, MaxSeeksAssumption DEF Wait, Ids

LEMMA EventType ==
  \A what \in {"MEDIA_PREPARED", "MEDIA_ERROR", "MEDIA_SEEK_COMPLETE"} :
    \A arg1 \in {0, 1} : Event(what, arg1) \in Events
BY DEF Event, Events

LEMMA OneType == ASSUME NEW S, NEW e \in S PROVE <<e>> \in Seq(S)
OBVIOUS

LEMMA SendType ==
  ASSUME events \in Seq(Events), NEW es \in Seq(Events), Send(es)
  PROVE  events' \in Seq(Events)
BY DEF Send

LEMMA SeekCompleteType == SeekComplete \in Seq(Events)
<1>1. /\ Event("MEDIA_SEEK_COMPLETE", 0) \in Events
      /\ Event("MEDIA_SEEK_COMPLETE", 1) \in Events
  BY EventType
<1>2. QED BY <1>1, OneType DEF SeekComplete

(* Types, action by action. *)
LEMMA TypeStep == TypeOK /\ [Next]_vars => TypeOK'
<1> SUFFICES ASSUME TypeOK, [Next]_vars PROVE TypeOK'
  OBVIOUS
<1>0. /\ cur \in Commands /\ next \in Commands /\ Wait \in Commands
      /\ events \in Seq(Events) /\ held \in Seq(Events)
      /\ handler \in Seq(Events)
  BY WaitType DEF TypeOK, Commands
<1>1. CASE AsyncIdle
  <2>1. events' \in Seq(Events)
    BY <1>0, <1>1, SendType, SeekCompleteType DEF AsyncIdle
  <2>2. cur' \in Commands /\ next' \in Commands
    BY <1>0, <1>1 DEF AsyncIdle
  <2>3. tpc' \in {"lock", "wait", "create", "open", "seek", "gone"}
    BY <1>0, <1>1 DEF AsyncIdle, Commands, Ids, Wait, Command
  <2>4. QED BY <1>1, <2>1, <2>2, <2>3 DEF AsyncIdle, TypeOK, Commands,
     AsyncKeeps, EventKeeps, OpenerKeeps, MainKeeps, slotVars, mediaVars,
     eventVars, playerVars
<1>2. CASE AsyncNext
  <2>1. events' \in Seq(Events)
    BY <1>0, <1>2, SendType, SeekCompleteType DEF AsyncNext
  <2>2. cur' \in Commands /\ next' \in Commands
    BY <1>0, <1>2 DEF AsyncNext, Take
  <2>3. tpc' \in {"lock", "wait", "create", "open", "seek", "gone"}
    BY <1>0, <1>2 DEF AsyncNext, Take, Commands, Ids, Wait, Command
  <2>4. QED BY <1>2, <2>1, <2>2, <2>3 DEF AsyncNext, TypeOK, Commands,
     AsyncKeeps, EventKeeps, OpenerKeeps, MainKeeps, slotVars, mediaVars,
     eventVars, playerVars
<1>3. CASE AsyncWake
  <2>1. cur' \in Commands /\ next' \in Commands
    BY <1>0, <1>3 DEF AsyncWake, Take
  <2>2. tpc' \in {"lock", "wait", "create", "open", "seek", "gone"}
    BY <1>0, <1>3 DEF AsyncWake, Take, Commands, Ids, TypeOK
  <2>3. asleep' \subseteq {"async", "main"}
    BY <1>3 DEF AsyncWake, TypeOK
  <2>4. QED BY <1>3, <2>1, <2>2, <2>3 DEF AsyncWake, TypeOK, Commands,
     AsyncKeeps, EventKeeps, OpenerKeeps, MainKeeps, slotVars, mediaVars,
     eventVars, playerVars
<1>4. CASE OpenCreate
  BY <1>4 DEF OpenCreate, TypeOK, Ids, AsyncKeeps, EventKeeps, OpenerKeeps,
     MainKeeps, slotVars, mediaVars, eventVars, playerVars
<1>5. CASE OpenStream
  <2>1. PICK errors \in {<<>>, <<Event("MEDIA_ERROR", 0)>>} :
             Send(errors \o <<Event("MEDIA_PREPARED", 0)>>)
    BY <1>5 DEF OpenStream
  <2>2. /\ errors \in Seq(Events)
        /\ <<Event("MEDIA_PREPARED", 0)>> \in Seq(Events)
    <3>1. <<Event("MEDIA_ERROR", 0)>> \in Seq(Events)
      BY EventType, OneType
    <3>2. <<Event("MEDIA_PREPARED", 0)>> \in Seq(Events)
      BY EventType, OneType
    <3>3. <<>> \in Seq(Events)
      OBVIOUS
    <3>4. QED BY <3>1, <3>2, <3>3
  <2>3. errors \o <<Event("MEDIA_PREPARED", 0)>> \in Seq(Events)
    BY <2>2
  <2>4. events' \in Seq(Events)
    BY <1>0, <2>1, <2>3, SendType
  <2>5. QED BY <1>5, <2>4 DEF OpenStream, TypeOK, AsyncKeeps, EventKeeps,
     OpenerKeeps, MainKeeps, slotVars, mediaVars, eventVars, playerVars
<1>6. CASE SeekStream
  BY <1>6, MaxSeeksAssumption DEF SeekStream, TypeOK, Ids, AsyncKeeps,
     EventKeeps, OpenerKeeps, MainKeeps, slotVars, mediaVars, eventVars,
     playerVars
<1>7. CASE TakeEvent
  <2>1. held' \in Seq(Events) /\ events' \in Seq(Events)
    <3>1. Head(events) \in Events /\ Tail(events) \in Seq(Events)
      BY <1>0, <1>7 DEF TakeEvent
    <3>2. QED BY <1>7, <3>1, OneType DEF TakeEvent
  <2>2. QED BY <1>7, <2>1 DEF TakeEvent, TypeOK, AsyncKeeps, EventKeeps,
     OpenerKeeps, MainKeeps, slotVars, mediaVars, eventVars, playerVars
<1>8. CASE PostEvent
  BY <1>8 DEF PostEvent, TypeOK, Ids, AsyncKeeps, EventKeeps, OpenerKeeps,
     MainKeeps, slotVars, mediaVars, eventVars, playerVars
<1>9. CASE PrepareAsync
  <2>1. next' \in Commands /\ cur' = cur
    BY <1>0, <1>9, CommandType, MaxSeeksAssumption DEF PrepareAsync,
       async_cmd_add, TypeOK, Ids, slotVars
  <2>2. QED BY <1>0, <1>9, <2>1 DEF PrepareAsync, async_cmd_add, TypeOK,
     Commands, AsyncKeeps, EventKeeps, OpenerKeeps, MainKeeps, slotVars,
     mediaVars, eventVars, playerVars
<1>10. CASE SetPreparing
  BY <1>10 DEF SetPreparing, TypeOK, Ids, AsyncKeeps, EventKeeps, OpenerKeeps,
     MainKeeps, slotVars, mediaVars, eventVars, playerVars
<1>11. CASE Deliver
  BY <1>11 DEF Deliver, TypeOK, Ids, AsyncKeeps, EventKeeps, OpenerKeeps,
     MainKeeps, slotVars, mediaVars, eventVars, playerVars
<1>12. CASE seekTo
  <2>1. next' \in Commands /\ cur' = cur /\ seeks' \in 0..MaxSeeks
    BY <1>0, <1>12, CommandType, MaxSeeksAssumption DEF seekTo, async_cmd_add,
       isInPlaybackState, TypeOK, Ids, slotVars
  <2>2. QED BY <1>0, <1>12, <2>1 DEF seekTo, async_cmd_add, isInPlaybackState,
     TypeOK, Commands, AsyncKeeps, EventKeeps, OpenerKeeps, MainKeeps,
     slotVars, mediaVars, eventVars, playerVars
<1>13. CASE Call
  BY <1>13 DEF Call, isInPlaybackState, TypeOK, Ids, AsyncKeeps, EventKeeps,
     OpenerKeeps, MainKeeps, slotVars, mediaVars, eventVars, playerVars
<1>14. CASE CallEnds
  BY <1>14 DEF CallEnds, TypeOK, Ids, AsyncKeeps, EventKeeps, OpenerKeeps,
     MainKeeps, slotVars, mediaVars, eventVars, playerVars
<1>15. CASE CallWait
  BY <1>15 DEF CallWait, async_cmd_wait, TypeOK, Ids, AsyncKeeps, EventKeeps,
     OpenerKeeps, MainKeeps, slotVars, mediaVars, eventVars, playerVars
<1>16. CASE stopPlayback
  BY <1>16 DEF stopPlayback, MayLeave, TypeOK, Ids, AsyncKeeps, EventKeeps,
     OpenerKeeps, MainKeeps, slotVars, mediaVars, eventVars, playerVars
<1>17. CASE release
  BY <1>17 DEF release, MayLeave, TypeOK, Ids, AsyncKeeps, EventKeeps,
     OpenerKeeps, MainKeeps, slotVars, mediaVars, eventVars, playerVars
<1>18. CASE CloseEnter
  <2>1. next' \in Commands /\ cur' = cur
    BY <1>0, <1>18, CommandType, MaxSeeksAssumption DEF CloseEnter,
       async_cmd_add, Closed, TypeOK, Ids, slotVars
  <2>2. QED BY <1>0, <1>18, <2>1 DEF CloseEnter, async_cmd_add, Closed, TypeOK,
     Commands, AsyncKeeps, EventKeeps, OpenerKeeps, MainKeeps, slotVars,
     mediaVars, eventVars, playerVars
<1>19. CASE CloseWait
  BY <1>19 DEF CloseWait, async_cmd_wait, TypeOK, Ids, AsyncKeeps, EventKeeps,
     OpenerKeeps, MainKeeps, slotVars, mediaVars, eventVars, playerVars
<1>20. CASE CloseMedia
  BY <1>20 DEF CloseMedia, Closed, TypeOK, Ids, AsyncKeeps, EventKeeps,
     OpenerKeeps, MainKeeps, slotVars, mediaVars, eventVars, playerVars
<1>21. CASE DestroyExit
  <2>1. next' \in Commands /\ cur' = cur
    BY <1>0, <1>21, CommandType, MaxSeeksAssumption DEF DestroyExit,
       async_cmd_add, TypeOK, Ids, slotVars
  <2>2. QED BY <1>0, <1>21, <2>1 DEF DestroyExit, async_cmd_add, TypeOK,
     Commands, AsyncKeeps, EventKeeps, OpenerKeeps, MainKeeps, slotVars,
     mediaVars, eventVars, playerVars
<1>22. CASE DestroyJoin
  BY <1>22 DEF DestroyJoin, TypeOK, Ids, AsyncKeeps, EventKeeps, OpenerKeeps,
     MainKeeps, slotVars, mediaVars, eventVars, playerVars
<1>23. CASE Spurious
  BY <1>23 DEF Spurious, TypeOK, Ids, AsyncKeeps, EventKeeps, OpenerKeeps,
     MainKeeps, slotVars, mediaVars, eventVars, playerVars
<1>24. CASE UNCHANGED vars
  BY <1>24 DEF vars, TypeOK, slotVars, mediaVars, eventVars, playerVars
<1>25. QED
  BY <1>1, <1>2, <1>3, <1>4, <1>5, <1>6, <1>7, <1>8, <1>9, <1>10, <1>11, <1>12,
     <1>13, <1>14, <1>15, <1>16, <1>17, <1>18, <1>19, <1>20, <1>21, <1>22,
     <1>23, <1>24 DEF Next, Async, EventThread, Opener, MainProceeds, User

(* The mailbox and the async thread. *)
LEMMA SlotStep ==
  ASSUME IInv, [Next]_vars
  PROVE  SlotInv'
<1> USE DEF AsyncKeeps, EventKeeps, OpenerKeeps, MainKeeps, slotVars,
   mediaVars, eventVars, playerVars, Command, Wait
<1> USE DEF IInv, TypeOK, Ids, Usual, SlotInv, OpenInv, ToldInv
<1>1. CASE AsyncIdle
  BY <1>1 DEF AsyncIdle, Send, SeekComplete
<1>2. CASE AsyncNext
  BY <1>2 DEF AsyncNext, Send, SeekComplete, Take
<1>3. CASE AsyncWake
  BY <1>3 DEF AsyncWake, Take
<1>4. CASE OpenCreate
  BY <1>4 DEF OpenCreate
<1>5. CASE OpenStream
  BY <1>5 DEF OpenStream, Send
<1>6. CASE SeekStream
  BY <1>6 DEF SeekStream
<1>7. CASE TakeEvent
  BY <1>7 DEF TakeEvent
<1>8. CASE PostEvent
  BY <1>8 DEF PostEvent
<1>9. CASE PrepareAsync
  BY <1>9 DEF PrepareAsync, async_cmd_add
<1>10. CASE SetPreparing
  BY <1>10 DEF SetPreparing
<1>11. CASE Deliver
  BY <1>11 DEF Deliver
<1>12. CASE seekTo
  BY <1>12 DEF seekTo, async_cmd_add, isInPlaybackState
<1>13. CASE Call
  BY <1>13 DEF Call, isInPlaybackState
<1>14. CASE CallEnds
  BY <1>14 DEF CallEnds
<1>15. CASE CallWait
  BY <1>15 DEF CallWait, async_cmd_wait
<1>16. CASE stopPlayback
  BY <1>16 DEF stopPlayback, MayLeave
<1>17. CASE release
  BY <1>17 DEF release, MayLeave
<1>18. CASE CloseEnter
  BY <1>18 DEF CloseEnter, async_cmd_add, Closed
<1>19. CASE CloseWait
  BY <1>19 DEF CloseWait, async_cmd_wait
<1>20. CASE CloseMedia
  BY <1>20 DEF CloseMedia, Closed
<1>21. CASE DestroyExit
  BY <1>21 DEF DestroyExit, async_cmd_add
<1>22. CASE DestroyJoin
  BY <1>22 DEF DestroyJoin
<1>23. CASE Spurious
  BY <1>23 DEF Spurious
<1>24. CASE UNCHANGED vars
  BY <1>24 DEF vars
<1>25. QED
  BY <1>1, <1>2, <1>3, <1>4, <1>5, <1>6, <1>7, <1>8, <1>9, <1>10, <1>11, <1>12,
     <1>13, <1>14, <1>15, <1>16, <1>17, <1>18, <1>19, <1>20, <1>21, <1>22,
     <1>23, <1>24 DEF Next, Async, EventThread, Opener, MainProceeds, User

(* The one OPEN. *)
LEMMA OpenStep ==
  ASSUME IInv, [Next]_vars
  PROVE  OpenInv'
<1> USE DEF AsyncKeeps, EventKeeps, OpenerKeeps, MainKeeps, slotVars,
   mediaVars, eventVars, playerVars, Command, Wait
<1> USE DEF IInv, TypeOK, Ids, Usual, SlotInv, OpenInv, ToldInv
<1>1. CASE AsyncIdle
  BY <1>1 DEF AsyncIdle, Send, SeekComplete
<1>2. CASE AsyncNext
  BY <1>2 DEF AsyncNext, Send, SeekComplete, Take
<1>3. CASE AsyncWake
  BY <1>3 DEF AsyncWake, Take
<1>4. CASE OpenCreate
  BY <1>4 DEF OpenCreate
<1>5. CASE OpenStream
  BY <1>5 DEF OpenStream, Send
<1>6. CASE SeekStream
  BY <1>6 DEF SeekStream
<1>7. CASE TakeEvent
  BY <1>7 DEF TakeEvent
<1>8. CASE PostEvent
  BY <1>8 DEF PostEvent
<1>9. CASE PrepareAsync
  BY <1>9 DEF PrepareAsync, async_cmd_add
<1>10. CASE SetPreparing
  BY <1>10 DEF SetPreparing
<1>11. CASE Deliver
  BY <1>11 DEF Deliver
<1>12. CASE seekTo
  BY <1>12 DEF seekTo, async_cmd_add, isInPlaybackState
<1>13. CASE Call
  BY <1>13 DEF Call, isInPlaybackState
<1>14. CASE CallEnds
  BY <1>14 DEF CallEnds
<1>15. CASE CallWait
  BY <1>15 DEF CallWait, async_cmd_wait
<1>16. CASE stopPlayback
  BY <1>16 DEF stopPlayback, MayLeave
<1>17. CASE release
  BY <1>17 DEF release, MayLeave
<1>18. CASE CloseEnter
  BY <1>18 DEF CloseEnter, async_cmd_add, Closed
<1>19. CASE CloseWait
  BY <1>19 DEF CloseWait, async_cmd_wait
<1>20. CASE CloseMedia
  BY <1>20 DEF CloseMedia, Closed
<1>21. CASE DestroyExit
  BY <1>21 DEF DestroyExit, async_cmd_add
<1>22. CASE DestroyJoin
  BY <1>22 DEF DestroyJoin
<1>23. CASE Spurious
  BY <1>23 DEF Spurious
<1>24. CASE UNCHANGED vars
  BY <1>24 DEF vars
<1>25. QED
  BY <1>1, <1>2, <1>3, <1>4, <1>5, <1>6, <1>7, <1>8, <1>9, <1>10, <1>11, <1>12,
     <1>13, <1>14, <1>15, <1>16, <1>17, <1>18, <1>19, <1>20, <1>21, <1>22,
     <1>23, <1>24 DEF Next, Async, EventThread, Opener, MainProceeds, User

(* What is told has been opened. *)
LEMMA ToldStep ==
  ASSUME IInv, [Next]_vars
  PROVE  ToldInv'
<1> USE DEF AsyncKeeps, EventKeeps, OpenerKeeps, MainKeeps, slotVars,
   mediaVars, eventVars, playerVars, Command, Wait
<1> USE DEF IInv, TypeOK, Ids, Events, Event, Usual, SlotInv, OpenInv, ToldInv
<1>1. CASE AsyncIdle
  BY <1>1 DEF AsyncIdle, Send, SeekComplete
<1>2. CASE AsyncNext
  BY <1>2 DEF AsyncNext, Send, SeekComplete, Take
<1>3. CASE AsyncWake
  BY <1>3 DEF AsyncWake, Take
<1>4. CASE OpenCreate
  BY <1>4 DEF OpenCreate
<1>5. CASE OpenStream
  BY <1>5 DEF OpenStream, Send
<1>6. CASE SeekStream
  BY <1>6 DEF SeekStream
<1>7. CASE TakeEvent
  BY <1>7 DEF TakeEvent
<1>8. CASE PostEvent
  BY <1>8 DEF PostEvent
<1>9. CASE PrepareAsync
  BY <1>9 DEF PrepareAsync, async_cmd_add
<1>10. CASE SetPreparing
  BY <1>10 DEF SetPreparing
<1>11. CASE Deliver
  BY <1>11 DEF Deliver
<1>12. CASE seekTo
  BY <1>12 DEF seekTo, async_cmd_add, isInPlaybackState
<1>13. CASE Call
  BY <1>13 DEF Call, isInPlaybackState
<1>14. CASE CallEnds
  BY <1>14 DEF CallEnds
<1>15. CASE CallWait
  BY <1>15 DEF CallWait, async_cmd_wait
<1>16. CASE stopPlayback
  BY <1>16 DEF stopPlayback, MayLeave
<1>17. CASE release
  BY <1>17 DEF release, MayLeave
<1>18. CASE CloseEnter
  BY <1>18 DEF CloseEnter, async_cmd_add, Closed
<1>19. CASE CloseWait
  BY <1>19 DEF CloseWait, async_cmd_wait
<1>20. CASE CloseMedia
  BY <1>20 DEF CloseMedia, Closed
<1>21. CASE DestroyExit
  BY <1>21 DEF DestroyExit, async_cmd_add
<1>22. CASE DestroyJoin
  BY <1>22 DEF DestroyJoin
<1>23. CASE Spurious
  BY <1>23 DEF Spurious
<1>24. CASE UNCHANGED vars
  BY <1>24 DEF vars
<1>25. QED
  BY <1>1, <1>2, <1>3, <1>4, <1>5, <1>6, <1>7, <1>8, <1>9, <1>10, <1>11, <1>12,
     <1>13, <1>14, <1>15, <1>16, <1>17, <1>18, <1>19, <1>20, <1>21, <1>22,
     <1>23, <1>24 DEF Next, Async, EventThread, Opener, MainProceeds, User

(* A queued seek is replaced by a later one only. *)
LEMMA SeekStep ==
  ASSUME IInv, [Next]_vars
  PROVE  SeekInv'
<1> USE DEF AsyncKeeps, EventKeeps, OpenerKeeps, MainKeeps, slotVars,
   mediaVars, eventVars, playerVars, Command, Wait
<1> USE DEF IInv, TypeOK, Ids, Usual, SlotInv, OpenInv, ToldInv, SeekInv,
   Target
<1>1. CASE AsyncIdle
  BY <1>1 DEF AsyncIdle, Send, SeekComplete
<1>2. CASE AsyncNext
  BY <1>2 DEF AsyncNext, Send, SeekComplete, Take
<1>3. CASE AsyncWake
  BY <1>3 DEF AsyncWake, Take
<1>4. CASE OpenCreate
  BY <1>4 DEF OpenCreate
<1>5. CASE OpenStream
  BY <1>5 DEF OpenStream, Send
<1>6. CASE SeekStream
  BY <1>6 DEF SeekStream
<1>7. CASE TakeEvent
  BY <1>7 DEF TakeEvent
<1>8. CASE PostEvent
  BY <1>8 DEF PostEvent
<1>9. CASE PrepareAsync
  BY <1>9 DEF PrepareAsync, async_cmd_add
<1>10. CASE SetPreparing
  BY <1>10 DEF SetPreparing
<1>11. CASE Deliver
  BY <1>11 DEF Deliver
<1>12. CASE seekTo
  BY <1>12 DEF seekTo, async_cmd_add, isInPlaybackState
<1>13. CASE Call
  BY <1>13 DEF Call, isInPlaybackState
<1>14. CASE CallEnds
  BY <1>14 DEF CallEnds
<1>15. CASE CallWait
  BY <1>15 DEF CallWait, async_cmd_wait
<1>16. CASE stopPlayback
  BY <1>16 DEF stopPlayback, MayLeave
<1>17. CASE release
  BY <1>17 DEF release, MayLeave
<1>18. CASE CloseEnter
  BY <1>18 DEF CloseEnter, async_cmd_add, Closed
<1>19. CASE CloseWait
  BY <1>19 DEF CloseWait, async_cmd_wait
<1>20. CASE CloseMedia
  BY <1>20 DEF CloseMedia, Closed
<1>21. CASE DestroyExit
  BY <1>21 DEF DestroyExit, async_cmd_add
<1>22. CASE DestroyJoin
  BY <1>22 DEF DestroyJoin
<1>23. CASE Spurious
  BY <1>23 DEF Spurious
<1>24. CASE UNCHANGED vars
  BY <1>24 DEF vars
<1>25. QED
  BY <1>1, <1>2, <1>3, <1>4, <1>5, <1>6, <1>7, <1>8, <1>9, <1>10, <1>11, <1>12,
     <1>13, <1>14, <1>15, <1>16, <1>17, <1>18, <1>19, <1>20, <1>21, <1>22,
     <1>23, <1>24 DEF Next, Async, EventThread, Opener, MainProceeds, User

(* Leaving a prepared player. *)
LEMMA LeaveStep ==
  ASSUME ~StopWhenPreparing, IInv, LeaveInv, [Next]_vars
  PROVE  LeaveInv'
<1> USE DEF AsyncKeeps, EventKeeps, OpenerKeeps, MainKeeps, slotVars,
   mediaVars, eventVars, playerVars, Command, Wait
<1> USE DEF IInv, TypeOK, Ids, Usual, SlotInv, OpenInv, ToldInv, LeaveInv,
   isInPlaybackState
<1>1. CASE AsyncIdle
  BY <1>1 DEF AsyncIdle, Send, SeekComplete
<1>2. CASE AsyncNext
  BY <1>2 DEF AsyncNext, Send, SeekComplete, Take
<1>3. CASE AsyncWake
  BY <1>3 DEF AsyncWake, Take
<1>4. CASE OpenCreate
  BY <1>4 DEF OpenCreate
<1>5. CASE OpenStream
  BY <1>5 DEF OpenStream, Send
<1>6. CASE SeekStream
  BY <1>6 DEF SeekStream
<1>7. CASE TakeEvent
  BY <1>7 DEF TakeEvent
<1>8. CASE PostEvent
  BY <1>8 DEF PostEvent
<1>9. CASE PrepareAsync
  BY <1>9 DEF PrepareAsync, async_cmd_add
<1>10. CASE SetPreparing
  BY <1>10 DEF SetPreparing
<1>11. CASE Deliver
  BY <1>11 DEF Deliver
<1>12. CASE seekTo
  BY <1>12 DEF seekTo, async_cmd_add, isInPlaybackState
<1>13. CASE Call
  BY <1>13 DEF Call, isInPlaybackState
<1>14. CASE CallEnds
  BY <1>14 DEF CallEnds
<1>15. CASE CallWait
  BY <1>15 DEF CallWait, async_cmd_wait
<1>16. CASE stopPlayback
  BY <1>16 DEF stopPlayback, MayLeave
<1>17. CASE release
  BY <1>17 DEF release, MayLeave
<1>18. CASE CloseEnter
  BY <1>18 DEF CloseEnter, async_cmd_add, Closed
<1>19. CASE CloseWait
  BY <1>19 DEF CloseWait, async_cmd_wait
<1>20. CASE CloseMedia
  BY <1>20 DEF CloseMedia, Closed
<1>21. CASE DestroyExit
  BY <1>21 DEF DestroyExit, async_cmd_add
<1>22. CASE DestroyJoin
  BY <1>22 DEF DestroyJoin
<1>23. CASE Spurious
  BY <1>23 DEF Spurious
<1>24. CASE UNCHANGED vars
  BY <1>24 DEF vars
<1>25. QED
  BY <1>1, <1>2, <1>3, <1>4, <1>5, <1>6, <1>7, <1>8, <1>9, <1>10, <1>11, <1>12,
     <1>13, <1>14, <1>15, <1>16, <1>17, <1>18, <1>19, <1>20, <1>21, <1>22,
     <1>23, <1>24 DEF Next, Async, EventThread, Opener, MainProceeds, User

LEMMA InitIInv == Init => IInv /\ LeaveInv
<1> SUFFICES ASSUME Init PROVE IInv /\ LeaveInv
  OBVIOUS
<1>1. TypeOK
  <2>1. cur \in Commands /\ next \in Commands
    BY WaitType DEF Init
  <2>2. <<>> \in Seq(Events)
    OBVIOUS
  <2>3. /\ events \in Seq(Events) /\ held \in Seq(Events)
        /\ handler \in Seq(Events)
    BY <2>2 DEF Init
  <2>4. seeked \in 0..MaxSeeks /\ seeks \in 0..MaxSeeks
    BY MaxSeeksAssumption DEF Init
  <2>5. QED BY <2>1, <2>3, <2>4 DEF Init, TypeOK, Commands
<1>2. SlotInv /\ OpenInv /\ ToldInv /\ SeekInv /\ LeaveInv
  BY DEF Init, SlotInv, OpenInv, ToldInv, SeekInv, LeaveInv, Usual, Target,
     Wait, Command
<1>3. QED BY <1>1, <1>2 DEF IInv

-----------------------------------------------------------------------------
(* One command is queued and one runs, whatever the threads do. *)
THEOREM TypeCorrect == Spec => []TypeOK
<1>1. Init => TypeOK
  BY InitIInv DEF IInv
<1>2. QED BY <1>1, TypeStep, PTL DEF Spec

LEMMA IInvStep == IInv /\ [Next]_vars => IInv'
BY TypeStep, SlotStep, OpenStep, ToldStep, SeekStep DEF IInv

LEMMA Inductive == Spec => []IInv
<1>1. Init => IInv
  BY InitIInv
<1>2. QED BY <1>1, IInvStep, PTL DEF Spec

(* The async thread and the main thread are never inside a stream that is  *)
(* not there, though avos_mp_close looks at the running command only.      *)
THEOREM StreamInUseCorrect == Spec => []StreamInUse
<1>1. IInv => StreamInUse
  BY DEF IInv, OpenInv, ToldInv, StreamInUse, Usual
<1>2. QED BY <1>1, Inductive, PTL

(* Of any number of overlapping seeks the last is where the stream ends up. *)
THEOREM LastSeekWinsCorrect == Spec => []LastSeekWins
<1>1. IInv => LastSeekWins
  BY DEF IInv, SeekInv, LastSeekWins, Usual, Target, TypeOK
<1>2. QED BY <1>1, Inductive, PTL

(* A player that is left once it is prepared is closed and its thread gone. *)
THEOREM NothingLeftCorrect == ~StopWhenPreparing => (Spec => []NothingLeft)
<1> SUFFICES ASSUME ~StopWhenPreparing PROVE Spec => []NothingLeft
  OBVIOUS
<1>1. Init => LeaveInv
  BY InitIInv
<1>2. IInv /\ LeaveInv /\ [Next]_vars => LeaveInv'
  BY LeaveStep
<1>3. LeaveInv => NothingLeft
  BY DEF LeaveInv, NothingLeft
<1>4. QED BY <1>1, <1>2, <1>3, Inductive, PTL DEF Spec
-----------------------------------------------------------------------------
(***************************************************************************)
(* Seeks run in the order they were asked for, and none twice: the running *)
(* one is later than the last that has ended, the queued one later still.  *)
(***************************************************************************)
OrderInv ==
  /\ seeked <= seeks
  /\ tpc = "seek" => seeked < cur.arg /\ cur.arg <= seeks
  /\ next.id = "SEEK" => /\ seeked < next.arg /\ next.arg <= seeks
                         /\ tpc = "seek" => cur.arg < next.arg

(* An action that leaves seeks alone and the mailbox without a new seek. *)
LEMMA OrderKept ==
  ASSUME OrderInv, UNCHANGED <<seeked, seeks>>,
         next'.id = "SEEK" => next' = next,
         tpc' = "seek" => tpc = "seek" /\ cur' = cur
  PROVE  OrderInv'
BY DEF OrderInv

LEMMA OrderStep ==
  ASSUME IInv, OrderInv, [Next]_vars
  PROVE  OrderInv'
<1> USE DEF AsyncKeeps, EventKeeps, OpenerKeeps, MainKeeps, slotVars,
   mediaVars, eventVars, playerVars, Command, Wait
<1>0. /\ seeked \in Nat /\ seeks \in Nat /\ cur.arg \in Nat /\ next.arg \in Nat
      /\ next.id \in Ids
  BY MaxSeeksAssumption DEF IInv, TypeOK
<1>1. CASE AsyncIdle
  BY <1>1, OrderKept DEF AsyncIdle
<1>2. CASE AsyncNext \/ AsyncWake
  <2>1. CASE Take
    <3>1. UNCHANGED <<seeked, seeks>>
      BY <1>2 DEF AsyncNext, AsyncWake
    <3>2. cur' = next /\ next' = Wait /\ (tpc' = "seek" => next.id = "SEEK")
      BY <1>0, <2>1, <1>2 DEF Take, AsyncNext, AsyncWake, Ids
    <3> QED
      BY <1>0, <3>1, <3>2 DEF OrderInv
  <2>2. CASE ~Take
    BY <1>2, <2>2, OrderKept DEF AsyncNext, AsyncWake
  <2> QED
    BY <2>1, <2>2
<1>3. CASE OpenCreate \/ OpenStream
  BY <1>3, OrderKept DEF OpenCreate, OpenStream
<1>4. CASE SeekStream
  <2>1. /\ UNCHANGED <<next, cur, seeks>> /\ tpc = "seek" /\ tpc' = "lock"
        /\ seeked' \in {seeked, cur.arg}
    BY <1>4 DEF SeekStream
  <2> QED
    BY <1>0, <2>1 DEF OrderInv
<1>5. CASE EventThread
  BY <1>5, OrderKept DEF EventThread, TakeEvent, PostEvent
<1>6. CASE Opener
  BY <1>6, OrderKept DEF Opener, PrepareAsync, SetPreparing, async_cmd_add
<1>7. CASE seekTo
  <2>1. /\ UNCHANGED <<cur, tpc, seeked>> /\ seeks' = seeks + 1
        /\ next' = [id |-> "SEEK", arg |-> seeks']
    BY <1>7 DEF seekTo, async_cmd_add
  <2>2. next'.arg = seeks + 1
    BY <2>1
  <2> QED
    BY <1>0, <2>1, <2>2 DEF OrderInv
<1>8. CASE Call \/ stopPlayback \/ release
  BY <1>8, OrderKept DEF Call, stopPlayback, release
<1>9. CASE Deliver \/ CallEnds \/ CallWait \/ CloseWait \/ CloseMedia
  BY <1>9, OrderKept DEF Deliver, CallEnds, CallWait, CloseWait, CloseMedia, async_cmd_wait
<1>10. CASE CloseEnter \/ DestroyExit \/ DestroyJoin
  BY <1>10, OrderKept DEF CloseEnter, DestroyExit, DestroyJoin, async_cmd_add
<1>11. CASE Spurious \/ UNCHANGED vars
  BY <1>11, OrderKept DEF Spurious, vars
<1> QED
  BY <1>1, <1>2, <1>3, <1>4, <1>5, <1>6, <1>7, <1>8, <1>9, <1>10, <1>11
     DEF Next, Async, MainProceeds, User

(* What moves of the two threads are in the abstract stream. *)
LEMMA InsideMoves ==
  ASSUME UNCHANGED <<seeks, seeked>>, NEW c \in {"async", "main"},
         Inside' \ {c} = Inside \ {c},
         \/ UNCHANGED media
         \/ media = "none" /\ Inside = {} /\ c \in Inside' /\ media' # "none"
         \/ media = "created" /\ media' = "open",
         c \in Inside' \ Inside => media' # "none"
  PROVE  Stream!Next \/ UNCHANGED Stream!streamVars
<1> DEFINE there == media # "none"
<1>1. CASE Inside' = Inside
  <2>1. there' = there
    BY <1>1
  <2> QED
    BY <1>1, <2>1 DEF Stream!streamVars
<1>2. CASE c \in Inside' /\ c \notin Inside
  <2>1. Inside' = Inside \cup {c}
    BY <1>2
  <2>2. CASE there
    <3>1. Stream!Enter(c)
      BY <1>2, <2>1, <2>2 DEF Stream!Enter
    <3> QED
      BY <3>1 DEF Stream!Next
  <2>3. CASE ~there
    <3>1. Stream!Create(c)
      BY <1>2, <2>1, <2>3 DEF Stream!Create
    <3> QED
      BY <3>1 DEF Stream!Next
  <2> QED
    BY <2>2, <2>3
<1>3. CASE c \notin Inside' /\ c \in Inside
  <2>1. Inside' = Inside \ {c} /\ there' = there
    BY <1>3
  <2>2. Stream!Leave(c)
    BY <1>3, <2>1 DEF Stream!Leave
  <2> QED
    BY <2>2 DEF Stream!Next
<1> QED
  BY <1>1, <1>2, <1>3

LEMMA StreamStep ==
  ASSUME IInv, OrderInv, [Next]_vars
  PROVE  [Stream!Next]_(Stream!streamVars)
<1> USE DEF AsyncKeeps, EventKeeps, OpenerKeeps, MainKeeps, slotVars,
   mediaVars, eventVars, playerVars, Command, Wait
<1> DEFINE Goal == Stream!Next \/ UNCHANGED Stream!streamVars
<1>0. /\ seeked \in Nat /\ seeks \in Nat /\ cur.arg \in Nat /\ next.id \in Ids
      /\ tpc \in {"create", "open", "seek"} => cpc # "close_media"
      /\ tpc = "open" => media = "created"
      /\ tpc = "create" => media = "none"
      /\ cpc = "call" \/ next.id = "SEEK" \/ tpc = "seek" => media = "open"
      /\ isInPlaybackState /\ cpc = "looper" => media = "open"
      /\ media = "created" => tpc = "open"
  <2>1. isInPlaybackState => state = "STATE_PREPARED"
    BY DEF IInv, TypeOK, isInPlaybackState
  <2> QED
    BY <2>1, MaxSeeksAssumption DEF IInv, TypeOK, SlotInv, OpenInv, ToldInv, Usual
<1>1. ASSUME UNCHANGED <<media, seeked, seeks, tpc>>,
             cpc' = "call" <=> cpc = "call"
      PROVE  Goal
  <2>1. UNCHANGED Inside
    BY <1>1 DEF Inside
  <2> QED
    BY <1>1, <2>1 DEF Stream!streamVars
<1>2. CASE AsyncIdle \/ AsyncNext \/ AsyncWake \/ OpenCreate \/ OpenStream
  <2>1. UNCHANGED <<seeks, seeked, cpc>>
    BY <1>2 DEF AsyncIdle, AsyncNext, AsyncWake, OpenCreate, OpenStream
  <2>2. Inside' \ {"async"} = Inside \ {"async"}
    BY <2>1 DEF Inside
  <2>3. CASE AsyncIdle \/ AsyncNext \/ AsyncWake
    <3>1. /\ UNCHANGED media /\ tpc \in {"lock", "wait"}
          /\ tpc' \in {"open", "seek"} => next.id = "SEEK"
      BY <1>0, <2>3 DEF AsyncIdle, AsyncNext, AsyncWake, Take, Ids
    <3>2. "async" \in Inside' => media' # "none"
      BY <1>0, <3>1 DEF Inside
    <3> QED
      BY <2>1, <2>2, <3>1, <3>2, InsideMoves
  <2>4. CASE OpenCreate
    <3>1. tpc = "create" /\ tpc' = "open" /\ media = "none" /\ media' = "created"
      BY <1>0, <2>4 DEF OpenCreate
    <3>2. Inside = {} /\ "async" \in Inside'
      BY <1>0, <3>1 DEF Inside
    <3> QED
      BY <2>1, <2>2, <3>1, <3>2, InsideMoves
  <2>5. CASE OpenStream
    <3>1. tpc = "open" /\ tpc' = "lock" /\ media = "created" /\ media' = "open"
      BY <1>0, <2>5 DEF OpenStream
    <3>2. "async" \notin Inside'
      BY <3>1 DEF Inside
    <3> QED
      BY <2>1, <2>2, <3>1, <3>2, InsideMoves
  <2> QED
    BY <1>2, <2>3, <2>4, <2>5
<1>3. CASE SeekStream
  <2>1. /\ tpc = "seek" /\ tpc' = "lock" /\ media = "open" /\ seeked' = cur.arg
        /\ UNCHANGED <<media, seeks, cpc>>
    BY <1>0, <1>3 DEF SeekStream
  <2>2. seeked' \in seeked + 1..seeks
    BY <1>0, <2>1 DEF OrderInv
  <2>3. "async" \in Inside /\ Inside' = Inside \ {"async"}
    BY <2>1 DEF Inside
  <2>4. Stream!Seek("async")
    BY <2>1, <2>2, <2>3 DEF Stream!Seek
  <2> QED
    BY <2>4 DEF Stream!Next
<1>4. CASE EventThread
  BY <1>1, <1>4 DEF EventThread, TakeEvent, PostEvent
<1>5. CASE Opener
  BY <1>1, <1>5 DEF Opener, PrepareAsync, SetPreparing
<1>6. CASE seekTo
  <2>1. UNCHANGED <<media, seeked, tpc, cpc>> /\ media = "open" /\ seeks' = seeks + 1
    BY <1>0, <1>6 DEF seekTo
  <2>2. UNCHANGED Inside
    BY <2>1 DEF Inside
  <2>3. Stream!Ask
    BY <2>1, <2>2 DEF Stream!Ask
  <2> QED
    BY <2>3 DEF Stream!Next
<1>7. CASE Call \/ CallEnds \/ CallWait
  <2>1. UNCHANGED <<seeks, seeked, media, tpc>>
    BY <1>7 DEF Call, CallEnds, CallWait, async_cmd_wait
  <2>2. cpc' = "call" => media = "open"
    BY <1>0, <1>7 DEF IInv, ToldInv, Call, CallEnds, CallWait, async_cmd_wait
  <2>3. Inside' \ {"main"} = Inside \ {"main"}
    BY <2>1 DEF Inside
  <2>4. "main" \in Inside' => media' # "none"
    BY <2>1, <2>2 DEF Inside
  <2> QED
    BY <2>1, <2>3, <2>4, InsideMoves
<1>8. CASE stopPlayback \/ release
  BY <1>1, <1>8 DEF stopPlayback, release, MayLeave
<1>9. CASE CloseMedia
  <2>1. /\ cpc = "close_media" /\ media' = "none" /\ UNCHANGED <<seeks, seeked, tpc>>
        /\ cpc' # "call"
    BY <1>9 DEF CloseMedia, Closed
  <2>2. Inside = {} /\ Inside' = {}
    BY <1>0, <2>1 DEF Inside
  <2>3. CASE media = "none"
    BY <2>1, <2>2, <2>3 DEF Stream!streamVars
  <2>4. CASE media # "none"
    <3>1. Stream!Close
      BY <2>1, <2>2, <2>4 DEF Stream!Close
    <3> QED
      BY <3>1 DEF Stream!Next
  <2> QED
    BY <2>3, <2>4
<1>10. CASE Deliver \/ CloseEnter \/ CloseWait \/ DestroyExit \/ DestroyJoin
  BY <1>1, <1>10 DEF Deliver, CloseEnter, CloseWait, DestroyExit, DestroyJoin,
     async_cmd_wait, Closed
<1>11. CASE Spurious \/ UNCHANGED vars
  BY <1>1, <1>11 DEF Spurious, vars
<1> QED
  BY <1>2, <1>3, <1>4, <1>5, <1>6, <1>7, <1>8, <1>9, <1>10, <1>11
     DEF Next, Async, MainProceeds, User

(* For any number of seeks, and whenever the user may stop, the mailbox,   *)
(* the waits and the messages use the stream as MediaStream has it: nobody *)
(* enters one that is not there, avos_mp_close deletes it under nobody,    *)
(* and no seek runs twice or after a later one.                            *)
THEOREM StreamRefined == Spec => StreamSpec
<1>1. Init => OrderInv /\ Stream!Init
  BY DEF Init, OrderInv, Wait, Command, Stream!Init, Inside
<1>2. IInv /\ OrderInv /\ [Next]_vars => OrderInv'
  BY OrderStep
<1>3. IInv /\ OrderInv /\ [Next]_vars => [Stream!Next]_(Stream!streamVars)
  BY StreamStep
<1> QED
  BY <1>1, <1>2, <1>3, Inductive, PTL DEF Spec, StreamSpec, Stream!Spec
=============================================================================
