------------------------------- MODULE AvosMp -------------------------------
(***************************************************************************)
(* The media player object of avos and its user: the one-slot command      *)
(* mailbox and the async thread of Source/avos_mp.c, the event queue and   *)
(* the event thread of jni/libavosjni/avos_media_player.c, and the main    *)
(* thread that runs Player.java and the handler of AvosMediaPlayer.java.   *)
(*                                                                         *)
(* A critical section of async.mtx is one action.  What the stream behind  *)
(* mp->media does is left out (VideoEngine has it): a call into it is a    *)
(* step, or two where another thread may act in between.                   *)
(***************************************************************************)
EXTENDS Naturals, Sequences

CONSTANTS MaxSeeks,          \* bound: seeks the user asks for
          StopWhenPreparing  \* may the user stop before the player is prepared

ASSUME MaxSeeksAssumption == MaxSeeks \in Nat
ASSUME StopAssumption == StopWhenPreparing \in BOOLEAN

VARIABLES
  media,     \* mp->media: none, created, or with its stream opened
  cur, next, \* async.cur_cmd, async.next_cmd: [id, arg]
  asleep,    \* who is in pthread_cond_wait on async.cond
  tpc,       \* where the async thread is
  seeked,    \* the position the stream was last sought to
  events,    \* msg_queue of the event thread
  held,      \* the message it has taken from there, as a sequence
  handler,   \* messages posted to the EventHandler, run by the main thread
  cpc,       \* what the main thread is inside of
  closing,   \* on whose behalf it is in avos_mp_close
  opc,       \* the thread openVideo starts
  state, busy,  \* mCurrentState, mIsBusy
  seeks      \* history: how many seeks were asked for

slotVars   == <<cur, next, asleep>>
mediaVars  == <<media, seeked>>
eventVars  == <<events, held, handler>>
playerVars == <<state, busy, seeks>>
vars == <<slotVars, mediaVars, eventVars, playerVars, tpc, cpc, closing, opc>>

Ids == {"WAIT", "OPEN", "SEEK", "EXIT"}
Command(id, arg) == [id |-> id, arg |-> arg]
Wait == Command("WAIT", 0)

Event(what, arg1) == [what |-> what, arg1 |-> arg1]
Events == [what : {"MEDIA_PREPARED", "MEDIA_ERROR", "MEDIA_SEEK_COMPLETE"},
           arg1 : {0, 1}]

TypeOK ==
  /\ media \in {"none", "created", "open"}
  /\ {cur, next} \subseteq [id : Ids, arg : 0..MaxSeeks]
  /\ asleep \subseteq {"async", "main"}
  /\ tpc \in {"lock", "wait", "create", "open", "seek", "gone"}
  /\ seeked \in 0..MaxSeeks /\ seeks \in 0..MaxSeeks
  /\ events \in Seq(Events) /\ held \in Seq(Events) /\ handler \in Seq(Events)
  /\ cpc \in {"looper", "call_wait", "call", "close", "close_wait", "close_media",
              "exit", "join", "gone"}
  /\ closing \in {"stop", "release"}
  /\ opc \in {"prepare", "preparing", "done"}
  /\ state \in {"STATE_IDLE", "STATE_PREPARING", "STATE_PREPARED", "STATE_ERROR"}
  /\ busy \in BOOLEAN

(* openVideo has created the player and started its thread. *)
Init ==
  /\ media = "none" /\ seeked = 0
  /\ cur = Wait /\ next = Wait /\ asleep = {}
  /\ tpc = "lock"
  /\ events = <<>> /\ held = <<>> /\ handler = <<>>
  /\ cpc = "looper" /\ closing = "stop" /\ opc = "prepare"
  /\ state = "STATE_IDLE" /\ busy = FALSE /\ seeks = 0

-----------------------------------------------------------------------------
(***************************************************************************)
(* The async thread: async_thread.                                         *)
(***************************************************************************)
AsyncKeeps == UNCHANGED <<playerVars, held, handler, cpc, closing, opc>>

Send(es) == events' = events \o es

(* Mutant of SeekComplete: sends the argument of the queued command. *)
SeekCompleteArg ==
  IF cur.id = "SEEK" THEN <<Event("MEDIA_SEEK_COMPLETE", next.arg)>> ELSE <<>>

(* Mutant of SeekComplete: says that another one is queued when none is. *)
SeekCompleteSwapped ==
  IF cur.id = "SEEK"
  THEN <<Event("MEDIA_SEEK_COMPLETE", IF next.id = "SEEK" THEN 0 ELSE 1)>>
  ELSE <<>>

(* A seek is over: 1 says that another one is queued. *)
SeekComplete ==
  IF cur.id = "SEEK"
  THEN <<Event("MEDIA_SEEK_COMPLETE", IF next.id = "SEEK" THEN 1 ELSE 0)>>
  ELSE <<>>

(* Take the queued command and run it. *)
Take ==
  /\ cur' = next
  /\ next' = Wait
  /\ tpc' = CASE next.id = "OPEN" -> "create"
              [] next.id = "SEEK" -> "seek"
              [] next.id = "EXIT" -> "gone"

(* Mutant of AsyncIdle: does not wake who waits for the command's end. *)
AsyncIdleSilent ==
  /\ tpc = "lock"
  /\ next.id = "WAIT"
  /\ Send(SeekComplete)
  /\ cur' = Wait
  /\ asleep' = asleep \cup {"async"}
  /\ tpc' = "wait"
  /\ UNCHANGED <<next, mediaVars>> /\ AsyncKeeps

AsyncIdle ==
  /\ tpc = "lock"
  /\ next.id = "WAIT"
  /\ Send(SeekComplete)
  /\ cur' = Wait
  /\ asleep' = {"async"}
  /\ tpc' = "wait"
  /\ UNCHANGED <<next, mediaVars>> /\ AsyncKeeps

AsyncNext ==
  /\ tpc = "lock"
  /\ next.id # "WAIT"
  /\ Send(SeekComplete)
  /\ Take
  /\ UNCHANGED <<asleep, mediaVars>> /\ AsyncKeeps

AsyncWake ==
  /\ tpc = "wait" /\ "async" \notin asleep
  /\ IF next.id = "WAIT"
     THEN asleep' = asleep \cup {"async"} /\ UNCHANGED <<cur, next, tpc>>
     ELSE Take /\ UNCHANGED asleep
  /\ UNCHANGED <<events, mediaVars>> /\ AsyncKeeps

(* avos_mp_open_common: mp->media is set before the stream is opened. *)
OpenCreate ==
  /\ tpc = "create"
  /\ media' = "created"
  /\ tpc' = "open"
  /\ UNCHANGED <<slotVars, seeked, events>> /\ AsyncKeeps

(* A stream that does not open sends MEDIA_ERROR, and OPEN returns OK. *)
OpenStream ==
  /\ tpc = "open"
  /\ media' = "open"
  /\ \E errors \in {<<>>, <<Event("MEDIA_ERROR", 0)>>} :
       Send(errors \o <<Event("MEDIA_PREPARED", 0)>>)
  /\ tpc' = "lock"
  /\ UNCHANGED <<slotVars, seeked>> /\ AsyncKeeps

SeekStream ==
  /\ tpc = "seek"
  /\ seeked' = IF media = "none" THEN seeked ELSE cur.arg
  /\ tpc' = "lock"
  /\ UNCHANGED <<slotVars, media, events>> /\ AsyncKeeps

Async == AsyncIdle \/ AsyncNext \/ AsyncWake \/ OpenCreate \/ OpenStream \/ SeekStream

-----------------------------------------------------------------------------
(***************************************************************************)
(* The event thread: event_thread, which posts to the EventHandler.        *)
(***************************************************************************)
EventKeeps ==
  UNCHANGED <<slotVars, mediaVars, playerVars, tpc, cpc, closing, opc>>

TakeEvent ==
  /\ held = <<>> /\ events # <<>> /\ cpc # "gone"
  /\ held' = <<Head(events)>>
  /\ events' = Tail(events)
  /\ UNCHANGED handler /\ EventKeeps

PostEvent ==
  /\ held # <<>>
  /\ handler' = handler \o held
  /\ held' = <<>>
  /\ UNCHANGED events /\ EventKeeps

EventThread == TakeEvent \/ PostEvent

-----------------------------------------------------------------------------
(* Mutant of async_cmd_add: a seek that is queued stays. *)
KeepQueuedSeek(id, arg) ==
  /\ next' = IF next.id = "SEEK" /\ id = "SEEK" THEN next ELSE Command(id, arg)
  /\ asleep' = {}
  /\ UNCHANGED cur

(* Mutant of async_cmd_add: the async thread is not woken. *)
AddSilently(id, arg) ==
  /\ next' = Command(id, arg)
  /\ UNCHANGED <<cur, asleep>>

(***************************************************************************)
(* async_cmd_add: one command can be queued, a later one replaces it.      *)
(***************************************************************************)
async_cmd_add(id, arg) ==
  /\ next' = Command(id, arg)
  /\ asleep' = {}
  /\ UNCHANGED cur

(***************************************************************************)
(* The thread started by openVideo: prepareAsync queues OPEN (mp->media is *)
(* still NULL: a player is prepared once), then the player's state is set. *)
(***************************************************************************)
OpenerKeeps == UNCHANGED <<mediaVars, eventVars, busy, seeks, tpc, cpc, closing>>

PrepareAsync ==
  /\ opc = "prepare"
  /\ async_cmd_add("OPEN", 0)
  /\ opc' = "preparing"
  /\ UNCHANGED state /\ OpenerKeeps

SetPreparing ==
  /\ opc = "preparing"
  /\ state' = "STATE_PREPARING"
  /\ opc' = "done"
  /\ UNCHANGED slotVars /\ OpenerKeeps

Opener == PrepareAsync \/ SetPreparing

-----------------------------------------------------------------------------
(***************************************************************************)
(* The main thread: the user's calls, and the handler's messages between   *)
(* them.                                                                   *)
(***************************************************************************)
MainKeeps == UNCHANGED <<tpc, opc, events, held>>

isInPlaybackState == state \notin {"STATE_ERROR", "STATE_IDLE", "STATE_PREPARING"}

(* EventHandler.handleMessage; onError also stops the playback. *)
Deliver ==
  /\ cpc = "looper" /\ handler # <<>>
  /\ handler' = Tail(handler)
  /\ LET m == Head(handler) IN
       /\ state' = CASE m.what = "MEDIA_PREPARED" -> "STATE_PREPARED"
                     [] m.what = "MEDIA_ERROR" -> "STATE_ERROR"
                     [] OTHER -> state
       /\ busy' = (busy /\ ~(m.what = "MEDIA_SEEK_COMPLETE" /\ m.arg1 = 0))
       /\ IF m.what = "MEDIA_ERROR" THEN cpc' = "close" /\ closing' = "stop"
                                    ELSE UNCHANGED <<cpc, closing>>
  /\ UNCHANGED <<slotVars, mediaVars, seeks>> /\ MainKeeps

seekTo ==
  /\ cpc = "looper" /\ isInPlaybackState
  /\ seeks < MaxSeeks
  /\ seeks' = seeks + 1
  /\ async_cmd_add("SEEK", seeks')
  /\ busy' = TRUE
  /\ UNCHANGED <<state, mediaVars, handler, cpc, closing>> /\ MainKeeps

(* The other calls: start, pause, setAudioTrack, setSubtitleTrack...       *)
(* wait for the async thread, getCurrentPosition and isPlaying ask it.     *)
Call ==
  /\ cpc = "looper" /\ isInPlaybackState
  /\ cpc' \in {"call_wait"} \cup (IF cur.id = "WAIT" THEN {"call"} ELSE {})
  /\ UNCHANGED <<slotVars, mediaVars, playerVars, handler, closing>> /\ MainKeeps

CallEnds ==
  /\ cpc = "call"
  /\ cpc' = "looper"
  /\ UNCHANGED <<slotVars, mediaVars, playerVars, handler, closing>> /\ MainKeeps

(* async_cmd_wait looks at the running command, not at the queued one. *)
async_cmd_wait(from, to) ==
  /\ cpc = from /\ "main" \notin asleep
  /\ IF cur.id \in {"WAIT", "EXIT"}
     THEN cpc' = to /\ UNCHANGED asleep
     ELSE asleep' = asleep \cup {"main"} /\ UNCHANGED cpc
  /\ UNCHANGED <<cur, next, mediaVars, playerVars, handler, closing>> /\ MainKeeps

CallWait == async_cmd_wait("call_wait", "call")

(* Player.stopPlayback: stop (avos_mp_close), then release.  Player.release *)
(* resets, which destroys the same mp; the one created then is idle and    *)
(* left out.  The user does not leave while the opener is in prepareAsync. *)
MayLeave == /\ cpc = "looper" /\ opc = "done"
            /\ StopWhenPreparing \/ isInPlaybackState

stopPlayback ==
  /\ MayLeave
  /\ cpc' = "close" /\ closing' = "stop"
  /\ UNCHANGED <<slotVars, mediaVars, playerVars, handler>> /\ MainKeeps

release ==
  /\ MayLeave
  /\ cpc' = "close" /\ closing' = "release"
  /\ UNCHANGED <<slotVars, mediaVars, playerVars, handler>> /\ MainKeeps

(* release follows stop; avos_mp_destroy closes again and then asks the    *)
(* async thread to exit.                                                   *)
Closed == IF closing = "stop" THEN cpc' = "close" /\ closing' = "release"
                              ELSE cpc' = "exit" /\ UNCHANGED closing

(* Mutant of CloseEnter: leaves a queued seek to run after the close. *)
CloseKeepsQueued ==
  /\ cpc = "close"
  /\ IF media = "none" THEN Closed ELSE cpc' = "close_wait" /\ UNCHANGED closing
  /\ UNCHANGED <<slotVars, mediaVars, playerVars, handler>> /\ MainKeeps

CloseEnter ==
  /\ cpc = "close"
  /\ IF media = "none"
     THEN Closed /\ UNCHANGED slotVars
     ELSE async_cmd_add("WAIT", 0) /\ cpc' = "close_wait" /\ UNCHANGED closing
  /\ UNCHANGED <<mediaVars, playerVars, handler>> /\ MainKeeps

CloseWait == async_cmd_wait("close_wait", "close_media")

(* Mutant of CloseMedia: the media is not deleted. *)
CloseKeepsMedia ==
  /\ cpc = "close_media"
  /\ Closed
  /\ UNCHANGED <<slotVars, mediaVars, playerVars, handler>> /\ MainKeeps

CloseMedia ==
  /\ cpc = "close_media"
  /\ media' = "none"
  /\ Closed
  /\ UNCHANGED <<slotVars, seeked, playerVars, handler>> /\ MainKeeps

DestroyExit ==
  /\ cpc = "exit"
  /\ async_cmd_add("EXIT", 0)
  /\ cpc' = "join"
  /\ UNCHANGED <<mediaVars, playerVars, handler, closing>> /\ MainKeeps

(* The async thread and then the event thread are joined; messages left    *)
(* in the handler are ignored, the handle being 0.                         *)
DestroyJoin ==
  /\ cpc = "join" /\ tpc = "gone" /\ held = <<>>
  /\ cpc' = "gone"
  /\ state' = "STATE_IDLE"
  /\ events' = <<>> /\ handler' = <<>>
  /\ UNCHANGED <<slotVars, mediaVars, busy, seeks, tpc, opc, held, closing>>

MainProceeds == CallEnds \/ CallWait \/ CloseEnter \/ CloseWait \/ CloseMedia
                \/ DestroyExit \/ DestroyJoin \/ Deliver
User == seekTo \/ Call \/ stopPlayback \/ release

(* pthread_cond_wait may return although nobody signalled. *)
Spurious ==
  /\ \E t \in asleep : asleep' = asleep \ {t}
  /\ UNCHANGED <<cur, next, mediaVars, eventVars, playerVars, tpc, cpc, closing, opc>>

Next == Async \/ EventThread \/ Opener \/ MainProceeds \/ User \/ Spurious

(***************************************************************************)
(* Threads are scheduled, an open and a seek of the stream end, and the    *)
(* looper runs its messages in the order they were posted: calls of the    *)
(* user do not keep it from the next one for ever.                         *)
(***************************************************************************)
Fairness == /\ WF_vars(Async) /\ WF_vars(EventThread)
            /\ WF_vars(Opener) /\ WF_vars(MainProceeds)
            /\ SF_vars(Deliver)

Spec == Init /\ [][Next]_vars
FairSpec == Spec /\ Fairness

-----------------------------------------------------------------------------
(***************************************************************************)
(* Whoever is inside the stream has one: it is not closed under the async  *)
(* thread's open or seek, nor missing under a call of the main thread.     *)
(***************************************************************************)
StreamInUse ==
  /\ tpc = "open" => media = "created"
  /\ tpc = "seek" \/ cpc = "call" => media = "open"

(***************************************************************************)
(* Seeks may be skipped, never the last one: once the mailbox is empty and *)
(* the async thread idle the stream is where the user last asked for.      *)
(***************************************************************************)
LastSeekWins ==
  cpc = "looper" /\ tpc = "wait" /\ next.id = "WAIT" => seeked = seeks

(* release leaves no stream and no async thread behind: what               *)
(* Player.java says of it, "release the media player in any state".        *)
NothingLeft == cpc = "gone" => media = "none" /\ tpc = "gone"

(* A call that waits for the async thread is not left waiting. *)
CallReturns == cpc = "call_wait" ~> cpc = "call"

Leaving == {"close", "close_wait", "close_media", "exit", "join"}

(* isBusy does not stay: onAllSeekComplete follows the last of any number  *)
(* of overlapping seeks (its absence freezes the interface of the player). *)
BusyEnds == busy ~> ~busy \/ cpc \in Leaving \cup {"gone"}

(* stopPlayback and release return. *)
ReleaseEnds == cpc \in Leaving ~> cpc = "gone"

(* The async thread is inside the stream while it opens or seeks it, the   *)
(* main thread in the calls that wait for the async thread.                *)
Inside == {c \in {"async", "main"} : IF c = "async" THEN tpc \in {"open", "seek"}
                                                    ELSE cpc = "call"}

Stream == INSTANCE MediaStream
  WITH Clients <- {"async", "main"}, there <- media # "none", inside <- Inside,
       asked <- seeks, at <- seeked

(* Through mailbox, waits and messages the stream is used as MediaStream   *)
(* has it: never when it is not there, never deleted under somebody, and   *)
(* sought to no position twice nor to one older than the last (avos_mp.c). *)
StreamSpec == Stream!Spec
=============================================================================
