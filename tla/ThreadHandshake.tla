-------------------------- MODULE ThreadHandshake --------------------------
(***************************************************************************)
(* Workers that run the loop all avos worker threads share                 *)
(*                                                                         *)
(*     while( thread_state_get( h ) != THREAD_EXIT ) {                     *)
(*         thread_state_ack( h );                                          *)
(*         if( thread_state_get( h ) == THREAD_RUNNING )  ... work ...     *)
(*     }                                                                   *)
(*                                                                         *)
(* (player and parser threads of stream_video.c, stream_audio.c,           *)
(* stream_subtitle.c), and controllers that ask them to idle, run or exit  *)
(* in any order.  Setters[h] is the set of threads that call               *)
(* thread_state_set on h: one thread for the engine, audio and subtitle    *)
(* handles, several for the parser handle.                                 *)
(***************************************************************************)
EXTENDS ThreadState, FiniteSets

CONSTANTS Setters   \* the threads that may ask, for each handle

Controllers == UNION {Setters[h] : h \in Handles}

ASSUME SettersAssumption ==
  /\ Setters \in [Handles -> SUBSET Threads]
  /\ Controllers \cap Handles = {}

(* The handles of which one thread only is the master. *)
OneSetter == \A h \in Handles : \A s, t \in Setters[h] : s = t

VARIABLES wpc,     \* where each worker is: "top", "ack", "work", "gone"
          call,    \* the set a controller is inside of, <<h, new>>, or <<>>
          holds    \* history: the controllers whose last set on h asked for
                   \* IDLE and has returned

vars == <<got, asked, sleepers, wpc, call, holds>>

NoCall == <<>>

TypeOK ==
  /\ HandleTypeOK
  /\ wpc \in [Handles -> {"top", "ack", "work", "gone"}]
  /\ call \in [Controllers -> (Handles \X THREAD_STATES) \cup {NoCall}]
  /\ holds \in [Handles -> SUBSET Controllers]

Init ==
  /\ thread_state_init
  /\ wpc = [h \in Handles |-> "top"]
  /\ call = [c \in Controllers |-> NoCall]
  /\ holds = [h \in Handles |-> {}]

(***************************************************************************)
(* The worker.                                                             *)
(***************************************************************************)

AfterAck(h) == IF got'[h] = "running" THEN "work" ELSE "top"

WorkerAck(h) ==
  /\ wpc[h] = "top"
  /\ got[h] # "exit"
  /\ AckEnter(h)
  /\ wpc' = [wpc EXCEPT ![h] = IF asked[h] = "idle" THEN "ack" ELSE AfterAck(h)]
  /\ UNCHANGED <<call, holds>>

WorkerSleepAgain(h) ==
  /\ wpc[h] = "ack"
  /\ AckSleepAgain(h)
  /\ UNCHANGED <<wpc, call, holds>>

WorkerWake(h) ==
  /\ wpc[h] = "ack"
  /\ AckReturn(h)
  /\ wpc' = [wpc EXCEPT ![h] = AfterAck(h)]
  /\ UNCHANGED <<call, holds>>

WorkerWork(h) ==
  /\ wpc[h] = "work"
  /\ wpc' = [wpc EXCEPT ![h] = "top"]
  /\ UNCHANGED <<handleVars, call, holds>>

WorkerExit(h) ==
  /\ wpc[h] = "top"
  /\ got[h] = "exit"
  /\ wpc' = [wpc EXCEPT ![h] = "gone"]
  /\ UNCHANGED <<handleVars, call, holds>>

Worker(h) ==
  \/ WorkerAck(h) \/ WorkerSleepAgain(h) \/ WorkerWake(h)
  \/ WorkerWork(h) \/ WorkerExit(h)

(***************************************************************************)
(* The controllers.  A handle whose worker acknowledged EXIT is asked no   *)
(* more (stream_close tests thread_state_get, and every other caller       *)
(* tests s->open); EXIT asked by another thread meanwhile is possible.     *)
(***************************************************************************)
Free(c) == call[c] = NoCall

Set(c, h, new) ==
  /\ Free(c)
  /\ c \in Setters[h]
  /\ got[h] # "exit"
  /\ SetEnter(h, c, new)
  /\ call' = [call EXCEPT ![c] = IF got[h] = new THEN NoCall ELSE <<h, new>>]
  /\ holds' = [holds EXCEPT ![h] =
                 IF got[h] = new /\ new = "idle" THEN @ \cup {c} ELSE @ \ {c}]
  /\ UNCHANGED wpc

SetWaits(c, h, new) ==
  /\ call[c] = <<h, new>>
  /\ SetSleepAgain(h, c)
  /\ UNCHANGED <<wpc, call, holds>>

SetReturns(c, h, new) ==
  /\ call[c] = <<h, new>>
  /\ SetReturn(h, c)
  /\ call' = [call EXCEPT ![c] = NoCall]
  /\ holds' = [holds EXCEPT ![h] = IF new = "idle" THEN @ \cup {c} ELSE @]
  /\ UNCHANGED wpc

InSet(c) == \E h \in Handles, new \in THREAD_STATES :
              SetWaits(c, h, new) \/ SetReturns(c, h, new)

AskPause(c, h) ==
  /\ Free(c)
  /\ c \in Setters[h]
  /\ got[h] # "exit"
  /\ thread_state_ask_pause(h)
  /\ UNCHANGED <<wpc, call, holds>>

Spurious(t, h) ==
  /\ SpuriousWakeup(h, t)
  /\ UNCHANGED <<wpc, call, holds>>

Next ==
  \/ \E h \in Handles :
       \/ WorkerAck(h) \/ WorkerSleepAgain(h) \/ WorkerWake(h)
       \/ WorkerWork(h) \/ WorkerExit(h)
       \/ \E c \in Controllers :
            \/ \E new \in THREAD_STATES :
                 Set(c, h, new) \/ SetWaits(c, h, new) \/ SetReturns(c, h, new)
            \/ AskPause(c, h)
       \/ \E t \in Threads : Spurious(t, h)

(***************************************************************************)
(* Threads are scheduled; the work of one loop turn ends.  Nothing makes a *)
(* controller call and nothing makes a wakeup spurious.                    *)
(***************************************************************************)
Fairness ==
  /\ \A h \in Handles : WF_vars(Worker(h))
  /\ \A c \in Controllers : WF_vars(InSet(c))

Spec == Init /\ [][Next]_vars
FairSpec == Spec /\ Fairness

-----------------------------------------------------------------------------
(***************************************************************************)
(* A thread that asked for IDLE and got its answer owns what the worker    *)
(* works on until it asks again: the worker is not inside its work, and    *)
(* does not enter it.  This is what the callers in stream_video.c rely on  *)
(* when they "idle threads to make sure they are at a known state".        *)
(***************************************************************************)
Parked == \A h \in Handles : holds[h] # {} => wpc[h] # "work"

(***************************************************************************)
(* thread_state_set returns: no interleaving of the two wait loops, of     *)
(* which both sleep on the one condition variable, loses the wakeup.       *)
(***************************************************************************)
EverySetReturns == \A c \in Controllers : call[c] # NoCall ~> Free(c)

(* A worker asked to exit leaves its loop, so that pthread_join returns. *)
ExitIsReached ==
  \A h \in Handles : asked[h] = "exit" ~> wpc[h] = "gone"

(***************************************************************************)
(* The strengthening of Parked that one step preserves.                    *)
(***************************************************************************)
HoldInv ==
  \A h \in Handles :
    /\ holds[h] \subseteq Setters[h]
    /\ wpc[h] = "work" => got[h] = "running"
    /\ holds[h] # {} => got[h] = "idle" /\ asked[h] = "idle"
    /\ \A c \in Controllers :
         call[c] # NoCall => /\ call[c][1] \in Handles
                             /\ c \in Setters[call[c][1]]
                             /\ c \notin holds[call[c][1]]
                             /\ asked[call[c][1]] = call[c][2]

(* Where each worker is, for WorkerGate. *)
WorkerIs == [h \in Handles |-> CASE wpc[h] = "work" -> "in"
                                  [] wpc[h] = "gone" -> "gone"
                                  [] OTHER -> "out"]

Gate == INSTANCE WorkerGate WITH Workers <- Handles, Masters <- Controllers,
                                 worker <- WorkerIs, owners <- holds
(* The promise of the handles, and that they keep it when each has one     *)
(* master (thread_state_set, thread_state_ack and the worker loop): the    *)
(* words, the condition variable and the wait loops implement WorkerGate.  *)
GateSpec == Gate!Spec
=============================================================================
