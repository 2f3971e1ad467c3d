---------------------------- MODULE ThreadState ----------------------------
(***************************************************************************)
(* The thread state handle of avos (src/native/avos/Source/athread.c and   *)
(* Include/athread.h): a pair of words guarded by one mutex and one        *)
(* condition variable, through which other threads ask a worker thread to  *)
(* run, to idle or to exit, and the worker acknowledges.                   *)
(*                                                                         *)
(* This module has the operations only; a module that extends it says      *)
(* which thread calls which operation when.  The worker of handle h is the *)
(* thread named h.  A critical section of the code runs from one           *)
(* pthread_mutex_lock or return from pthread_cond_wait to the next         *)
(* pthread_cond_wait or pthread_mutex_unlock: each is one action.          *)
(***************************************************************************)

CONSTANTS Handles,  \* the handles, each also the name of its worker thread
          Threads   \* every thread that touches a handle

ASSUME WorkersAreThreads == Handles \subseteq Threads

VARIABLES got,      \* _get: what the worker last acknowledged
          asked,    \* _set: what was last asked of the worker
          sleepers  \* the threads blocked in pthread_cond_wait on _cond

handleVars == <<got, asked, sleepers>>

THREAD_STATES == {"exit", "idle", "running"}

HandleTypeOK ==
  /\ got \in [Handles -> THREAD_STATES]
  /\ asked \in [Handles -> THREAD_STATES]
  /\ sleepers \in [Handles -> SUBSET Threads]

thread_state_init ==
  /\ got = [h \in Handles |-> "idle"]
  /\ asked = [h \in Handles |-> "idle"]
  /\ sleepers = [h \in Handles |-> {}]

(* Mutant of Settled: the wait loop does not test again after a wakeup. *)
SettledUntested(h) == TRUE

(* The value asked for is the value acknowledged: a set returns. *)
Settled(h) == got[h] = asked[h]

(* Mutant of SetEnter: only a request to run wakes the worker. *)
SetWakesRunOnly(h, t, new) ==
  /\ asked' = [asked EXCEPT ![h] = new]
  /\ sleepers' = [sleepers EXCEPT ![h] =
                    (IF new = "running" THEN {} ELSE @)
                      \cup (IF got[h] # new THEN {t} ELSE {})]
  /\ UNCHANGED got

(***************************************************************************)
(* thread_state_set( h, new ) called by thread t, up to its return or its  *)
(* first wait: it returns at once exactly when got[h] = new.  Asking for   *)
(* IDLE wakes nobody.                                                      *)
(***************************************************************************)
SetEnter(h, t, new) ==
  /\ asked' = [asked EXCEPT ![h] = new]
  /\ sleepers' = [sleepers EXCEPT ![h] =
                    (IF new # "idle" THEN {} ELSE @)
                      \cup (IF got[h] # new THEN {t} ELSE {})]
  /\ UNCHANGED got

(* The wait loop of thread_state_set after a wakeup, when it waits again. *)
SetSleepAgain(h, t) ==
  /\ t \notin sleepers[h]
  /\ ~Settled(h)
  /\ sleepers' = [sleepers EXCEPT ![h] = @ \cup {t}]
  /\ UNCHANGED <<got, asked>>

(* The wait loop of thread_state_set after a wakeup, when it returns. *)
SetReturn(h, t) ==
  /\ t \notin sleepers[h]
  /\ Settled(h)
  /\ UNCHANGED handleVars

(* Mutant of AckEnter: acknowledges and wakes nobody. *)
AckSilently(h) ==
  /\ got' = [got EXCEPT ![h] = asked[h]]
  /\ sleepers' = [sleepers EXCEPT ![h] =
                    IF asked[h] = "idle" THEN @ \cup {h} ELSE @]
  /\ UNCHANGED asked

(***************************************************************************)
(* thread_state_ack( h ) called by the worker, up to its return or its     *)
(* first wait: it waits exactly when it acknowledges IDLE.                 *)
(***************************************************************************)
AckEnter(h) ==
  /\ got' = [got EXCEPT ![h] = asked[h]]
  /\ sleepers' = [sleepers EXCEPT ![h] =
                    IF asked[h] = "idle" THEN {h} ELSE {}]
  /\ UNCHANGED asked

AckSleepAgain(h) ==
  /\ h \notin sleepers[h]
  /\ asked[h] = "idle"
  /\ sleepers' = [sleepers EXCEPT ![h] = @ \cup {h}]
  /\ UNCHANGED <<got, asked>>

(* The worker leaves the wait without acknowledging what woke it. *)
AckReturn(h) ==
  /\ h \notin sleepers[h]
  /\ asked[h] # "idle"
  /\ UNCHANGED handleVars

(* thread_state_ask_pause( h ): asks for IDLE and does not wait. *)
thread_state_ask_pause(h) ==
  /\ asked' = [asked EXCEPT ![h] = "idle"]
  /\ UNCHANGED <<got, sleepers>>

(* pthread_cond_wait may return although nobody signalled. *)
SpuriousWakeup(h, t) ==
  /\ t \in sleepers[h]
  /\ sleepers' = [sleepers EXCEPT ![h] = @ \ {t}]
  /\ UNCHANGED <<got, asked>>
=============================================================================
