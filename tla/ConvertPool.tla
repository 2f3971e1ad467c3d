----------------------------- MODULE ConvertPool -----------------------------
(***************************************************************************)
(* The pool of threads that converts a decoded picture to the pixel format *)
(* of the display, a horizontal slice each (src/native/avos/Source/        *)
(* codec_utils.c, codec_convert_mt and work_thread).  The caller hands out *)
(* the slices of one picture, waits for all of them and returns; at the    *)
(* end it stops and joins the threads.                                     *)
(*                                                                         *)
(* Each worker has two mutexes, each with a condition variable: one the    *)
(* worker waits on for a frame, one the caller waits on for the worker.    *)
(* A critical section up to the next wait is one action; frame is cleared  *)
(* outside of both.                                                        *)
(***************************************************************************)
EXTENDS Integers

CONSTANTS WorkNum,  \* work_num
          Align,    \* 16: slices start on a multiple of this
          Heights,  \* heights of the pictures converted
          MaxJobs   \* bound: pictures converted

ASSUME PoolAssumption ==
  /\ WorkNum \in Nat \ {0} /\ Align \in Nat \ {0}
  /\ Heights \subseteq Nat
  /\ MaxJobs \in Nat

Workers == 0..WorkNum-1
NoFrame == 0

VARIABLES
  frame, start, lines,  \* work_t: frame (NoFrame or the job), start, height
  work_stop,            \* work_t: work_stop
  wpc,                  \* where each worker is
  idlers,               \* the workers in pthread_cond_wait on work_cond
  cpc, i, pos,          \* the caller: where it is, its loop counter, pos
  waits,                \* the workers whose done_cond the caller waits on
  job, height,          \* the picture being converted
  rows                  \* its rows already converted

jobVars == <<frame, start, lines, job, height, pos>>
vars == <<jobVars, work_stop, wpc, idlers, cpc, i, waits, rows>>

TypeOK ==
  /\ frame \in [Workers -> 0..MaxJobs]
  /\ start \in [Workers -> Nat] /\ lines \in [Workers -> Nat]
  /\ work_stop \in [Workers -> BOOLEAN]
  /\ wpc \in [Workers -> {"top", "asleep", "taken", "convert", "converted",
                          "signal", "gone"}]
  /\ idlers \subseteq Workers /\ waits \subseteq Workers
  /\ cpc \in {"idle", "start", "wait", "waiting", "stop", "join", "gone"}
  /\ i \in Workers /\ pos \in Nat
  /\ job \in 0..MaxJobs /\ height \in Nat
  /\ rows \subseteq Nat

Init ==
  /\ frame = [k \in Workers |-> NoFrame]
  /\ start = [k \in Workers |-> 0] /\ lines = [k \in Workers |-> 0]
  /\ work_stop = [k \in Workers |-> FALSE]
  /\ wpc = [k \in Workers |-> "top"]
  /\ idlers = {} /\ waits = {}
  /\ cpc = "idle" /\ i = 0 /\ pos = 0
  /\ job = 0 /\ height = 0 /\ rows = {}

-----------------------------------------------------------------------------
(***************************************************************************)
(* work_thread.                                                            *)
(***************************************************************************)
WorkerGoes(k, to) == wpc' = [wpc EXCEPT ![k] = to]
CallerKeeps == UNCHANGED <<cpc, i, pos, job, height, start, lines, work_stop>>

(* The wait loop: sleep, or leave it with a frame or to stop. *)
Fetch(k) ==
  /\ IF ~work_stop[k] /\ frame[k] = NoFrame
     THEN WorkerGoes(k, "asleep") /\ idlers' = idlers \cup {k}
     ELSE WorkerGoes(k, "taken") /\ UNCHANGED idlers
  /\ UNCHANGED <<frame, waits, rows>> /\ CallerKeeps

WorkerTop(k) == wpc[k] = "top" /\ Fetch(k)
WorkerWake(k) == wpc[k] = "asleep" /\ k \notin idlers /\ Fetch(k)

WorkerTaken(k) ==
  /\ wpc[k] = "taken"
  /\ WorkerGoes(k, IF work_stop[k] THEN "gone" ELSE "convert")
  /\ UNCHANGED <<frame, idlers, waits, rows>> /\ CallerKeeps

Slice(k) == start[k]..start[k] + lines[k] - 1

Convert(k) ==
  /\ wpc[k] = "convert"
  /\ rows' = rows \cup Slice(k)
  /\ WorkerGoes(k, "converted")
  /\ UNCHANGED <<frame, idlers, waits>> /\ CallerKeeps

ClearFrame(k) ==
  /\ wpc[k] = "converted"
  /\ frame' = [frame EXCEPT ![k] = NoFrame]
  /\ WorkerGoes(k, "signal")
  /\ UNCHANGED <<idlers, waits, rows>> /\ CallerKeeps

(* Mutant of WorkerSignal: the caller is not woken. *)
WorkerSilent(k) ==
  /\ wpc[k] = "signal"
  /\ WorkerGoes(k, "top")
  /\ UNCHANGED <<frame, idlers, waits, rows>> /\ CallerKeeps

WorkerSignal(k) ==
  /\ wpc[k] = "signal"
  /\ waits' = waits \ {k}
  /\ WorkerGoes(k, "top")
  /\ UNCHANGED <<frame, idlers, rows>> /\ CallerKeeps

Worker(k) == \/ WorkerTop(k) \/ WorkerWake(k) \/ WorkerTaken(k)
             \/ Convert(k) \/ ClearFrame(k) \/ WorkerSignal(k)

-----------------------------------------------------------------------------
(***************************************************************************)
(* The caller: codec_convert_mt and codec_convert_mt_exit.                 *)
(***************************************************************************)
(* Mutants of SliceHeight: not aligned, and aligned by rounding up. *)
UnalignedShare == height \div WorkNum
ShareRoundedUp == LET up == height \div WorkNum + Align - 1 IN up - (up % Align)

(* ( height / work_num ) & ~0x0f: rounded down to a multiple of Align. *)
SliceHeight == LET share == height \div WorkNum IN share - (share % Align)

(* Mutant of LinesFor: the rows that do not divide are forgotten. *)
EqualLines(k) == SliceHeight

(* The last worker takes what is left. *)
LinesFor(k) == IF k = WorkNum - 1 THEN height - pos ELSE SliceHeight

Last == i = WorkNum - 1

codec_convert_mt(h) ==
  /\ cpc = "idle" /\ job < MaxJobs
  /\ job' = job + 1 /\ height' = h
  /\ pos' = 0 /\ i' = 0
  /\ rows' = {}
  /\ cpc' = "start"
  /\ UNCHANGED <<frame, start, lines, work_stop, wpc, idlers, waits>>

StartWorker ==
  /\ cpc = "start"
  /\ start' = [start EXCEPT ![i] = pos]
  /\ lines' = [lines EXCEPT ![i] = LinesFor(i)]
  /\ frame' = [frame EXCEPT ![i] = job]
  /\ idlers' = idlers \ {i}
  /\ pos' = pos + LinesFor(i)
  /\ i' = IF Last THEN 0 ELSE i + 1
  /\ cpc' = IF Last THEN "wait" ELSE "start"
  /\ UNCHANGED <<work_stop, wpc, waits, job, height, rows>>

(* The wait loop for worker i, and on to the next worker. *)
AwaitFrame ==
  /\ IF frame[i] # NoFrame
     THEN waits' = {i} /\ cpc' = "waiting" /\ UNCHANGED i
     ELSE /\ cpc' = IF Last THEN "idle" ELSE "wait"
          /\ i' = IF Last THEN 0 ELSE i + 1
          /\ UNCHANGED waits
  /\ UNCHANGED <<jobVars, work_stop, wpc, idlers, rows>>

WaitWorker == cpc = "wait" /\ AwaitFrame
(* Mutant of WaitAgain: goes on after any wakeup, without another test. *)
WaitOnce ==
  /\ cpc = "waiting" /\ i \notin waits
  /\ cpc' = IF Last THEN "idle" ELSE "wait"
  /\ i' = IF Last THEN 0 ELSE i + 1
  /\ UNCHANGED <<jobVars, work_stop, wpc, idlers, waits, rows>>

WaitAgain == cpc = "waiting" /\ i \notin waits /\ AwaitFrame

codec_convert_mt_exit ==
  /\ cpc = "idle"
  /\ cpc' = "stop" /\ i' = 0
  /\ UNCHANGED <<jobVars, work_stop, wpc, idlers, waits, rows>>

(* Mutant of StopWorker: the worker is not woken. *)
StopSilently ==
  /\ cpc = "stop"
  /\ work_stop' = [work_stop EXCEPT ![i] = TRUE]
  /\ cpc' = "join"
  /\ UNCHANGED <<jobVars, wpc, idlers, i, waits, rows>>

StopWorker ==
  /\ cpc = "stop"
  /\ work_stop' = [work_stop EXCEPT ![i] = TRUE]
  /\ idlers' = idlers \ {i}
  /\ cpc' = "join"
  /\ UNCHANGED <<jobVars, wpc, i, waits, rows>>

JoinWorker ==
  /\ cpc = "join" /\ wpc[i] = "gone"
  /\ cpc' = IF Last THEN "gone" ELSE "stop"
  /\ i' = IF Last THEN 0 ELSE i + 1
  /\ UNCHANGED <<jobVars, work_stop, wpc, idlers, waits, rows>>

CallerProceeds == StartWorker \/ WaitWorker \/ WaitAgain \/ StopWorker \/ JoinWorker

(* pthread_cond_wait may return although nobody signalled. *)
Spurious ==
  /\ \/ \E k \in idlers : idlers' = idlers \ {k} /\ UNCHANGED waits
     \/ \E k \in waits : waits' = waits \ {k} /\ UNCHANGED idlers
  /\ UNCHANGED <<jobVars, work_stop, wpc, cpc, i, rows>>

Next ==
  \/ \E k \in Workers : Worker(k)
  \/ \E h \in Heights : codec_convert_mt(h)
  \/ CallerProceeds \/ codec_convert_mt_exit
  \/ Spurious

(* Threads are scheduled and the conversion of a slice ends. *)
Fairness == (\A k \in Workers : WF_vars(Worker(k))) /\ WF_vars(CallerProceeds)

Spec == Init /\ [][Next]_vars
FairSpec == Spec /\ Fairness

-----------------------------------------------------------------------------
(* When codec_convert_mt returns the whole picture is converted. *)
PictureComplete == cpc = "idle" => 0..height-1 \subseteq rows

(***************************************************************************)
(* Nobody writes to a frame after codec_convert_mt returned it, nor uses   *)
(* the parameters while they are being set for the next picture; only the  *)
(* signal of the last one may still be under way.                          *)
(***************************************************************************)
NobodyStraggles ==
  \A k \in Workers :
    /\ cpc = "idle" => wpc[k] \notin {"convert", "converted"}
    /\ cpc = "start" /\ k >= i => wpc[k] \notin {"convert", "converted"}

(***************************************************************************)
(* Two workers write to different rows, all within the picture, and every  *)
(* slice starts on a multiple of Align: a chroma row belongs to one of     *)
(* them.                                                                   *)
(***************************************************************************)
SlicesApart ==
  \A k \in Workers : wpc[k] = "convert" =>
    /\ Slice(k) \subseteq 0..height-1
    /\ start[k] % Align = 0
    /\ \A l \in Workers \ {k} : wpc[l] = "convert" => Slice(k) \cap Slice(l) = {}

(* codec_convert_mt returns, codec_convert_mt_exit joins every thread. *)
ConvertReturns == cpc = "start" ~> cpc = "idle"
ExitReturns == cpc = "stop" ~> cpc = "gone"
=============================================================================
