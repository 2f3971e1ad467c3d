-------------------------- MODULE ConvertPoolProofs --------------------------
(***************************************************************************)
(* For any number of workers and any picture heights: the conversion is    *)
(* complete when codec_convert_mt returns, and no worker still writes.     *)
(***************************************************************************)
EXTENDS ConvertPool, TLAPS

Busy == {"start", "wait", "waiting"}   \* inside codec_convert_mt

Started(k) == cpc \in {"wait", "waiting"} \/ (cpc = "start" /\ k < i)

(* The rows handed out so far are those above pos, without a gap. *)
HandedOut ==
  /\ cpc = "start" => pos = i * SliceHeight
  /\ cpc = "start" => \A r \in 0..pos-1 : \E k \in Workers : k < i /\ r \in Slice(k)
  /\ cpc \in {"wait", "waiting"} =>
       \A r \in 0..height-1 : \E k \in Workers : r \in Slice(k)

(* A worker's frame tells whether its slice is still to be done. *)
FrameTells ==
  /\ cpc \in Busy => job # 0
  /\ \A k \in Workers :
       /\ frame[k] # NoFrame => Started(k)
       /\ Started(k) /\ frame[k] = NoFrame => Slice(k) \subseteq rows
       /\ cpc \in {"wait", "waiting"} /\ k < i => frame[k] = NoFrame
       /\ wpc[k] \in {"convert", "converted"} => frame[k] # NoFrame
       /\ wpc[k] = "taken" => frame[k] # NoFrame \/ work_stop[k]
       /\ wpc[k] = "converted" => Slice(k) \subseteq rows
       /\ work_stop[k] => cpc \notin Busy \cup {"idle"}

Complete == cpc \notin Busy => 0..height-1 \subseteq rows

PoolInv == HandedOut /\ FrameTells /\ Complete

-----------------------------------------------------------------------------
(* A share of the height for each worker: together not more than there is. *)
LEMMA SliceHeightFits ==
  ASSUME NEW h \in Nat
  PROVE  LET share == h \div WorkNum
             slice == share - (share % Align)
         IN  slice \in Nat /\ (WorkNum - 1) * slice <= h
<1> DEFINE share == h \div WorkNum
           slice == share - (share % Align)
<1>1. WorkNum \in Nat \ {0} /\ Align \in Nat \ {0}
  BY PoolAssumption
<1>2. share \in Nat /\ share * WorkNum <= h
  BY <1>1
<1>3. share % Align \in 0..share
  BY <1>1, <1>2
<1>4. slice \in 0..share
  BY <1>2, <1>3
<1> HIDE DEF share, slice
<1>5. (WorkNum - 1) * slice <= (WorkNum - 1) * share
  BY <1>1, <1>2, <1>4
<1>6. (WorkNum - 1) * share <= share * WorkNum
  BY <1>1, <1>2
<1>7. slice \in Nat /\ (WorkNum - 1) * slice \in Int /\ (WorkNum - 1) * share \in Int
  BY <1>1, <1>2, <1>4
<1> QED
  BY <1>1, <1>2, <1>5, <1>6, <1>7 DEF share, slice

(* What a worker is given: never a negative number of lines. *)
LEMMA LinesForNat ==
  ASSUME TypeOK, HandedOut, cpc = "start"
  PROVE  /\ SliceHeight \in Nat
         /\ LinesFor(i) \in Nat
         /\ Last => pos + LinesFor(i) = height
         /\ ~Last => pos + LinesFor(i) = (i + 1) * SliceHeight
<1>1. height \in Nat /\ i \in Workers /\ pos \in Nat /\ pos = i * SliceHeight
  BY DEF TypeOK, HandedOut
<1>2. SliceHeight \in Nat /\ (WorkNum - 1) * SliceHeight <= height
  BY <1>1, SliceHeightFits DEF SliceHeight
<1>3. WorkNum \in Nat \ {0} /\ i \in Nat
  BY <1>1, PoolAssumption DEF Workers
<1>4. CASE Last
  BY <1>1, <1>2, <1>3, <1>4 DEF Last, LinesFor
<1>5. CASE ~Last
  <2>1. LinesFor(i) = SliceHeight
    BY <1>5 DEF Last, LinesFor
  <2>2. (i + 1) * SliceHeight = i * SliceHeight + SliceHeight
    BY <1>2, <1>3
  <2> QED
    BY <1>1, <1>2, <1>5, <2>1, <2>2
<1> QED
  BY <1>4, <1>5

LEMMA NextWorker ==
  ASSUME TypeOK
  PROVE  (IF Last THEN 0 ELSE i + 1) \in Workers
BY PoolAssumption DEF TypeOK, Workers, Last

LEMMA TypeStep == TypeOK /\ PoolInv /\ [Next]_vars => TypeOK'
<1> SUFFICES ASSUME TypeOK, PoolInv, [Next]_vars PROVE TypeOK'
  OBVIOUS
<1> USE PoolAssumption DEF TypeOK, NoFrame
<1>1. ASSUME NEW k \in Workers, Worker(k) PROVE TypeOK'
  <2> USE DEF WorkerGoes, CallerKeeps
  <2>1. CASE WorkerTop(k) \/ WorkerWake(k)
    BY <2>1 DEF WorkerTop, WorkerWake, Fetch
  <2>2. CASE WorkerTaken(k)
    BY <2>2 DEF WorkerTaken
  <2>3. CASE Convert(k)
    <3>1. Slice(k) \subseteq Nat
      BY DEF Slice
    <3> QED
      BY <2>3, <3>1 DEF Convert
  <2>4. CASE ClearFrame(k)
    <3>1. 0 \in 0..MaxJobs
      OBVIOUS
    <3>2. frame' \in [Workers -> 0..MaxJobs]
      BY <2>4, <3>1 DEF ClearFrame
    <3> QED
      BY <2>4, <3>2 DEF ClearFrame
  <2>5. CASE WorkerSignal(k)
    BY <2>5 DEF WorkerSignal
  <2> QED
    BY <1>1, <2>1, <2>2, <2>3, <2>4, <2>5 DEF Worker
<1>2. ASSUME NEW h \in Heights, codec_convert_mt(h) PROVE TypeOK'
  BY <1>2, SMTT(15) DEF codec_convert_mt, Workers
<1>3. CASE StartWorker
  <2>1. LinesFor(i) \in Nat
    BY <1>3, LinesForNat DEF PoolInv, StartWorker
  <2> QED
    BY <1>3, <2>1, NextWorker DEF StartWorker
<1>4. CASE WaitWorker \/ WaitAgain
  <2>1. AwaitFrame
    BY <1>4 DEF WaitWorker, WaitAgain
  <2>2. i' \in Workers /\ waits' \subseteq Workers
    BY <2>1, NextWorker DEF AwaitFrame
  <2>3. cpc' \in {"idle", "wait", "waiting"}
    BY <2>1 DEF AwaitFrame
  <2> QED
    BY <2>1, <2>2, <2>3 DEF AwaitFrame, jobVars
<1>5. CASE StopWorker \/ JoinWorker
  BY <1>5, NextWorker DEF StopWorker, JoinWorker, jobVars
<1>6. CASE codec_convert_mt_exit
  BY <1>6, SMTT(15) DEF codec_convert_mt_exit, jobVars, Workers
<1>7. CASE Spurious
  BY <1>7 DEF Spurious, jobVars
<1>8. CASE UNCHANGED vars
  BY <1>8 DEF vars, jobVars
<1> QED
  BY <1>1, <1>2, <1>3, <1>4, <1>5, <1>6, <1>7, <1>8 DEF Next, CallerProceeds

LEMMA PoolStep == TypeOK /\ PoolInv /\ [Next]_vars => PoolInv'
<1> SUFFICES ASSUME TypeOK, PoolInv, [Next]_vars PROVE PoolInv'
  OBVIOUS
<1> USE DEF PoolInv, HandedOut, FrameTells, Complete, Started, Slice, SliceHeight,
            Busy, NoFrame
<1>1. ASSUME NEW k \in Workers, Worker(k) PROVE PoolInv'
  <2> USE DEF TypeOK, WorkerGoes, CallerKeeps
  <2>1. CASE WorkerTop(k) \/ WorkerWake(k)
    BY <2>1 DEF WorkerTop, WorkerWake, Fetch
  <2>2. CASE WorkerTaken(k)
    BY <2>2 DEF WorkerTaken
  <2>3. CASE Convert(k)
    BY <2>3 DEF Convert
  <2>4. CASE ClearFrame(k)
    BY <2>4 DEF ClearFrame
  <2>5. CASE WorkerSignal(k)
    BY <2>5 DEF WorkerSignal
  <2> QED
    BY <1>1, <2>1, <2>2, <2>3, <2>4, <2>5 DEF Worker
<1>2. ASSUME NEW h \in Heights, codec_convert_mt(h) PROVE PoolInv'
  <2>1. SliceHeight' \in Nat
    BY <1>2, PoolAssumption, SliceHeightFits DEF codec_convert_mt
  <2>2. HandedOut'
    BY <1>2, <2>1, PoolAssumption DEF codec_convert_mt, TypeOK, Workers
  <2>3. FrameTells' /\ Complete'
    BY <1>2 DEF codec_convert_mt, TypeOK, Workers
  <2> QED
    BY <2>2, <2>3
<1>3. CASE StartWorker
  <2> USE DEF TypeOK
  <2>1. /\ cpc = "start" /\ frame[i] = NoFrame /\ i \in Workers
        /\ frame' = [frame EXCEPT ![i] = job] /\ job # 0
        /\ UNCHANGED <<job, height, rows, wpc, work_stop>>
    BY <1>3 DEF StartWorker, Workers
  <2> PICK w \in Workers : w = i
    BY <2>1
  <2>2. \A l \in Workers \ {w} : Slice(l)' = Slice(l)
    BY <1>3 DEF StartWorker
  <2>3. /\ start'[w] = pos /\ pos' = pos + lines'[w]
        /\ pos \in Nat /\ pos' \in Nat /\ lines'[w] \in Nat
    <3>1. LinesFor(i) \in Nat
      BY <1>3, LinesForNat DEF StartWorker
    <3>2. start'[w] = pos /\ lines'[w] = LinesFor(i) /\ pos' = pos + LinesFor(i)
      BY <1>3 DEF StartWorker
    <3> QED
      BY <3>1, <3>2
  <2>4. \A r \in Int : 0 <= r /\ r <= pos'-1 =>
                        \E k \in Workers : k <= w /\ r \in Slice(k)'
    <3> SUFFICES ASSUME NEW r \in Int, 0 <= r, r <= pos'-1
                 PROVE  \E k \in Workers : k <= w /\ r \in Slice(k)'
      OBVIOUS
    <3>1. CASE r < pos
      <4>1. r \in 0..pos-1
        BY <2>3, <3>1
      <4>2. PICK k \in Workers : k < i /\ r \in Slice(k)
        BY <2>1, <4>1
      <4>3. k \in Int /\ w \in Int /\ k < w
        BY <4>2, PoolAssumption DEF Workers
      <4>4. k # w
        BY <4>3
      <4>5. Slice(k)' = Slice(k)
        BY <2>2, <4>4
      <4> HIDE DEF Slice
      <4> QED
        BY <4>2, <4>3, <4>5
    <3>2. CASE r >= pos
      <4>1. r \in Slice(w)'
        <5> HIDE DEF TypeOK, PoolInv
        <5> QED
          BY <2>3, <3>2
      <4>2. w <= w
        BY PoolAssumption DEF Workers
      <4> HIDE DEF Slice
      <4> QED
        BY <4>1, <4>2
    <3> QED
      BY <2>3, <3>1, <3>2
  <2>5. ASSUME NEW k \in Workers, k # w
        PROVE  /\ frame'[k] = frame[k] /\ Slice(k)' = Slice(k)
               /\ wpc'[k] = wpc[k] /\ work_stop'[k] = work_stop[k]
               /\ Started(k) <=> k < w
    BY <2>1, <2>2, <2>5
  <2>6. /\ frame'[w] # NoFrame
        /\ wpc[w] \notin {"convert", "converted"}
        /\ ~work_stop[w]
    BY <2>1
  <2>7. \A k \in Workers : ~work_stop[k]
    BY <2>1
  <2>8. CASE Last
    <3>1. cpc' = "wait" /\ i' = 0 /\ pos' = height
      BY <1>3, <2>8, LinesForNat DEF StartWorker
    <3>2. HandedOut' /\ Complete'
      <4> HIDE DEF Slice
      <4> QED
        BY <2>1, <2>4, <3>1
    <3>3. \A k \in Workers : k # w => k < w
      BY <2>8, PoolAssumption DEF Last, Workers
    <3>4. FrameTells'
      <4> HIDE DEF Slice, TypeOK
      <4> SUFFICES ASSUME NEW k \in Workers
                   PROVE  /\ Started(k)'
                          /\ frame'[k] = NoFrame => Slice(k)' \subseteq rows
                          /\ ~(k < i')
                          /\ wpc[k] \in {"convert", "converted"} => frame'[k] # NoFrame
                          /\ wpc[k] = "taken" => frame'[k] # NoFrame \/ work_stop[k]
                          /\ wpc[k] = "converted" => Slice(k)' \subseteq rows
                          /\ ~work_stop[k]
        BY <2>1, <3>1
      <4>1. Started(k)' /\ ~(k < i') /\ ~work_stop[k]
        BY <2>7, <3>1, PoolAssumption DEF Workers
      <4>2. CASE k = w
        BY <2>6, <4>1, <4>2
      <4>3. CASE k # w
        BY <2>1, <2>5, <3>3, <4>1, <4>3
      <4> QED
        BY <4>2, <4>3
    <3> QED
      BY <3>2, <3>4
  <2>9. CASE ~Last
    <3>1. cpc' = "start" /\ i' = i + 1 /\ pos' = i' * SliceHeight
      BY <1>3, <2>9, LinesForNat DEF StartWorker
    <3>2. \A k \in Workers : k < i' <=> k <= w
      BY <3>1, PoolAssumption, SMTT(15) DEF Workers
    <3>3. HandedOut' /\ Complete'
      <4>1. SliceHeight' = SliceHeight
        BY <2>1
      <4> HIDE DEF Slice, SliceHeight
      <4> QED
        BY <2>1, <2>4, <3>1, <3>2, <4>1
    <3>4. FrameTells'
      <4> HIDE DEF Slice, TypeOK
      <4> SUFFICES ASSUME NEW k \in Workers
                   PROVE  /\ frame'[k] # NoFrame => k < i'
                          /\ k < i' /\ frame'[k] = NoFrame => Slice(k)' \subseteq rows
                          /\ wpc[k] \in {"convert", "converted"} => frame'[k] # NoFrame
                          /\ wpc[k] = "taken" => frame'[k] # NoFrame \/ work_stop[k]
                          /\ wpc[k] = "converted" => Slice(k)' \subseteq rows
                          /\ ~work_stop[k]
        BY <2>1, <3>1
      <4>1. k <= w <=> k < w \/ k = w
        BY PoolAssumption DEF Workers
      <4>2. CASE k = w
        BY <2>6, <2>7, <3>2, <4>1, <4>2
      <4>3. CASE k # w
        BY <2>1, <2>5, <2>7, <3>2, <4>1, <4>3
      <4> QED
        BY <4>2, <4>3
    <3> QED
      BY <3>3, <3>4
  <2> QED
    BY <2>8, <2>9
<1>4. CASE WaitWorker \/ WaitAgain
  <2>1. cpc \in {"wait", "waiting"} /\ AwaitFrame
    BY <1>4 DEF WaitWorker, WaitAgain
  <2>2. CASE frame[i] # NoFrame
    BY <2>1, <2>2 DEF AwaitFrame, jobVars, TypeOK
  <2>3. CASE frame[i] = NoFrame /\ ~Last
    BY <2>1, <2>3 DEF AwaitFrame, jobVars, TypeOK, Workers
  <2>4. CASE frame[i] = NoFrame /\ Last
    <3>1. \A k \in Workers : frame[k] = NoFrame /\ Slice(k) \subseteq rows
      BY <2>1, <2>4 DEF Last, Workers, TypeOK
    <3>2. 0..height-1 \subseteq rows
      BY <2>1, <3>1
    <3> QED
      BY <2>1, <2>4, <3>1, <3>2 DEF AwaitFrame, jobVars, TypeOK
  <2> QED
    BY <2>2, <2>3, <2>4
<1>5. CASE StopWorker \/ JoinWorker \/ codec_convert_mt_exit
  BY <1>5 DEF StopWorker, JoinWorker, codec_convert_mt_exit, jobVars, TypeOK
<1>6. CASE Spurious
  BY <1>6 DEF Spurious, jobVars, TypeOK
<1>7. CASE UNCHANGED vars
  BY <1>7 DEF vars, jobVars
<1> QED
  BY <1>1, <1>2, <1>3, <1>4, <1>5, <1>6, <1>7 DEF Next, CallerProceeds

LEMMA PoolCorrect == Spec => [](TypeOK /\ PoolInv)
<1>1. Init => TypeOK /\ PoolInv
  BY PoolAssumption
     DEF Init, TypeOK, PoolInv, HandedOut, FrameTells, Complete, Started, Slice,
         Busy, NoFrame, Workers
<1> QED
  BY <1>1, TypeStep, PoolStep, PTL DEF Spec

(* The types hold; in particular no slice gets a negative number of lines. *)
THEOREM TypeCorrect == Spec => []TypeOK
BY PoolCorrect, PTL

(* codec_convert_mt returns only when every row is converted, however the  *)
(* height divides among the workers and however late their signals are.    *)
THEOREM ReturnsComplete == Spec => []PictureComplete
<1>1. PoolInv => PictureComplete
  BY DEF PoolInv, Complete, PictureComplete, Busy
<1> QED
  BY <1>1, PoolCorrect, PTL

(* No worker writes to a frame the caller has taken back. *)
THEOREM NoStraggler == Spec => []NobodyStraggles
<1>1. TypeOK /\ PoolInv => NobodyStraggles
  BY DEF TypeOK, PoolInv, FrameTells, Started, NobodyStraggles, Workers
<1> QED
  BY <1>1, PoolCorrect, PTL

-----------------------------------------------------------------------------
(* What each worker has been given of the picture in work. *)
SliceInv ==
  \A k \in Workers : Started(k) =>
    /\ start[k] = k * SliceHeight
    /\ lines[k] = IF k = WorkNum - 1 THEN height - k * SliceHeight ELSE SliceHeight

(* A multiple leaves no remainder. *)
LEMMA MultipleMod ==
  ASSUME NEW a \in Nat \ {0}, NEW m \in Nat PROVE (a * m) % a = 0
<1> DEFINE d == (a * m) \div a
           r == (a * m) % a
<1>1. a * m \in Nat
  OBVIOUS
<1>2. d \in Int /\ r \in 0..a-1 /\ a * m = a * d + r
  BY <1>1
<1> HIDE DEF d, r
<1>3. a * (m - d) = r
  BY <1>2
<1>4. CASE m - d >= 1
  <2>1. a * (m - d) >= a
    BY <1>2, <1>4
  <2>2. QED BY <1>2, <1>3, <2>1
<1>5. CASE m - d <= -1
  <2>1. a * (m - d) <= -a
    BY <1>2, <1>5
  <2>2. QED BY <1>2, <1>3, <2>1
<1>6. CASE m - d = 0
  BY <1>2, <1>3, <1>6 DEF r
<1>7. QED BY <1>2, <1>4, <1>5, <1>6

(* Rounding down to a multiple gives one. *)
LEMMA RoundDown ==
  ASSUME NEW x \in Nat, NEW a \in Nat \ {0}
  PROVE  \E n \in Nat : x - (x % a) = a * n
<1>1. x % a = x - a * (x \div a) /\ x \div a \in Int
  BY Z3T(30)
<1>2. PICK n \in Int : n = x \div a
  BY <1>1
<1>3. x % a \in 0..a-1
  OBVIOUS
<1>4. PICK r \in 0..a-1 : r = x % a
  BY <1>3
<1>5. x = a * n + r /\ a * n \in Int
  BY <1>1, <1>2, <1>4
<1>6. ASSUME n <= -1 PROVE FALSE
  <2>1. a * n <= -a
    BY <1>6
  <2>2. r \in 0..a-1
    BY <1>4
  <2>3. QED BY <1>5, <2>1, <2>2
<1>7. n \in Nat
  BY <1>6
<1>8. x - r = a * n
  BY <1>5
<1>9. x - (x % a) = a * n
  BY <1>4, <1>8, Zenon
<1>10. QED BY <1>7, <1>9, Zenon

(* A slice but for the last is a multiple of Align. *)
LEMMA SlicesAligned ==
  ASSUME TypeOK, NEW k \in Nat
  PROVE  SliceHeight \in Nat /\ (k * SliceHeight) % Align = 0
<1>1. WorkNum \in Nat \ {0} /\ Align \in Nat \ {0} /\ height \in Nat
  BY PoolAssumption DEF TypeOK
<1>2. PICK share \in Nat : share = height \div WorkNum
  BY <1>1
<1>3. SliceHeight = share - (share % Align)
  BY <1>2 DEF SliceHeight
<1>4. PICK a \in Nat \ {0} : a = Align
  BY <1>1
<1>5. PICK n \in Nat : share - (share % a) = a * n
  BY <1>2, <1>4, RoundDown
<1>6. SliceHeight = a * n /\ a * n \in Nat
  BY <1>3, <1>4, <1>5
<1>7. k * (a * n) = a * (k * n) /\ k * n \in Nat
  BY <1>4, <1>5
<1>8. QED BY <1>4, <1>6, <1>7, MultipleMod

LEMMA SliceStep == TypeOK /\ PoolInv /\ SliceInv /\ [Next]_vars => SliceInv'
<1> SUFFICES ASSUME TypeOK, PoolInv, SliceInv, [Next]_vars PROVE SliceInv'
  OBVIOUS
<1>1. CASE StartWorker
  <2>1. /\ cpc = "start" /\ i \in Workers /\ height' = height
        /\ start' = [start EXCEPT ![i] = pos] /\ lines' = [lines EXCEPT ![i] = LinesFor(i)]
        /\ start \in [Workers -> Nat] /\ lines \in [Workers -> Nat]
    BY <1>1 DEF StartWorker, TypeOK
  <2>2. pos = i * SliceHeight /\ SliceHeight' = SliceHeight
    BY <2>1 DEF PoolInv, HandedOut, SliceHeight
  <2>3. ASSUME NEW k \in Workers, k = i
        PROVE  /\ start'[k] = k * SliceHeight
               /\ lines'[k] = IF k = WorkNum - 1 THEN height - k * SliceHeight ELSE SliceHeight
    BY <2>1, <2>2, <2>3 DEF LinesFor
  <2>4. ASSUME NEW k \in Workers, k # i
        PROVE  start'[k] = start[k] /\ lines'[k] = lines[k]
    BY <2>1, <2>4
  <2>5. ASSUME NEW k \in Workers, Started(k)', k # i PROVE Started(k)
    BY <1>1, <2>1, <2>5, PoolAssumption DEF StartWorker, Started, Last, Workers
  <2>6. QED BY <2>1, <2>2, <2>3, <2>4, <2>5 DEF SliceInv
<1>2. ASSUME NEW h \in Heights, codec_convert_mt(h) PROVE SliceInv'
  BY <1>2 DEF codec_convert_mt, SliceInv, Started, Workers
<1>3. ASSUME UNCHANGED <<start, lines, height>>, \A k \in Workers : Started(k)' => Started(k)
      PROVE  SliceInv'
  BY <1>3 DEF SliceInv, SliceHeight
<1>4. CASE \E k \in Workers : Worker(k)
  <2>1. UNCHANGED <<start, lines, height, cpc, i>>
    BY <1>4 DEF Worker, WorkerTop, WorkerWake, WorkerTaken, Convert, ClearFrame, WorkerSignal,
         Fetch, CallerKeeps
  <2>2. QED BY <1>3, <2>1 DEF Started
<1>5. CASE WaitWorker \/ WaitAgain \/ StopWorker \/ JoinWorker \/ codec_convert_mt_exit
  <2>1. UNCHANGED <<start, lines, height>>
    BY <1>5 DEF WaitWorker, WaitAgain, AwaitFrame, StopWorker, JoinWorker,
         codec_convert_mt_exit, jobVars
  <2>2. cpc' # "start" /\ (cpc' \in {"wait", "waiting"} => cpc \in {"wait", "waiting"})
    BY <1>5 DEF WaitWorker, WaitAgain, AwaitFrame, StopWorker, JoinWorker,
         codec_convert_mt_exit
  <2>3. QED BY <1>3, <2>1, <2>2 DEF Started
<1>6. CASE Spurious \/ UNCHANGED vars
  <2>1. UNCHANGED <<start, lines, height, cpc, i>>
    BY <1>6 DEF Spurious, jobVars, vars
  <2>2. QED BY <1>3, <2>1 DEF Started
<1>7. QED BY <1>1, <1>2, <1>4, <1>5, <1>6 DEF Next, CallerProceeds

(* Workers never write to the same row, and each starts on an aligned one. *)
THEOREM SlicesCorrect == Spec => []SlicesApart
<1>1. Init => SliceInv
  BY PoolAssumption DEF Init, SliceInv, Started, Workers
<1>2. TypeOK /\ PoolInv /\ SliceInv => SlicesApart
  <2> SUFFICES ASSUME TypeOK, PoolInv, SliceInv PROVE SlicesApart
    OBVIOUS
  <2>1. WorkNum \in Nat \ {0} /\ height \in Nat /\ Workers \subseteq Nat
        /\ \A k \in Workers : k <= WorkNum - 1
    BY PoolAssumption DEF TypeOK, Workers
  <2>2. \A k \in Workers : wpc[k] = "convert" => Started(k)
    BY DEF PoolInv, FrameTells
  <2>3. SliceHeight \in Nat /\ (WorkNum - 1) * SliceHeight <= height
    BY <2>1, SliceHeightFits DEF SliceHeight
  <2>4. \A k \in Workers : (k * SliceHeight) % Align = 0
    BY <2>1, SlicesAligned
  <2>5. PICK s \in Nat : s = SliceHeight
    BY <2>3
  <2>6. ASSUME NEW k \in Workers, NEW l \in Workers, k < l
        PROVE  k * s + s <= l * s
    <3>1. k \in Nat /\ l \in Nat /\ k + 1 <= l
      BY <2>1, <2>6
    <3>2. (k + 1) * s <= l * s
      BY <3>1
    <3>3. (k + 1) * s = k * s + s
      BY <3>1
    <3>4. QED BY <3>2, <3>3
  <2>7. WorkNum - 1 \in Workers
    BY PoolAssumption DEF Workers
  <2>8. ASSUME NEW k \in Workers, Started(k)
        PROVE  /\ start[k] = k * s /\ start[k] \in Nat /\ start[k] + lines[k] <= height
               /\ k # WorkNum - 1 => lines[k] = s
    <3>1. k * s \in Nat /\ (WorkNum - 1) * s \in Nat
      BY <2>1
    <3>2. CASE k = WorkNum - 1
      BY <2>1, <2>3, <2>5, <2>8, <3>1, <3>2 DEF SliceInv
    <3>3. CASE k # WorkNum - 1
      <4>1. k < WorkNum - 1
        BY <2>1, <3>3
      <4>2. k * s + s <= (WorkNum - 1) * s
        BY <2>6, <2>7, <4>1
      <4>3. QED BY <2>1, <2>3, <2>5, <2>8, <3>1, <3>3, <4>2 DEF SliceInv
    <3>4. QED BY <3>2, <3>3
  <2>9. lines \in [Workers -> Nat]
    BY DEF TypeOK
  <2>10. ASSUME NEW k \in Workers, NEW l \in Workers, k < l, Started(k), Started(l)
         PROVE  start[k] + lines[k] <= start[l]
    <3>1. k # WorkNum - 1
      BY <2>1, <2>10
    <3>2. QED BY <2>6, <2>8, <2>10, <3>1
  <2>11. ASSUME NEW k \in Workers, NEW l \in Workers, k < l, Started(k), Started(l)
         PROVE  Slice(k) \cap Slice(l) = {}
    BY <2>8, <2>9, <2>10, <2>11 DEF Slice
  <2>12. \A k \in Workers : Started(k) => Slice(k) \subseteq 0..height-1
    BY <2>1, <2>8, <2>9 DEF Slice
  <2>13. \A k \in Workers : Started(k) => start[k] % Align = 0
    BY <2>4, <2>5, <2>8
  <2>14. \A k, l \in Workers : k # l => k < l \/ l < k
    BY <2>1
  <2>15. \A k, l \in Workers : k # l /\ Started(k) /\ Started(l) => Slice(k) \cap Slice(l) = {}
    BY <2>11, <2>14
  <2>16. QED BY <2>2, <2>12, <2>13, <2>15 DEF SlicesApart
<1>3. TypeOK /\ PoolInv /\ SliceInv /\ [Next]_vars => SliceInv'
  BY SliceStep
<1>4. Spec => []SliceInv
  BY <1>1, <1>3, PoolCorrect, PTL DEF Spec
<1>5. QED BY <1>2, <1>4, PoolCorrect, PTL
====
