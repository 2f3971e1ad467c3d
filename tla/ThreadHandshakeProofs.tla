----------------------- MODULE ThreadHandshakeProofs -----------------------
(***************************************************************************)
(* For any number of handles and threads: the types hold, and when every   *)
(* handle has at most one master, a master that idled a worker owns it,    *)
(* and the handles implement the abstract gate.                            *)
(***************************************************************************)
EXTENDS ThreadHandshake, TLAPS

LEMMA ControllerOfSetter ==
  ASSUME NEW h \in Handles, NEW c \in Setters[h]
  PROVE  c \in Controllers
  BY DEF Controllers

(* TypeOK is preserved by every step of thread_state_set, thread_state_ack *)
(* and thread_state_ask_pause, and by the worker loop around them.         *)
LEMMA TypeStep == TypeOK /\ [Next]_vars => TypeOK'
<1> SUFFICES ASSUME TypeOK, [Next]_vars PROVE TypeOK'
  OBVIOUS
<1> USE WorkersAreThreads, SettersAssumption
        DEF TypeOK, HandleTypeOK, THREAD_STATES, handleVars
<1>0. Controllers \subseteq Threads
  BY DEF Controllers
<1>1. ASSUME NEW h \in Handles, WorkerAck(h) PROVE TypeOK'
  BY <1>1 DEF WorkerAck, AckEnter, AfterAck
<1>2. ASSUME NEW h \in Handles, WorkerSleepAgain(h) PROVE TypeOK'
  BY <1>2 DEF WorkerSleepAgain, AckSleepAgain
<1>3. ASSUME NEW h \in Handles, WorkerWake(h) PROVE TypeOK'
  BY <1>3 DEF WorkerWake, AckReturn, AfterAck
<1>4. ASSUME NEW h \in Handles, WorkerWork(h) PROVE TypeOK'
  BY <1>4 DEF WorkerWork
<1>5. ASSUME NEW h \in Handles, WorkerExit(h) PROVE TypeOK'
  BY <1>5 DEF WorkerExit
<1>6. ASSUME NEW h \in Handles, NEW c \in Controllers, NEW new \in THREAD_STATES,
             Set(c, h, new)
      PROVE  TypeOK'
  <2>1. HandleTypeOK'
    BY <1>0, <1>6 DEF Set, SetEnter
  <2>2. call' \in [Controllers -> (Handles \X THREAD_STATES) \cup {NoCall}]
    BY <1>6 DEF Set, NoCall
  <2>3. holds' \in [Handles -> SUBSET Controllers] /\ wpc' = wpc
    BY <1>6 DEF Set
  <2> QED
    BY <2>1, <2>2, <2>3
<1>7. ASSUME NEW h \in Handles, NEW c \in Controllers, NEW new \in THREAD_STATES,
             SetWaits(c, h, new)
      PROVE  TypeOK'
  BY <1>0, <1>7 DEF SetWaits, SetSleepAgain
<1>8. ASSUME NEW h \in Handles, NEW c \in Controllers, NEW new \in THREAD_STATES,
             SetReturns(c, h, new)
      PROVE  TypeOK'
  BY <1>8 DEF SetReturns, SetReturn, NoCall
<1>9. ASSUME NEW h \in Handles, NEW c \in Controllers, AskPause(c, h)
      PROVE  TypeOK'
  BY <1>9 DEF AskPause, thread_state_ask_pause
<1>10. ASSUME NEW h \in Handles, NEW t \in Threads, Spurious(t, h)
       PROVE  TypeOK'
  BY <1>10 DEF Spurious, SpuriousWakeup
<1>11. CASE UNCHANGED vars
  BY <1>11 DEF vars
<1> QED
  BY <1>1, <1>2, <1>3, <1>4, <1>5, <1>6, <1>7, <1>8, <1>9, <1>10, <1>11 DEF Next

(* The handles, the workers and the callers stay well typed, whoever sets  *)
(* what: no assumption on the number of masters.                           *)
THEOREM TypeCorrect == Spec => []TypeOK
<1>1. Init => TypeOK
  BY DEF Init, TypeOK, HandleTypeOK, thread_state_init, THREAD_STATES, NoCall
<1> QED
  BY <1>1, TypeStep, PTL DEF Spec

LEMMA HoldStep ==
  ASSUME OneSetter
  PROVE  TypeOK /\ HoldInv /\ [Next]_vars => HoldInv'
<1> SUFFICES ASSUME TypeOK, HoldInv, [Next]_vars PROVE HoldInv'
  OBVIOUS
<1> USE SettersAssumption DEF TypeOK, HandleTypeOK, handleVars
<1>1. ASSUME NEW h \in Handles, WorkerAck(h) PROVE HoldInv'
  BY <1>1 DEF WorkerAck, AckEnter, AfterAck, HoldInv
<1>2. ASSUME NEW h \in Handles, WorkerSleepAgain(h) PROVE HoldInv'
  BY <1>2 DEF WorkerSleepAgain, AckSleepAgain, HoldInv
<1>3. ASSUME NEW h \in Handles, WorkerWake(h) PROVE HoldInv'
  BY <1>3 DEF WorkerWake, AckReturn, AfterAck, HoldInv
<1>4. ASSUME NEW h \in Handles, WorkerWork(h) PROVE HoldInv'
  BY <1>4 DEF WorkerWork, HoldInv
<1>5. ASSUME NEW h \in Handles, WorkerExit(h) PROVE HoldInv'
  BY <1>5 DEF WorkerExit, HoldInv
<1>6. ASSUME NEW h \in Handles, NEW c \in Controllers, NEW new \in THREAD_STATES,
             Set(c, h, new)
      PROVE  HoldInv'
  <2>1. /\ c \in Setters[h] /\ holds[h] \subseteq {c}
        /\ \A d \in Controllers \ {c} : call[d] # NoCall => call[d][1] # h
    BY <1>6 DEF Set, HoldInv, OneSetter
  <2>2. /\ got' = got /\ wpc' = wpc
        /\ asked' = [asked EXCEPT ![h] = new]
        /\ call' = [call EXCEPT ![c] = IF got[h] = new THEN NoCall ELSE <<h, new>>]
        /\ holds' = [holds EXCEPT ![h] = IF got[h] = new /\ new = "idle"
                                         THEN @ \cup {c} ELSE @ \ {c}]
    BY <1>6 DEF Set, SetEnter
  <2>3. holds'[h] \subseteq {c} /\ (holds'[h] # {} => got[h] = new /\ new = "idle")
    BY <2>1, <2>2
  <2>4. call'[c] # NoCall => /\ call'[c] = <<h, new>>
                             /\ holds'[h] = {}
    BY <2>1, <2>2
  <2>5. ASSUME NEW g \in Handles, NEW d \in Controllers, call'[d] # NoCall
        PROVE  /\ call'[d][1] \in Handles
               /\ d \in Setters[call'[d][1]]
               /\ d \notin holds'[call'[d][1]]
               /\ asked'[call'[d][1]] = call'[d][2]
    <3>1. CASE d = c
      BY <2>1, <2>2, <2>4, <2>5, <3>1
    <3>2. CASE d # c
      <4>1. /\ call'[d] = call[d] /\ call[d][1] \in Handles /\ d \in Setters[call[d][1]]
            /\ d \notin holds[call[d][1]] /\ asked[call[d][1]] = call[d][2]
            /\ call[d][1] # h
        BY <2>1, <2>2, <2>5, <3>2 DEF HoldInv
      <4> QED
        BY <2>2, <4>1
    <3> QED
      BY <3>1, <3>2
  <2>6. ASSUME NEW g \in Handles
        PROVE  /\ holds'[g] \subseteq Setters[g]
               /\ wpc'[g] = "work" => got'[g] = "running"
               /\ holds'[g] # {} => got'[g] = "idle" /\ asked'[g] = "idle"
    BY <2>1, <2>2, <2>3 DEF HoldInv
  <2> QED
    BY <2>5, <2>6 DEF HoldInv
<1>7. ASSUME NEW h \in Handles, NEW c \in Controllers, NEW new \in THREAD_STATES,
             SetWaits(c, h, new)
      PROVE  HoldInv'
  BY <1>7 DEF SetWaits, SetSleepAgain, HoldInv
<1>8. ASSUME NEW h \in Handles, NEW c \in Controllers, NEW new \in THREAD_STATES,
             SetReturns(c, h, new)
      PROVE  HoldInv'
  <2>1. /\ c \in Setters[h] /\ asked[h] = new /\ got[h] = new
        /\ \A d \in Controllers \ {c} : call[d] # NoCall => call[d][1] # h
    BY <1>8 DEF SetReturns, SetReturn, Settled, HoldInv, OneSetter, NoCall
  <2>2. /\ UNCHANGED <<got, asked, wpc>>
        /\ call' = [call EXCEPT ![c] = NoCall]
        /\ holds' = [holds EXCEPT ![h] = IF new = "idle" THEN @ \cup {c} ELSE @]
    BY <1>8 DEF SetReturns, SetReturn
  <2> QED
    BY <2>1, <2>2 DEF HoldInv
<1>9. ASSUME NEW h \in Handles, NEW c \in Controllers, AskPause(c, h)
      PROVE  HoldInv'
  <2>1. \A d \in Controllers : call[d] # NoCall => call[d][1] # h
    BY <1>9 DEF AskPause, Free, HoldInv, OneSetter
  <2>2. /\ UNCHANGED <<got, wpc, call, holds>>
        /\ asked' = [asked EXCEPT ![h] = "idle"]
    BY <1>9 DEF AskPause, thread_state_ask_pause
  <2> QED
    BY <2>1, <2>2 DEF HoldInv
<1>10. ASSUME NEW h \in Handles, NEW t \in Threads, Spurious(t, h)
       PROVE  HoldInv'
  BY <1>10 DEF Spurious, SpuriousWakeup, HoldInv
<1>11. CASE UNCHANGED vars
  BY <1>11 DEF vars, HoldInv
<1> QED
  BY <1>1, <1>2, <1>3, <1>4, <1>5, <1>6, <1>7, <1>8, <1>9, <1>10, <1>11 DEF Next

(* With one master per handle, a worker whose master got its IDLE answered *)
(* is outside its work until the master asks again.                        *)
THEOREM IdleMeansParked ==
  ASSUME OneSetter
  PROVE  Spec => []Parked
<1>1. Init => HoldInv
  BY DEF Init, thread_state_init, HoldInv, NoCall
<1>2. TypeOK /\ HoldInv /\ [Next]_vars => HoldInv'
  BY HoldStep
<1>3. HoldInv => Parked
  BY DEF HoldInv, Parked
<1> QED
  BY <1>1, <1>2, <1>3, TypeCorrect, PTL DEF Spec
-----------------------------------------------------------------------------
(* A worker that has left its loop has acknowledged EXIT. *)
GoneInv == \A h \in Handles : wpc[h] = "gone" => got[h] = "exit"

LEMMA GoneStep == TypeOK /\ GoneInv /\ [Next]_vars => GoneInv'
<1> SUFFICES ASSUME TypeOK, GoneInv, [Next]_vars PROVE GoneInv'
  OBVIOUS
<1> USE DEF TypeOK, HandleTypeOK, GoneInv, handleVars
<1>1. ASSUME NEW h \in Handles, WorkerAck(h) PROVE GoneInv'
  BY <1>1 DEF WorkerAck, AckEnter, AfterAck
<1>2. ASSUME NEW h \in Handles,
             WorkerSleepAgain(h) \/ WorkerWake(h) \/ WorkerWork(h) \/ WorkerExit(h)
      PROVE  GoneInv'
  BY <1>2 DEF WorkerSleepAgain, AckSleepAgain, WorkerWake, AckReturn, AfterAck,
     WorkerWork, WorkerExit
<1>3. ASSUME UNCHANGED <<got, wpc>> PROVE GoneInv'
  BY <1>3
<1>4. ASSUME NEW h \in Handles, NEW c \in Controllers, NEW new \in THREAD_STATES,
             Set(c, h, new) \/ SetWaits(c, h, new) \/ SetReturns(c, h, new)
      PROVE  UNCHANGED <<got, wpc>>
  BY <1>4 DEF Set, SetEnter, SetWaits, SetSleepAgain, SetReturns, SetReturn
<1>5. ASSUME NEW h \in Handles, NEW c \in Controllers, AskPause(c, h)
      PROVE  UNCHANGED <<got, wpc>>
  BY <1>5 DEF AskPause, thread_state_ask_pause
<1>6. ASSUME NEW h \in Handles, NEW t \in Threads, Spurious(t, h)
      PROVE  UNCHANGED <<got, wpc>>
  BY <1>6 DEF Spurious, SpuriousWakeup
<1>7. CASE UNCHANGED vars
  BY <1>3, <1>7 DEF vars
<1> QED
  BY <1>1, <1>2, <1>3, <1>4, <1>5, <1>6, <1>7 DEF Next

(* What the promise lets a worker do: enter or exit when nobody owns it. *)
LEMMA WorkerMoves ==
  ASSUME NEW h \in Handles, NEW to, TypeOK, UNCHANGED holds,
         wpc' = [wpc EXCEPT ![h] = to],
         \/ wpc[h] = to
         \/ {wpc[h], to} \subseteq {"top", "ack"}
         \/ wpc[h] \in {"top", "ack"} /\ holds[h] = {} /\ to \in {"work", "gone"}
         \/ wpc[h] = "work" /\ to \in {"top", "ack"}
  PROVE  Gate!Next \/ UNCHANGED Gate!gateVars
<1> USE DEF TypeOK, WorkerIs
<1>1. WorkerIs' = [WorkerIs EXCEPT ![h] =
                     CASE to = "work" -> "in" [] to = "gone" -> "gone" [] OTHER -> "out"]
  OBVIOUS
<1>2. CASE wpc[h] = to \/ {wpc[h], to} \subseteq {"top", "ack"}
  <2>1. UNCHANGED WorkerIs
    BY <1>2
  <2> QED
    BY <2>1 DEF Gate!gateVars
<1>3. CASE wpc[h] \in {"top", "ack"} /\ holds[h] = {} /\ to \in {"work", "gone"}
  <2>1. WorkerIs[h] = "out"
    BY <1>3
  <2>2. Gate!Enter(h) \/ Gate!Exit(h)
    BY <1>1, <1>3, <2>1 DEF Gate!Enter, Gate!Exit, Gate!Move
  <2> QED
    BY <2>2 DEF Gate!Next
<1>4. CASE wpc[h] = "work" /\ to \in {"top", "ack"}
  <2>1. WorkerIs[h] = "in"
    BY <1>4
  <2>2. Gate!Leave(h)
    BY <1>1, <1>4, <2>1 DEF Gate!Leave, Gate!Move
  <2> QED
    BY <2>2 DEF Gate!Next
<1> QED
  BY <1>2, <1>3, <1>4

(* What it lets a master do: own a worker that is out of its work, and     *)
(* give it back.                                                           *)
LEMMA MasterMoves ==
  ASSUME NEW h \in Handles, NEW c \in Controllers, TypeOK, UNCHANGED wpc,
         \/ /\ wpc[h] \in {"top", "ack"}
            /\ holds' = [holds EXCEPT ![h] = @ \cup {c}]
         \/ holds' = [holds EXCEPT ![h] = @ \ {c}]
  PROVE  Gate!Next
<1> USE DEF TypeOK, WorkerIs
<1>1. CASE wpc[h] \in {"top", "ack"} /\ holds' = [holds EXCEPT ![h] = @ \cup {c}]
  <2>1. WorkerIs[h] = "out" /\ UNCHANGED WorkerIs
    BY <1>1
  <2>2. Gate!Take(h, c)
    BY <1>1, <2>1 DEF Gate!Take
  <2> QED
    BY <2>2 DEF Gate!Next
<1>2. CASE holds' = [holds EXCEPT ![h] = @ \ {c}]
  <2>1. holds' = [g \in Handles |-> IF g \in {h} THEN holds[g] \ {c} ELSE holds[g]]
    BY <1>2
  <2>2. Gate!Give({h}, c)
    BY <2>1 DEF Gate!Give
  <2> QED
    BY <2>2 DEF Gate!Next
<1> QED
  BY <1>1, <1>2

LEMMA GateStep ==
  ASSUME TypeOK, HoldInv, GoneInv, [Next]_vars
  PROVE  [Gate!Next]_(Gate!gateVars)
<1> DEFINE Goal == Gate!Next \/ UNCHANGED Gate!gateVars
<1>0. TypeOK
  OBVIOUS
<1>1. ASSUME NEW h \in Handles, WorkerAck(h) PROVE Goal
  <2> DEFINE to == IF asked[h] = "idle" THEN "ack"
                   ELSE IF asked[h] = "running" THEN "work" ELSE "top"
  <2>1. wpc' = [wpc EXCEPT ![h] = to] /\ UNCHANGED holds /\ wpc[h] = "top"
    BY <1>1 DEF WorkerAck, AckEnter, AfterAck, TypeOK, HandleTypeOK
  <2>2. to \in {"top", "ack"} \/ (holds[h] = {} /\ to = "work")
    <3>1. asked[h] = "running" => holds[h] = {}
      BY DEF HoldInv
    <3> QED
      BY <3>1
  <2> QED
    BY <2>1, <2>2, WorkerMoves
<1>2. ASSUME NEW h \in Handles, WorkerSleepAgain(h) PROVE Goal
  BY <1>2 DEF WorkerSleepAgain, WorkerIs, Gate!gateVars
<1>3. ASSUME NEW h \in Handles, WorkerWake(h) PROVE Goal
  <2> DEFINE to == IF got[h] = "running" THEN "work" ELSE "top"
  <2>1. /\ wpc' = [wpc EXCEPT ![h] = to] /\ UNCHANGED holds
        /\ wpc[h] = "ack" /\ holds[h] = {}
    BY <1>3 DEF WorkerWake, AckReturn, AfterAck, HoldInv, handleVars
  <2>2. to \in {"top", "work"}
    OBVIOUS
  <2> QED
    BY <2>1, <2>2, WorkerMoves
<1>4. ASSUME NEW h \in Handles, WorkerWork(h) PROVE Goal
  <2>1. wpc' = [wpc EXCEPT ![h] = "top"] /\ wpc[h] = "work" /\ UNCHANGED holds
    BY <1>4 DEF WorkerWork
  <2> QED
    BY <2>1, WorkerMoves
<1>5. ASSUME NEW h \in Handles, WorkerExit(h) PROVE Goal
  <2>1. /\ wpc' = [wpc EXCEPT ![h] = "gone"] /\ wpc[h] = "top" /\ UNCHANGED holds
        /\ holds[h] = {}
    BY <1>5 DEF WorkerExit, HoldInv
  <2> QED
    BY <2>1, WorkerMoves
<1>6. ASSUME NEW h \in Handles, NEW c \in Controllers, NEW new \in THREAD_STATES,
             Set(c, h, new)
      PROVE  Goal
  <2>1. /\ UNCHANGED wpc
        /\ holds' = [holds EXCEPT ![h] = IF got[h] = new /\ new = "idle"
                                         THEN @ \cup {c} ELSE @ \ {c}]
    BY <1>6 DEF Set
  <2>2. got[h] = "idle" => wpc[h] \in {"top", "ack"}
    BY DEF TypeOK, HoldInv, GoneInv
  <2> QED
    BY <2>1, <2>2, MasterMoves
<1>7. ASSUME NEW h \in Handles, NEW c \in Controllers, NEW new \in THREAD_STATES,
             SetWaits(c, h, new)
      PROVE  Goal
  BY <1>7 DEF SetWaits, WorkerIs, Gate!gateVars
<1>8. ASSUME NEW h \in Handles, NEW c \in Controllers, NEW new \in THREAD_STATES,
             SetReturns(c, h, new)
      PROVE  Goal
  <2>1. /\ UNCHANGED wpc
        /\ holds' = [holds EXCEPT ![h] = IF new = "idle" THEN @ \cup {c} ELSE @]
    BY <1>8 DEF SetReturns
  <2>2. CASE new = "idle"
    <3>1. got[h] = "idle"
      BY <1>8, <2>2 DEF SetReturns, SetReturn, Settled, HoldInv, NoCall
    <3>2. wpc[h] \in {"top", "ack"}
      BY <3>1 DEF TypeOK, HoldInv, GoneInv
    <3> QED
      BY <2>1, <2>2, <3>2, MasterMoves
  <2>3. CASE new # "idle"
    <3>1. UNCHANGED holds
      BY <2>1, <2>3 DEF TypeOK
    <3> QED
      BY <2>1, <3>1 DEF WorkerIs, Gate!gateVars
  <2> QED
    BY <2>2, <2>3
<1>9. ASSUME NEW h \in Handles, NEW c \in Controllers, AskPause(c, h) PROVE Goal
  BY <1>9 DEF AskPause, WorkerIs, Gate!gateVars
<1>10. ASSUME NEW h \in Handles, NEW t \in Threads, Spurious(t, h) PROVE Goal
  BY <1>10 DEF Spurious, WorkerIs, Gate!gateVars
<1>11. CASE UNCHANGED vars
  BY <1>11 DEF vars, WorkerIs, Gate!gateVars
<1> QED
  BY <1>1, <1>2, <1>3, <1>4, <1>5, <1>6, <1>7, <1>8, <1>9, <1>10, <1>11 DEF Next

(* With one master per handle, thread_state_set and thread_state_ack keep  *)
(* the handles' promise: no word, lock or wakeup matters to the callers    *)
(* beyond it.                                                              *)
THEOREM HandshakeGated ==
  ASSUME OneSetter
  PROVE  Spec => GateSpec
<1>1. Init => HoldInv /\ GoneInv /\ Gate!Init
  BY DEF Init, thread_state_init, HoldInv, GoneInv, NoCall, Gate!Init, WorkerIs
<1>2. TypeOK /\ HoldInv /\ [Next]_vars => HoldInv'
  BY HoldStep
<1>3. TypeOK /\ HoldInv /\ GoneInv /\ [Next]_vars => [Gate!Next]_(Gate!gateVars)
  BY GateStep
<1> QED
  BY <1>1, <1>2, <1>3, TypeCorrect, GoneStep, PTL DEF Spec, GateSpec, Gate!Spec

(* The promise is enough for what its callers want of it: a worker that    *)
(* somebody owns is out of its work.                                       *)
THEOREM GateKeepsApart == Gate!Spec => []Gate!Apart
<1> DEFINE GateType == /\ WorkerIs \in [Handles -> {"out", "in", "gone"}]
                       /\ holds \in [Handles -> SUBSET Controllers]
                       /\ Gate!Apart
<1>1. Gate!Init => GateType
  BY DEF Gate!Init, Gate!Apart
<1>2. GateType /\ [Gate!Next]_(Gate!gateVars) => GateType'
  <2> SUFFICES ASSUME GateType, [Gate!Next]_(Gate!gateVars) PROVE GateType'
    OBVIOUS
  <2>1. ASSUME NEW h \in Handles, Gate!Enter(h) \/ Gate!Leave(h) \/ Gate!Exit(h)
        PROVE  GateType'
    BY <2>1 DEF Gate!Enter, Gate!Leave, Gate!Exit, Gate!Move, Gate!Apart
  <2>2. ASSUME NEW h \in Handles, NEW c \in Controllers, Gate!Take(h, c)
        PROVE  GateType'
    BY <2>2 DEF Gate!Take, Gate!Apart
  <2>3. ASSUME NEW H \in SUBSET Handles, NEW c \in Controllers, Gate!Give(H, c)
        PROVE  GateType'
    BY <2>3 DEF Gate!Give, Gate!Apart
  <2>4. CASE UNCHANGED Gate!gateVars
    BY <2>4 DEF Gate!gateVars, Gate!Apart
  <2> QED
    BY <2>1, <2>2, <2>3, <2>4 DEF Gate!Next
<1>3. GateType => Gate!Apart
  OBVIOUS
<1> QED
  BY <1>1, <1>2, <1>3, PTL DEF Gate!Spec
=============================================================================
