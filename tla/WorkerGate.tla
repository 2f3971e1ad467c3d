----------------------------- MODULE WorkerGate -----------------------------
(***************************************************************************)
(* What a thread state handle promises to its callers, without the two     *)
(* words, the condition variable and the wait loops behind it: a worker    *)
(* enters its work only when nobody owns it, a master comes to own it only *)
(* while it is out of its work, and one that has an owner does not exit.   *)
(***************************************************************************)
CONSTANTS Workers, Masters

VARIABLES worker,  \* where each worker is: "out" of its work, "in" it, "gone"
          owners   \* the masters that own it: asked for IDLE and were answered

gateVars == <<worker, owners>>

Init == worker = [h \in Workers |-> "out"] /\ owners = [h \in Workers |-> {}]

Move(h, there) == worker' = [worker EXCEPT ![h] = there] /\ UNCHANGED owners

Enter(h) == worker[h] = "out" /\ owners[h] = {} /\ Move(h, "in")
Leave(h) == worker[h] = "in" /\ Move(h, "out")
Exit(h)  == worker[h] = "out" /\ owners[h] = {} /\ Move(h, "gone")

Take(h, c) ==
  /\ worker[h] = "out"
  /\ owners' = [owners EXCEPT ![h] = @ \cup {c}]
  /\ UNCHANGED worker

(* A master may give back several workers at a time. *)
Give(H, c) ==
  /\ owners' = [h \in Workers |-> IF h \in H THEN owners[h] \ {c} ELSE owners[h]]
  /\ UNCHANGED worker

Next ==
  \/ \E h \in Workers : Enter(h) \/ Leave(h) \/ Exit(h)
  \/ \E h \in Workers, c \in Masters : Take(h, c)
  \/ \E H \in SUBSET Workers, c \in Masters : Give(H, c)

Spec == Init /\ [][Next]_gateVars

(* Who owns a worker has what it works on to itself. *)
Apart == \A h \in Workers : owners[h] # {} => worker[h] = "out"
=============================================================================
