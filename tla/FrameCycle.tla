----------------------------- MODULE FrameCycle -----------------------------
(***************************************************************************)
(* What the player may rely on when it plays through an asynchronous       *)
(* decoder and its sink: each frame goes round one cycle, one party at a   *)
(* time has it, and the pictures shown follow each other.                  *)
(***************************************************************************)
EXTENDS Naturals

CONSTANT Frames

VARIABLES place,  \* where each frame is
          shown   \* the last picture shown

Arcs == {<<"blank", "decoder">>,    \* given to the decoder
         <<"decoder", "picture">>,  \* back with a picture,
         <<"decoder", "blank">>,    \* one that a seek does not want,
         <<"picture", "blank">>,    \* or one without a time
         <<"picture", "display">>,  \* given to the sink
         <<"display", "blank">>}    \* taken back from it

Init == /\ place = [f \in Frames |-> "display"]
        /\ shown = 0

Move(f) == /\ <<place[f], place'[f]>> \in Arcs
           /\ \A g \in Frames \ {f} : place'[g] = place[g]
           /\ UNCHANGED shown

(* A frame in the display is rendered, after those shown before it. *)
Render(f) == /\ shown' \in Nat /\ shown' > shown
             /\ place[f] = "display"
             /\ UNCHANGED place

Next == \E f \in Frames : Move(f) \/ Render(f)

Spec == Init /\ [][Next]_<<place, shown>>
=============================================================================
