---------------------------- MODULE MediaStream ----------------------------
(***************************************************************************)
(* What a media player makes of the one stream it has, whoever its threads *)
(* are and however they take turns: it is entered only while it is there,  *)
(* deleted only while nobody is inside, and sought to positions that were  *)
(* asked for, each at most once and none after one that was asked later.   *)
(***************************************************************************)
EXTENDS Naturals

CONSTANTS Clients   \* who may be inside the stream

VARIABLES there,    \* is there a stream?
          inside,   \* who is inside of it
          asked,    \* how many seeks were asked for
          at        \* the seek that it was last sought to

streamVars == <<there, inside, asked, at>>

Init == there = FALSE /\ inside = {} /\ asked = 0 /\ at = 0

(* Who creates the stream goes on inside of it and opens it. *)
Create(c) ==
  /\ ~there /\ inside = {}
  /\ there' = TRUE /\ inside' = {c}
  /\ UNCHANGED <<asked, at>>

Enter(c) ==
  /\ there /\ c \notin inside
  /\ inside' = inside \cup {c}
  /\ UNCHANGED <<there, asked, at>>

Leave(c) ==
  /\ c \in inside
  /\ inside' = inside \ {c}
  /\ UNCHANGED <<there, asked, at>>

Ask == there /\ asked' = asked + 1 /\ UNCHANGED <<there, inside, at>>

(* A seek ends: later ones may have been asked for. *)
Seek(c) ==
  /\ there /\ c \in inside
  /\ at' \in at + 1..asked
  /\ inside' = inside \ {c}
  /\ UNCHANGED <<there, asked>>

Close == there /\ inside = {} /\ there' = FALSE /\ UNCHANGED <<inside, asked, at>>

Next == \/ \E c \in Clients : Create(c) \/ Enter(c) \/ Leave(c) \/ Seek(c)
        \/ Ask \/ Close

Spec == Init /\ [][Next]_streamVars
=============================================================================
