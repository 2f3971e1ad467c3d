------------------------- MODULE AsyncDecoderProofs -------------------------
(***************************************************************************)
(* Proofs about AsyncDecoder, for any number of frames, buffers, inputs    *)
(* and seeks: every frame and every buffer is in exactly one place, the    *)
(* pictures are shown in order, with times that are not ahead of them, and *)
(* the player implements FrameCycle.                                       *)
(***************************************************************************)
EXTENDS AsyncDecoder, TLAPS

(* A thread has a frame in hand exactly between taking and putting it. *)
HandInv == /\ hand["dec"] # 0 <=> dpc \in {"release", "read", "got"}
           /\ hand["sink"] # 0 <=> spc \in {"pace", "render", "drop", "done"}

(* output_frames is called with a frame to output. *)
ShowInv == epc = "show" => q["disp"] # <<>>

(* A thread that is not at its wait says so: what a flush relies on. *)
FlagInv ==
  /\ dpc \in {"release", "read", "got"} => "reading" \in state
  /\ spc \in {"pace", "render", "drop", "done"} => "rendering" \in state

(* A frame that has a buffer names it, and the sink thread's has one. *)
HandleInv ==
  /\ \A f \in Frames : handle[f] = NoHandle \/ handle[f].idx \in Idx
  /\ got.pic # 0 => got.idx \in Idx
  /\ spc \in {"pace", "render", "drop"} => handle[hand["sink"]].idx \in Idx

(* The inductive invariant behind the types and OnePlace. *)
PlaceInv == TypeOK /\ OnePlace /\ HandInv /\ ShowInv /\ FlagInv /\ HandleInv

-----------------------------------------------------------------------------
(* Elements of a sequence, as InQueue and OnePlace speak of them. *)
Has(s, f)   == \E i \in DOMAIN s : s[i] = f
Distinct(s) == \A i, j \in DOMAIN s : s[i] = s[j] => i = j

LEMMA TailHas ==
  ASSUME NEW S, NEW s \in Seq(S), s # <<>>, Distinct(s)
  PROVE  /\ Tail(s) \in Seq(S) /\ Head(s) \in S /\ Has(s, Head(s)) /\ Distinct(Tail(s))
         /\ \A f : Has(Tail(s), f) <=> Has(s, f) /\ f # Head(s)
<1>1. Len(s) \in Nat \ {0} /\ DOMAIN s = 1..Len(s) /\ Head(s) = s[1]
  OBVIOUS
<1>2. /\ Tail(s) \in Seq(S) /\ Len(Tail(s)) = Len(s) - 1
      /\ \A i \in 1..Len(s) - 1 : Tail(s)[i] = s[i + 1]
  OBVIOUS
<1>3. DOMAIN Tail(s) = 1..Len(s) - 1
  BY <1>1, <1>2
<1>4. Head(s) \in S /\ Has(s, Head(s))
  BY <1>1 DEF Has
<1>5. Distinct(Tail(s))
  <2> SUFFICES ASSUME NEW i \in 1..Len(s) - 1, NEW j \in 1..Len(s) - 1,
                      Tail(s)[i] = Tail(s)[j]
               PROVE  i = j
    BY <1>3 DEF Distinct
  <2>1. i + 1 \in DOMAIN s /\ j + 1 \in DOMAIN s /\ s[i + 1] = s[j + 1]
    BY <1>1, <1>2
  <2>2. i + 1 = j + 1
    BY <2>1 DEF Distinct
  <2> QED BY <2>2
<1>6. ASSUME NEW f, Has(Tail(s), f) PROVE Has(s, f) /\ f # Head(s)
  <2>1. PICK i \in 1..Len(s) - 1 : Tail(s)[i] = f
    BY <1>3, <1>6 DEF Has
  <2>2. i + 1 \in DOMAIN s /\ s[i + 1] = f /\ 1 \in DOMAIN s /\ i + 1 # 1
    BY <1>1, <1>2, <2>1
  <2> QED BY <1>1, <2>2 DEF Has, Distinct
<1>7. ASSUME NEW f, Has(s, f), f # Head(s) PROVE Has(Tail(s), f)
  <2>1. PICK i \in DOMAIN s : s[i] = f
    BY <1>7 DEF Has
  <2>2. i # 1 /\ i - 1 \in 1..Len(s) - 1
    BY <1>1, <1>7, <2>1
  <2>3. Tail(s)[i - 1] = f
    BY <1>1, <1>2, <2>1, <2>2
  <2> QED BY <1>3, <2>2, <2>3 DEF Has
<1> QED BY <1>2, <1>4, <1>5, <1>6, <1>7

LEMMA AppendHas ==
  ASSUME NEW S, NEW s \in Seq(S), NEW f \in S, Distinct(s), ~Has(s, f)
  PROVE  /\ Append(s, f) \in Seq(S) /\ Distinct(Append(s, f))
         /\ \A g : Has(Append(s, f), g) <=> Has(s, g) \/ g = f
<1>1. /\ Len(s) \in Nat /\ DOMAIN s = 1..Len(s)
      /\ Append(s, f) \in Seq(S) /\ DOMAIN Append(s, f) = 1..Len(s) + 1
      /\ Append(s, f)[Len(s) + 1] = f
      /\ \A i \in 1..Len(s) : Append(s, f)[i] = s[i]
  OBVIOUS
<1>2. Distinct(Append(s, f))
  <2> SUFFICES ASSUME NEW i \in 1..Len(s) + 1, NEW j \in 1..Len(s) + 1,
                      Append(s, f)[i] = Append(s, f)[j]
               PROVE  i = j
    BY <1>1 DEF Distinct
  <2>1. CASE i = Len(s) + 1 /\ j \in 1..Len(s)
    BY <1>1, <2>1 DEF Has
  <2>2. CASE j = Len(s) + 1 /\ i \in 1..Len(s)
    BY <1>1, <2>2 DEF Has
  <2>3. CASE i \in 1..Len(s) /\ j \in 1..Len(s)
    BY <1>1, <2>3 DEF Distinct
  <2> QED BY <1>1, <2>1, <2>2, <2>3
<1>3. ASSUME NEW g PROVE Has(Append(s, f), g) <=> Has(s, g) \/ g = f
  <2>1. 1..Len(s) + 1 = 1..Len(s) \cup {Len(s) + 1}
    BY <1>1
  <2> QED BY <1>1, <2>1 DEF Has
<1> QED BY <1>1, <1>2, <1>3

LEMMA ConsHas ==
  ASSUME NEW S, NEW s \in Seq(S), NEW f \in S, Distinct(s), ~Has(s, f)
  PROVE  /\ <<f>> \o s \in Seq(S) /\ Distinct(<<f>> \o s)
         /\ \A g : Has(<<f>> \o s, g) <=> Has(s, g) \/ g = f
<1> DEFINE t == <<f>> \o s
<1>1. /\ Len(s) \in Nat /\ DOMAIN s = 1..Len(s)
      /\ t \in Seq(S) /\ DOMAIN t = 1..Len(s) + 1
      /\ t[1] = f
      /\ \A i \in 2..Len(s) + 1 : t[i] = s[i - 1]
  OBVIOUS
<1> HIDE DEF t
<1>2. \A i \in 2..Len(s) + 1 : i - 1 \in DOMAIN s
  BY <1>1
<1>3. Distinct(t)
  <2> SUFFICES ASSUME NEW i \in 1..Len(s) + 1, NEW j \in 1..Len(s) + 1, t[i] = t[j]
               PROVE  i = j
    BY <1>1 DEF Distinct
  <2>1. CASE i = 1 /\ j \in 2..Len(s) + 1
    BY <1>1, <1>2, <2>1 DEF Has
  <2>2. CASE j = 1 /\ i \in 2..Len(s) + 1
    BY <1>1, <1>2, <2>2 DEF Has
  <2>3. CASE i \in 2..Len(s) + 1 /\ j \in 2..Len(s) + 1
    <3>1. i - 1 = j - 1
      BY <1>1, <1>2, <2>3 DEF Distinct
    <3> QED BY <1>1, <3>1
  <2> QED BY <1>1, <2>1, <2>2, <2>3
<1>4. ASSUME NEW g, Has(t, g) PROVE Has(s, g) \/ g = f
  <2>1. PICK i \in 1..Len(s) + 1 : t[i] = g
    BY <1>1, <1>4 DEF Has
  <2>2. i = 1 \/ i \in 2..Len(s) + 1
    BY <1>1
  <2> QED BY <1>1, <1>2, <2>1, <2>2 DEF Has
<1>5. ASSUME NEW g, Has(s, g) PROVE Has(t, g)
  <2>1. PICK i \in 1..Len(s) : s[i] = g
    BY <1>1, <1>5 DEF Has
  <2>2. i + 1 \in 2..Len(s) + 1 /\ i + 1 \in DOMAIN t /\ (i + 1) - 1 = i
    BY <1>1
  <2> QED BY <1>1, <2>1, <2>2 DEF Has
<1>6. Has(t, f)
  <2>1. 1 \in DOMAIN t
    BY <1>1
  <2> QED BY <1>1, <2>1 DEF Has
<1>7. QED BY <1>1, <1>3, <1>4, <1>5, <1>6 DEF t

-----------------------------------------------------------------------------
(* OnePlace by queues and elements. *)
Spot ==
  /\ \A n \in Queues : Distinct(q[n])
  /\ \A f \in Frames : (\E n \in Queues : Has(q[n], f)) \/ (\E h \in Hands : hand[h] = f)
  /\ \A f \in Frames : \A m, n \in Queues : Has(q[m], f) /\ Has(q[n], f) => m = n
  /\ \A f \in Frames : \A n \in Queues, h \in Hands : hand[h] = f => ~Has(q[n], f)
  /\ \A f \in Frames : ~(hand["dec"] = f /\ hand["sink"] = f)

LEMMA SpotIsOnePlace ==
  ASSUME FrameType PROVE OnePlace <=> Spot
<1>1. \A n \in Queues : q[n] \in Seq(Frames)
  BY DEF FrameType
<1>2. \A n \in Queues : \A i \in DOMAIN q[n] : q[n][i] \in Frames
  BY <1>1
<1>3. ASSUME OnePlace PROVE Spot
  <2>1. \A n \in Queues : Distinct(q[n])
    BY <1>2, <1>3 DEF OnePlace, Distinct
  <2>2. QED BY <1>3, <2>1 DEF OnePlace, Spot, InQueue, Has
<1>4. ASSUME Spot PROVE OnePlace
  BY <1>4 DEF OnePlace, Spot, InQueue, Has, Distinct
<1>5. QED BY <1>3, <1>4

(* The ways in which a step may treat queues and hands. *)
Moves == \E from, to \in Queues :
  from # to /\ q[from] # <<>> /\ Move(from, to) /\ hand' = hand
Takes == \E n \in Queues, h \in Hands : q[n] # <<>> /\ hand[h] = 0 /\ Take(n, h)
Puts  == \E n \in Queues, h \in Hands : hand[h] # 0 /\ (Put(h, n) \/ PutHead(h, n))

(* Each of them keeps every frame in one place. *)
LEMMA MoveKeeps ==
  ASSUME FrameType, Spot, Moves
  PROVE  /\ q' \in [Queues -> Seq(Frames)] /\ hand' \in [Hands -> Frames \cup {0}]
         /\ Spot'
<1>1. PICK from \in Queues, to \in Queues :
        from # to /\ q[from] # <<>> /\ Move(from, to) /\ hand' = hand
  BY DEF Moves
<1> DEFINE x == Head(q[from])
<1>2. q[from] \in Seq(Frames) /\ q[to] \in Seq(Frames) /\ Distinct(q[from]) /\ Distinct(q[to])
  BY DEF FrameType, Spot
<1>3. /\ Tail(q[from]) \in Seq(Frames) /\ x \in Frames /\ Has(q[from], x)
      /\ Distinct(Tail(q[from]))
      /\ \A f : Has(Tail(q[from]), f) <=> Has(q[from], f) /\ f # x
  BY <1>1, <1>2, TailHas
<1>4. ~Has(q[to], x)
  BY <1>1, <1>3 DEF Spot
<1>5. /\ Append(q[to], x) \in Seq(Frames) /\ Distinct(Append(q[to], x))
      /\ \A g : Has(Append(q[to], x), g) <=> Has(q[to], g) \/ g = x
  BY <1>2, <1>3, <1>4, AppendHas
<1>6. /\ q'[from] = Tail(q[from]) /\ q'[to] = Append(q[to], x)
      /\ \A n \in Queues \ {from, to} : q'[n] = q[n]
      /\ DOMAIN q' = Queues /\ q' = [n \in Queues |-> q'[n]]
  BY <1>1 DEF Move, FrameType
<1>7. q' \in [Queues -> Seq(Frames)]
  BY <1>3, <1>5, <1>6, ZenonT(30) DEF FrameType
<1> HIDE DEF x
<1>8. \A n \in Queues : Distinct(q'[n])
  BY <1>3, <1>5, <1>6 DEF Spot
<1>9. \A n \in Queues : \A f : Has(q'[n], f) <=>
        IF f = x THEN n = to ELSE Has(q[n], f)
  <2>1. \A n \in Queues : Has(q[n], x) => n = from
    BY <1>3 DEF Spot
  <2>2. \A f : Has(q'[from], f) <=> IF f = x THEN from = to ELSE Has(q[from], f)
    BY <1>1, <1>3, <1>6
  <2>3. \A f : Has(q'[to], f) <=> IF f = x THEN to = to ELSE Has(q[to], f)
    BY <1>5, <1>6
  <2>4. \A n \in Queues \ {from, to} :
          \A f : Has(q'[n], f) <=> IF f = x THEN n = to ELSE Has(q[n], f)
    BY <1>6, <2>1
  <2>5. QED BY <2>2, <2>3, <2>4
<1>10. Spot'
  <2>1. ASSUME NEW f \in Frames
        PROVE  (\E m \in Queues : Has(q'[m], f)) \/ (\E g \in Hands : hand'[g] = f)
    <3>1. CASE f = x
      BY <1>9, <3>1
    <3>2. CASE f # x /\ \E m \in Queues : Has(q[m], f)
      BY <1>9, <3>2
    <3>3. CASE \E g \in Hands : hand[g] = f
      BY <1>1, <3>3
    <3>4. QED BY <3>1, <3>2, <3>3 DEF Spot
  <2>2. \A f \in Frames : \A k, m \in Queues : Has(q'[k], f) /\ Has(q'[m], f) => k = m
    BY <1>9 DEF Spot
  <2>3. ASSUME NEW f \in Frames, NEW m \in Queues, NEW g \in Hands, hand'[g] = f
        PROVE  ~Has(q'[m], f)
    <3>1. hand[g] = f /\ f # x
      BY <1>1, <1>3, <2>3 DEF Spot
    <3>2. QED BY <1>9, <3>1 DEF Spot
  <2>4. \A f \in Frames : ~(hand'["dec"] = f /\ hand'["sink"] = f)
    BY <1>1 DEF Spot
  <2>5. QED BY <1>8, <2>1, <2>2, <2>3, <2>4 DEF Spot
<1>11. hand' \in [Hands -> Frames \cup {0}]
  BY <1>1 DEF FrameType
<1>12. QED BY <1>7, <1>10, <1>11

LEMMA TakeKeeps ==
  ASSUME FrameType, Spot, Takes
  PROVE  /\ q' \in [Queues -> Seq(Frames)] /\ hand' \in [Hands -> Frames \cup {0}]
         /\ Spot'
<1>1. PICK n \in Queues, h \in Hands : q[n] # <<>> /\ hand[h] = 0 /\ Take(n, h)
  BY DEF Takes
<1> DEFINE x == Head(q[n])
<1>2. q[n] \in Seq(Frames) /\ Distinct(q[n])
  BY DEF FrameType, Spot
<1>3. /\ Tail(q[n]) \in Seq(Frames) /\ x \in Frames /\ Has(q[n], x)
      /\ Distinct(Tail(q[n]))
      /\ \A f : Has(Tail(q[n]), f) <=> Has(q[n], f) /\ f # x
  BY <1>1, <1>2, TailHas
<1>4. /\ q' = [q EXCEPT ![n] = Tail(q[n])] /\ hand' = [hand EXCEPT ![h] = x]
  BY <1>1 DEF Take
<1>5. /\ q'[n] = Tail(q[n]) /\ \A m \in Queues \ {n} : q'[m] = q[m]
      /\ hand'[h] = x /\ \A g \in Hands \ {h} : hand'[g] = hand[g]
  BY <1>4 DEF FrameType
<1>6. q' \in [Queues -> Seq(Frames)] /\ hand' \in [Hands -> Frames \cup {0}]
  BY <1>3, <1>4 DEF FrameType
<1> HIDE DEF x
<1>7. \A m \in Queues : Distinct(q'[m])
  BY <1>3, <1>5 DEF Spot
<1>8. \A m \in Queues : \A f : Has(q'[m], f) <=> Has(q[m], f) /\ f # x
  <2>1. \A m \in Queues : Has(q[m], x) => m = n
    BY <1>3 DEF Spot
  <2>2. QED BY <1>3, <1>5, <2>1
<1>9. \A g \in Hands \ {h} : hand[g] # x
  BY <1>3 DEF Spot
<1>10. Spot'
  <2>1. ASSUME NEW f \in Frames, f = x
        PROVE  \E g \in Hands : hand'[g] = f
    BY <1>5, <2>1
  <2>2. ASSUME NEW f \in Frames, f # x
        PROVE  (\E m \in Queues : Has(q'[m], f)) \/ (\E g \in Hands : hand'[g] = f)
    <3>1. CASE \E m \in Queues : Has(q[m], f)
      BY <1>8, <2>2, <3>1
    <3>2. CASE \E g \in Hands : hand[g] = f
      <4>1. PICK g \in Hands : hand[g] = f
        BY <3>2
      <4>2. g # h
        BY <1>1, <4>1 DEF Frames
      <4>3. QED BY <1>5, <4>1, <4>2
    <3>3. QED BY <3>1, <3>2 DEF Spot
  <2>3. \A f \in Frames : \A k, m \in Queues : Has(q'[k], f) /\ Has(q'[m], f) => k = m
    BY <1>8 DEF Spot
  <2>4. \A f \in Frames : \A m \in Queues, g \in Hands : hand'[g] = f => ~Has(q'[m], f)
    BY <1>5, <1>8 DEF Spot
  <2>5. \A f \in Frames : ~(hand'["dec"] = f /\ hand'["sink"] = f)
    BY <1>1, <1>5, <1>9 DEF Spot, Hands
  <2>6. QED BY <1>7, <2>1, <2>2, <2>3, <2>4, <2>5 DEF Spot
<1>11. QED BY <1>6, <1>10

LEMMA PutKeeps ==
  ASSUME FrameType, Spot, Puts
  PROVE  /\ q' \in [Queues -> Seq(Frames)] /\ hand' \in [Hands -> Frames \cup {0}]
         /\ Spot'
<1>1. PICK n \in Queues, h \in Hands : hand[h] # 0 /\ (Put(h, n) \/ PutHead(h, n))
  BY DEF Puts
<1> DEFINE x == hand[h]
<1>2. q[n] \in Seq(Frames) /\ Distinct(q[n]) /\ x \in Frames /\ ~Has(q[n], x)
  BY <1>1 DEF FrameType, Spot
<1>3. /\ Append(q[n], x) \in Seq(Frames) /\ Distinct(Append(q[n], x))
      /\ \A g : Has(Append(q[n], x), g) <=> Has(q[n], g) \/ g = x
  BY <1>2, AppendHas
<1>4. /\ <<x>> \o q[n] \in Seq(Frames) /\ Distinct(<<x>> \o q[n])
      /\ \A g : Has(<<x>> \o q[n], g) <=> Has(q[n], g) \/ g = x
  BY <1>2, ConsHas
<1>5. /\ q'[n] = Append(q[n], x) \/ q'[n] = <<x>> \o q[n]
      /\ \A m \in Queues \ {n} : q'[m] = q[m]
      /\ DOMAIN q' = Queues /\ q' = [m \in Queues |-> q'[m]]
  BY <1>1 DEF Put, PutHead, FrameType
<1>6. hand' = [hand EXCEPT ![h] = 0] /\ hand'[h] = 0
      /\ \A g \in Hands \ {h} : hand'[g] = hand[g]
  BY <1>1 DEF Put, PutHead, FrameType
<1>7. q' \in [Queues -> Seq(Frames)] /\ hand' \in [Hands -> Frames \cup {0}]
  <2>1. \A m \in Queues : q'[m] \in Seq(Frames)
    BY <1>3, <1>4, <1>5 DEF FrameType
  <2>2. q' \in [Queues -> Seq(Frames)]
    BY <1>5, <2>1
  <2>3. hand' \in [Hands -> Frames \cup {0}]
    BY <1>6 DEF FrameType
  <2>4. QED BY <2>2, <2>3
<1> HIDE DEF x
<1>8. \A m \in Queues : Distinct(q'[m])
  BY <1>3, <1>4, <1>5 DEF Spot
<1>9. \A m \in Queues : \A f : Has(q'[m], f) <=> Has(q[m], f) \/ (f = x /\ m = n)
  BY <1>3, <1>4, <1>5, ZenonT(30)
<1>10. \A m \in Queues : ~Has(q[m], x)
  BY <1>2 DEF x, Spot
<1>11. \A g \in Hands \ {h} : hand[g] # x
  BY <1>2 DEF x, Spot, Hands
<1>12. 0 \notin Frames
  BY DEF Frames
<1>13. Spot'
  <2>1. ASSUME NEW f \in Frames
        PROVE  (\E m \in Queues : Has(q'[m], f)) \/ (\E g \in Hands : hand'[g] = f)
    <3>1. CASE f = x
      BY <1>9, <3>1
    <3>2. CASE \E m \in Queues : Has(q[m], f)
      BY <1>9, <3>2
    <3>3. CASE f # x /\ \E g \in Hands : hand[g] = f
      BY <1>6, <3>3 DEF x
    <3>4. QED BY <3>1, <3>2, <3>3 DEF Spot
  <2>2. \A f \in Frames : \A k, m \in Queues : Has(q'[k], f) /\ Has(q'[m], f) => k = m
    BY <1>9, <1>10 DEF Spot
  <2>3. \A f \in Frames : \A m \in Queues, g \in Hands : hand'[g] = f => ~Has(q'[m], f)
    BY <1>6, <1>9, <1>11, <1>12 DEF Spot
  <2>4. \A f \in Frames : ~(hand'["dec"] = f /\ hand'["sink"] = f)
    BY <1>1, <1>6, <1>12 DEF Hands
  <2>5. QED BY <1>8, <2>1, <2>2, <2>3, <2>4 DEF Spot
<1>14. QED BY <1>7, <1>13

(* Every step does one of them, or leaves the frames where they are. *)
LEMMA FramesStep ==
  ASSUME PcType, FrameType, HandInv, ShowInv, [Next]_vars
  PROVE  UNCHANGED <<q, hand>> \/ Moves \/ Takes \/ Puts
<1> USE DEF HandInv
<1>1. {"dec", "sink"} \subseteq Hands
      /\ {"decode", "disp", "dec", "out", "venc", "get"} \subseteq Queues
  BY DEF Hands, Queues
<1>2. ASSUME Decoder PROVE UNCHANGED <<q, hand>> \/ Takes \/ Puts
  <2>1. ASSUME DecTake PROVE Takes
    <3>1. hand["dec"] = 0 /\ q["dec"] # <<>> /\ Take("dec", "dec")
      BY <2>1 DEF DecTake, DecAwake
    <3>2. QED BY <1>1, <3>1 DEF Takes
  <2>2. ASSUME DecGot PROVE Puts
    <3>1. hand["dec"] # 0 /\ (PutHead("dec", "dec") \/ Put("dec", "out"))
      BY <2>2 DEF DecGot
    <3>2. QED BY <1>1, <3>1 DEF Puts
  <2>3. ASSUME DecSleep \/ DecExit \/ DecRelease \/ DecReadPicture \/ DecReadFormat
                 \/ DecReadCancelled \/ DecReadFails
        PROVE  UNCHANGED <<q, hand>>
    BY <2>3 DEF DecSleep, DecExit, DecRelease, DecReadPicture, DecReadFormat,
         DecReadCancelled, DecReadFails, DecReturns, frameVars
  <2>4. QED BY <1>2, <2>1, <2>2, <2>3 DEF Decoder
<1>3. ASSUME Sink PROVE UNCHANGED <<q, hand>> \/ Moves \/ Takes \/ Puts
  <2>1. ASSUME SinkSkip PROVE Moves
    <3>1. q["venc"] # <<>> /\ Move("venc", "get") /\ hand' = hand
      BY <2>1 DEF SinkSkip, SinkHasFrame
    <3>2. QED BY <1>1, <3>1 DEF Moves
  <2>2. ASSUME SinkTake PROVE Takes
    <3>1. hand["sink"] = 0 /\ q["venc"] # <<>> /\ Take("venc", "sink")
      BY <2>2 DEF SinkTake, SinkHasFrame, SinkAwake
    <3>2. QED BY <1>1, <3>1 DEF Takes
  <2>3. ASSUME SinkDone PROVE Puts
    <3>1. hand["sink"] # 0 /\ Put("sink", "get")
      BY <2>3 DEF SinkDone
    <3>2. QED BY <1>1, <3>1 DEF Puts
  <2>4. ASSUME SinkSleep \/ SinkExit \/ SinkPaced \/ SinkRelease
        PROVE  UNCHANGED <<q, hand>>
    BY <2>4 DEF SinkSleep, SinkExit, SinkPaced, SinkRelease, frameVars
  <2>5. QED BY <1>3, <2>1, <2>2, <2>3, <2>4 DEF Sink
<1>4. ASSUME Engine PROVE UNCHANGED <<q, hand>> \/ Moves
  <2>1. ASSUME QueueSinkFrame PROVE Moves
    <3>1. q["get"] # <<>> /\ Move("get", "decode") /\ hand' = hand
      BY <2>1 DEF QueueSinkFrame
    <3>2. QED BY <1>1, <3>1 DEF Moves
  <2>2. ASSUME PutOut PROVE UNCHANGED <<q, hand>> \/ Moves
    <3>1. hand' = hand /\ (q' = q \/ (q["decode"] # <<>> /\ Move("decode", "dec")))
      BY <2>2 DEF PutOut
    <3>2. QED BY <1>1, <3>1 DEF Moves
  <2>3. ASSUME GetOut PROVE UNCHANGED <<q, hand>> \/ Moves
    <3>1. hand' = hand /\ \/ q' = q
                          \/ q["out"] # <<>> /\ (Move("out", "disp") \/ Move("out", "decode"))
      BY <2>3 DEF GetOut
    <3>2. QED BY <1>1, <3>1 DEF Moves
  <2>4. ASSUME Output, q["disp"] # <<>> PROVE Moves
    <3>1. hand' = hand /\ (Move("disp", "decode") \/ Move("disp", "venc"))
      BY <2>4 DEF Output
    <3>2. QED BY <1>1, <2>4, <3>1 DEF Moves
  <2>5. ASSUME Output PROVE q["disp"] # <<>>
    BY <2>5 DEF Output, ShowInv
  <2>6. ASSUME FlushEnter \/ FlushSleep \/ FlushDone \/ SinkEmpty \/ DecIn \/ Stamp \/ Leave
                 \/ CloseEnter \/ CloseFlush \/ CloseJoin
        PROVE  UNCHANGED <<q, hand>>
    BY <2>6 DEF FlushEnter, FlushSleep, FlushDone, SinkEmpty, DecIn, Stamp, Leave,
         CloseEnter, CloseFlush, CloseJoin, CloseKeeps, frameVars
  <2>7. QED BY <1>4, <2>1, <2>2, <2>3, <2>4, <2>5, <2>6 DEF Engine
<1>5. ASSUME App \/ SpuriousWakeup \/ UNCHANGED vars PROVE UNCHANGED <<q, hand>>
  BY <1>5 DEF App, SetPaused, SeekStart, SeekFlush, SeekOne, SeekArm, SeekEnd, Stop,
       AppKeeps, SpuriousWakeup, frameVars, vars
<1>6. QED BY <1>2, <1>3, <1>4, <1>5 DEF Next

-----------------------------------------------------------------------------
LEMMA HandStep ==
  ASSUME FrameType, PcType, HandInv, [Next]_vars
  PROVE  HandInv'
<1> USE DEF HandInv
<1>1. ASSUME NEW n \in Queues, q[n] # <<>> PROVE Head(q[n]) # 0
  <2>1. q[n] \in Seq(Frames)
    BY DEF FrameType
  <2>2. Head(q[n]) \in Frames
    BY <1>1, <2>1
  <2>3. QED BY <2>2 DEF Frames
<1>2. DOMAIN hand = Hands /\ {"dec", "sink"} \subseteq Hands /\ {"dec", "venc"} \subseteq Queues
  BY DEF FrameType, Hands, Queues
<1>3. ASSUME Decoder PROVE HandInv'
  <2>1. CASE DecTake
    BY <1>1, <1>2, <2>1 DEF DecTake, Take, DecKeeps
  <2>2. CASE DecGot
    BY <1>2, <2>2 DEF DecGot, Put, PutHead, DecKeeps
  <2>3. CASE DecSleep
    BY <2>3 DEF DecSleep, DecAwake, frameVars, DecKeeps
  <2>4. CASE DecExit
    BY <2>4 DEF DecExit, frameVars, DecKeeps
  <2>5. CASE DecRelease
    BY <2>5 DEF DecRelease, DecKeeps
  <2>6. CASE DecReadPicture \/ DecReadFormat \/ DecReadCancelled \/ DecReadFails
    BY <2>6 DEF DecReadPicture, DecReadFormat, DecReadCancelled, DecReadFails, DecReturns,
         frameVars, DecKeeps
  <2>7. QED BY <1>3, <2>1, <2>2, <2>3, <2>4, <2>5, <2>6 DEF Decoder
<1>4. ASSUME Sink PROVE HandInv'
  <2>1. CASE SinkTake
    BY <1>1, <1>2, <2>1 DEF SinkTake, SinkHasFrame, Take, SinkKeeps, decVars
  <2>2. CASE SinkDone
    BY <1>2, <2>2 DEF SinkDone, Put, SinkKeeps, decVars
  <2>3. CASE SinkSleep
    BY <2>3 DEF SinkSleep, SinkAwake, frameVars, SinkKeeps, decVars
  <2>4. CASE SinkExit
    BY <2>4 DEF SinkExit, frameVars, SinkKeeps, decVars
  <2>5. CASE SinkSkip
    BY <2>5 DEF SinkSkip, SinkHasFrame, SinkAwake, SinkKeeps, decVars
  <2>6. CASE SinkPaced \/ SinkRelease
    BY <2>6 DEF SinkPaced, SinkRelease, frameVars, SinkKeeps, decVars
  <2>7. QED BY <1>4, <2>1, <2>2, <2>3, <2>4, <2>5, <2>6 DEF Sink
<1>5. ASSUME Engine \/ App \/ SpuriousWakeup \/ UNCHANGED vars
      PROVE  UNCHANGED <<hand, dpc, spc>>
  <2>1. CASE Engine
    BY <2>1 DEF Engine, FlushEnter, FlushSleep, FlushDone, QueueSinkFrame, SinkEmpty, PutOut,
         GetOut, Output, DecIn, Stamp, Leave, CloseEnter, CloseFlush, CloseJoin, CloseKeeps,
         EngineKeeps, frameVars, decVars
  <2>2. CASE App \/ SpuriousWakeup \/ UNCHANGED vars
    BY <2>2 DEF App, SetPaused, SeekStart, SeekFlush, SeekOne, SeekArm, SeekEnd, Stop,
         AppKeeps, SpuriousWakeup, frameVars, decVars, vars
  <2>3. QED BY <1>5, <2>1, <2>2
<1>6. QED BY <1>3, <1>4, <1>5 DEF Next

LEMMA ShowStep ==
  ASSUME FrameType, PcType, ShowInv, [Next]_vars
  PROVE  ShowInv'
<1> USE DEF ShowInv
<1>1. DOMAIN q = Queues /\ {"decode", "disp", "dec", "out", "venc", "get"} \subseteq Queues
      /\ q["disp"] \in Seq(Frames)
  BY DEF FrameType, Queues
<1>2. ASSUME Decoder PROVE epc' = epc /\ q'["disp"] = q["disp"]
  BY <1>1, <1>2 DEF Decoder, DecSleep, DecTake, DecExit, DecRelease, DecReadPicture,
       DecReadFormat, DecReadCancelled, DecReadFails, DecReturns, DecGot, Take, Put, PutHead,
       frameVars, DecKeeps, engineVars
<1>3. ASSUME Sink PROVE epc' = epc /\ q'["disp"] = q["disp"]
  BY <1>1, <1>3 DEF Sink, SinkSleep, SinkExit, SinkSkip, SinkTake, SinkPaced, SinkRelease,
       SinkDone, Move, Take, Put, frameVars, SinkKeeps, engineVars
<1>4. ASSUME GetOut PROVE ShowInv'
  BY <1>4 DEF GetOut, Goto
<1>5. ASSUME Output PROVE ShowInv'
  <2>1. epc' = "show" => Len(q["disp"]) # 1 /\ q'["disp"] = Tail(q["disp"])
    BY <1>1, <1>5 DEF Output, Goto, Move
  <2>2. q["disp"] # <<>> /\ Len(q["disp"]) # 1 => Tail(q["disp"]) # <<>>
    <3> DEFINE d == q["disp"]
    <3> SUFFICES ASSUME d # <<>>, Len(d) # 1 PROVE Tail(d) # <<>>
      OBVIOUS
    <3>1. d \in Seq(Frames)
      BY <1>1
    <3> HIDE DEF d
    <3>2. Len(d) \in Nat \ {0, 1} /\ Len(Tail(d)) = Len(d) - 1
      BY <3>1
    <3>3. QED BY <3>2
  <2>3. QED BY <1>5, <2>1, <2>2 DEF Output
<1>6. ASSUME Engine, ~GetOut, ~Output PROVE epc' # "show" 
  BY <1>6 DEF Engine, FlushEnter, FlushSleep, FlushDone, QueueSinkFrame, SinkEmpty, PutOut,
       DecIn, Stamp, Leave, CloseEnter, CloseFlush, CloseJoin, Goto, engineVars
<1>7. ASSUME App \/ SpuriousWakeup \/ UNCHANGED vars PROVE UNCHANGED <<q, epc>>
  BY <1>7 DEF App, SetPaused, SeekStart, SeekFlush, SeekOne, SeekArm, SeekEnd, Stop,
       AppKeeps, SpuriousWakeup, frameVars, engineVars, vars
<1>8. QED BY <1>2, <1>3, <1>4, <1>5, <1>6, <1>7 DEF Next

LEMMA FlagStep ==
  ASSUME LockedType, PcType, FlagInv, [Next]_vars
  PROVE  FlagInv'
<1> USE DEF FlagInv
<1>1. ASSUME Decoder PROVE FlagInv'
  <2>1. CASE DecTake
    BY <2>1 DEF DecTake, SetState, DecKeeps
  <2>2. CASE DecSleep
    BY <2>2 DEF DecSleep, Sleep, DecKeeps
  <2>3. CASE DecExit
    BY <2>3 DEF DecExit, SetState, DecKeeps
  <2>4. CASE DecRelease \/ DecGot
    BY <2>4 DEF DecRelease, DecGot, lockedVars, DecKeeps
  <2>5. CASE DecReadPicture \/ DecReadFormat \/ DecReadCancelled \/ DecReadFails
    BY <2>5 DEF DecReadPicture, DecReadFormat, DecReadCancelled, DecReadFails, DecReturns,
         lockedVars, DecKeeps
  <2>6. QED BY <1>1, <2>1, <2>2, <2>3, <2>4, <2>5 DEF Decoder
<1>2. ASSUME Sink PROVE FlagInv'
  <2>1. CASE SinkSkip \/ SinkTake
    BY <2>1 DEF SinkSkip, SinkTake, SinkHasFrame, SetState, SinkKeeps, decVars
  <2>2. CASE SinkSleep
    BY <2>2 DEF SinkSleep, Sleep, SinkKeeps, decVars
  <2>3. CASE SinkExit
    BY <2>3 DEF SinkExit, SetState, SinkKeeps, decVars
  <2>4. CASE SinkPaced \/ SinkRelease \/ SinkDone
    BY <2>4 DEF SinkPaced, SinkRelease, SinkDone, SinkKeeps, decVars
  <2>5. QED BY <1>2, <2>1, <2>2, <2>3, <2>4 DEF Sink
<1>3. ASSUME Engine
      PROVE  UNCHANGED <<dpc, spc>> /\ state \ {"flushing"} \subseteq state'
  <2>1. UNCHANGED <<dpc, spc>>
    BY <1>3 DEF Engine, FlushEnter, FlushSleep, FlushDone, QueueSinkFrame, SinkEmpty, PutOut,
         GetOut, Output, DecIn, Stamp, Leave, CloseEnter, CloseFlush, CloseJoin, CloseKeeps,
         EngineKeeps, decVars
  <2>2. CASE FlushEnter \/ FlushSleep \/ FlushDone
    BY <2>1, <2>2 DEF FlushEnter, FlushSleep, FlushDone, SetState, Sleep
  <2>3. CASE ~FlushEnter /\ ~FlushSleep /\ ~FlushDone
    <3>1. state' = state
      BY <1>3, <2>3 DEF Engine, QueueSinkFrame, SinkEmpty, PutOut, GetOut, Output, DecIn,
           Stamp, Leave, CloseEnter, CloseFlush, CloseJoin, CloseKeeps, lockedVars
    <3>2. QED BY <2>1, <3>1
  <2>4. QED BY <2>2, <2>3
<1>4. ASSUME App \/ SpuriousWakeup \/ UNCHANGED vars PROVE UNCHANGED <<state, dpc, spc>>
  BY <1>4 DEF App, SetPaused, SeekStart, SeekFlush, SeekOne, SeekArm, SeekEnd, Stop,
       AppKeeps, SpuriousWakeup, lockedVars, decVars, vars
<1>5. QED BY <1>1, <1>2, <1>3, <1>4 DEF Next

LEMMA ReleaseKeeps ==
  ASSUME FrameType, HandleInv, NEW F \in SUBSET Frames, FrameRelease(F)
  PROVE  /\ \A f \in Frames : handle'[f] = NoHandle \/ handle'[f].idx \in Idx
         /\ \A f \in Frames \ F : handle'[f] = handle[f]
         /\ handle' \in [Frames -> [pic : Nat, idx : Idx \cup {0}, released : BOOLEAN]]
<1>1. NoHandle \in [pic : Nat, idx : Idx \cup {0}, released : BOOLEAN]
  BY DEF NoHandle
<1>2. QED BY <1>1 DEF FrameRelease, HandleInv, FrameType

LEMMA HandleStep ==
  ASSUME FrameType, CodecType, PcType, Spot, HandInv, FlagInv, HandleInv, [Next]_vars
  PROVE  /\ HandleInv'
         /\ handle' \in [Frames -> [pic : Nat, idx : Idx \cup {0}, released : BOOLEAN]]
<1> DEFINE Handles == [Frames -> [pic : Nat, idx : Idx \cup {0}, released : BOOLEAN]]
<1> USE DEF HandleInv
<1>1. {"dec", "sink"} \subseteq Hands /\ 0 \notin Frames /\ handle \in Handles
      /\ hand \in [Hands -> Frames \cup {0}]
  BY DEF FrameType, Hands, Frames
<1>2. ASSUME UNCHANGED <<handle, got, spc, hand>> PROVE HandleInv' /\ handle' \in Handles
  BY <1>1, <1>2
<1>3. ASSUME DecRelease PROVE HandleInv' /\ handle' \in Handles
  <2>1. hand["dec"] \in Frames /\ FrameRelease({hand["dec"]})
    BY <1>1, <1>3 DEF DecRelease, HandInv
  <2>2. UNCHANGED <<got, spc, hand>>
    BY <1>3 DEF DecRelease, DecKeeps
  <2>3. spc \in {"pace", "render", "drop"} =>
          hand["sink"] \in Frames /\ hand["sink"] # hand["dec"]
    BY <1>1, <2>1 DEF HandInv, Spot
  <2>4. /\ \A f \in Frames : handle'[f] = NoHandle \/ handle'[f].idx \in Idx
        /\ \A f \in Frames \ {hand["dec"]} : handle'[f] = handle[f]
        /\ handle' \in Handles
    BY <2>1, ReleaseKeeps
  <2>5. QED BY <2>2, <2>3, <2>4
<1>4. ASSUME DecReadPicture PROVE HandleInv' /\ handle' \in Handles
  <2>1. UNCHANGED <<handle, spc, hand>>
    BY <1>4 DEF DecReadPicture, DecReturns, DecKeeps, frameVars
  <2>2. got'.idx \in Idx
    BY <1>4 DEF DecReadPicture, DecReturns, NoBuf
  <2>3. QED BY <1>1, <2>1, <2>2
<1>5. ASSUME DecReadFormat \/ DecReadCancelled \/ DecReadFails
      PROVE  HandleInv' /\ handle' \in Handles
  <2>1. UNCHANGED <<handle, spc, hand>>
    BY <1>5 DEF DecReadFormat, DecReadCancelled, DecReadFails, DecReturns, DecKeeps, frameVars
  <2>2. got'.pic = 0
    BY <1>5 DEF DecReadFormat, DecReadCancelled, DecReadFails, DecReturns, NoBuf, Failed
  <2>3. QED BY <1>1, <2>1, <2>2
<1>6. ASSUME DecGot PROVE HandleInv' /\ handle' \in Handles
  <2> DEFINE d == hand["dec"]
  <2>1. d \in Frames /\ spc' = spc
    BY <1>1, <1>6 DEF DecGot, HandInv, DecKeeps
  <2>2. got'.pic = 0 /\ got \in [ret : {0, -1}, pic : Nat, idx : Idx \cup {0}]
    BY <1>6 DEF DecGot, NoBuf, CodecType
  <2>3. \/ handle' = handle
        \/ got.pic # 0 /\ handle' = [handle EXCEPT ![d] =
                                       [pic |-> got.pic, idx |-> got.idx, released |-> FALSE]]
    BY <1>6 DEF DecGot
  <2>4. hand'["sink"] = hand["sink"]
    BY <1>1, <1>6 DEF DecGot, Put, PutHead
  <2>5. \A f \in Frames : handle'[f] = handle[f] \/ handle'[f].idx \in Idx
    BY <1>1, <2>1, <2>2, <2>3
  <2>6. handle' \in Handles
    <3>1. [pic |-> got.pic, idx |-> got.idx, released |-> FALSE]
            \in [pic : Nat, idx : Idx \cup {0}, released : BOOLEAN]
      BY <2>2
    <3>2. QED BY <1>1, <2>1, <2>3, <3>1
  <2>7. spc \in {"pace", "render", "drop"} => hand["sink"] \in Frames
    BY <1>1 DEF HandInv
  <2> HIDE DEF d
  <2>8. QED BY <2>1, <2>2, <2>4, <2>5, <2>6, <2>7
<1>7. ASSUME SinkTake PROVE HandleInv' /\ handle' \in Handles
  <2>1. UNCHANGED <<handle, got>>
    BY <1>7 DEF SinkTake, SinkKeeps, decVars
  <2>2. q["venc"] \in Seq(Frames) /\ q["venc"] # <<>>
    BY <1>7 DEF SinkTake, SinkHasFrame, FrameType, Queues
  <2>3. Head(q["venc"]) \in Frames
    BY <2>2
  <2>4. hand'["sink"] = Head(q["venc"]) /\ handle[Head(q["venc"])] # NoHandle
    BY <1>1, <1>7 DEF SinkTake, Take
  <2>5. QED BY <1>1, <2>1, <2>3, <2>4
<1>8. ASSUME SinkRelease PROVE HandleInv' /\ handle' \in Handles
  <2> DEFINE k == hand["sink"]
  <2>1. k \in Frames /\ handle[k].idx \in Idx
    BY <1>1, <1>8 DEF SinkRelease, HandInv
  <2>2. /\ got' = got /\ spc' = "done"
        /\ \/ handle' = [handle EXCEPT ![k] = [handle[k] EXCEPT !.released = TRUE, !.pic = 0]]
           \/ handle' = handle
    BY <1>1, <1>8, <2>1 DEF SinkRelease, SinkKeeps, decVars
  <2>3. handle[k] \in [pic : Nat, idx : Idx \cup {0}, released : BOOLEAN]
    BY <1>1, <2>1
  <2>4. LET r == [handle[k] EXCEPT !.released = TRUE, !.pic = 0]
        IN  r \in [pic : Nat, idx : Idx \cup {0}, released : BOOLEAN] /\ r.idx = handle[k].idx
    BY <2>3
  <2> HIDE DEF k
  <2>5. QED BY <1>1, <2>1, <2>2, <2>4
<1>9. ASSUME SinkSleep \/ SinkExit \/ SinkSkip \/ SinkDone
      PROVE  HandleInv' /\ handle' \in Handles
  BY <1>1, <1>9 DEF SinkSleep, SinkExit, SinkSkip, SinkDone, SinkKeeps, decVars, frameVars
<1>10. ASSUME SinkPaced PROVE HandleInv' /\ handle' \in Handles
  BY <1>1, <1>10 DEF SinkPaced, SinkKeeps, decVars, frameVars
<1>11. ASSUME FlushDone \/ CloseJoin PROVE HandleInv' /\ handle' \in Handles
  <2>1. FrameRelease(Frames) /\ got' = got /\ spc' = spc
    BY <1>11 DEF FlushDone, CloseJoin, CloseKeeps, EngineKeeps, decVars
  <2>2. spc \notin {"pace", "render", "drop"}
    BY <1>11 DEF FlushDone, CloseJoin, FlagInv
  <2>3. /\ \A f \in Frames : handle'[f] = NoHandle \/ handle'[f].idx \in Idx
        /\ handle' \in Handles
    BY <2>1, ReleaseKeeps
  <2>4. QED BY <2>1, <2>2, <2>3
<1>12. ASSUME Engine, ~FlushDone, ~CloseJoin PROVE UNCHANGED <<handle, got, spc, hand>>
  BY <1>12 DEF Engine, FlushEnter, FlushSleep, QueueSinkFrame, SinkEmpty, PutOut, GetOut,
       Output, DecIn, Stamp, Leave, CloseEnter, CloseFlush, CloseKeeps, EngineKeeps,
       frameVars, decVars
<1>13. ASSUME DecSleep \/ DecExit PROVE UNCHANGED <<handle, got, spc, hand>>
  BY <1>13 DEF DecSleep, DecExit, frameVars, DecKeeps
<1>14. ASSUME DecTake PROVE HandleInv' /\ handle' \in Handles
  BY <1>1, <1>14 DEF DecTake, Take, DecKeeps
<1>15. ASSUME App \/ SpuriousWakeup \/ UNCHANGED vars
       PROVE  UNCHANGED <<handle, got, spc, hand>>
  BY <1>15 DEF App, SetPaused, SeekStart, SeekFlush, SeekOne, SeekArm, SeekEnd, Stop,
       AppKeeps, SpuriousWakeup, frameVars, decVars, vars
<1> HIDE DEF HandleInv, Handles
<1>16. HandleInv' /\ handle' \in Handles
  BY <1>2, <1>3, <1>4, <1>5, <1>6, <1>7, <1>8, <1>9, <1>10, <1>11, <1>12, <1>13, <1>14,
     <1>15 DEF Next, Decoder, Sink
<1>17. QED BY <1>16 DEF Handles

LEMMA LockedStep ==
  ASSUME LockedType, [Next]_vars
  PROVE  LockedType'
<1> USE DEF LockedType, Flags
<1>1. ASSUME Decoder PROVE LockedType'
  <2>1. run' = run
    BY <1>1 DEF Decoder, DecSleep, DecTake, DecExit, DecRelease, DecReadPicture, DecReadFormat,
         DecReadCancelled, DecReadFails, DecReturns, DecGot, DecKeeps, lockedVars
  <2>2. state' \subseteq Flags /\ asleep' \subseteq {"dec", "sink", "engine"}
    BY <1>1 DEF Decoder, DecSleep, DecTake, DecExit, DecRelease, DecReadPicture, DecReadFormat,
         DecReadCancelled, DecReadFails, DecReturns, DecGot, lockedVars, SetState, Sleep,
         Woken, Broadcast
  <2>3. error' = error \/ error' = (error \/ got.ret = -1)
    BY <1>1 DEF Decoder, DecSleep, DecTake, DecExit, DecRelease, DecReadPicture, DecReadFormat,
         DecReadCancelled, DecReadFails, DecReturns, DecGot, lockedVars
  <2>4. (error \/ got.ret = -1) \in BOOLEAN
    OBVIOUS
  <2>5. error' \in BOOLEAN
    BY <2>3, <2>4, Zenon
  <2>6. QED BY <2>1, <2>2, <2>5
<1>2. ASSUME Sink PROVE LockedType'
  <2>1. UNCHANGED <<run, error>>
    BY <1>2 DEF Sink, SinkSleep, SinkExit, SinkSkip, SinkTake, SinkPaced, SinkRelease, SinkDone,
         SinkKeeps
  <2>2. state' \subseteq Flags /\ asleep' \subseteq {"dec", "sink", "engine"}
    BY <1>2 DEF Sink, SinkSleep, SinkExit, SinkSkip, SinkTake, SinkPaced, SinkRelease, SinkDone,
         SinkHasFrame, SetState, Sleep, Woken, Broadcast
  <2>3. QED BY <2>1, <2>2
<1>3. ASSUME Engine PROVE LockedType'
  <2>1. error' = error /\ (run' = run \/ run' = FALSE)
    BY <1>3 DEF Engine, FlushEnter, FlushSleep, FlushDone, QueueSinkFrame, SinkEmpty, PutOut,
         GetOut, Output, DecIn, Stamp, Leave, CloseEnter, CloseFlush, CloseJoin, CloseKeeps,
         lockedVars
  <2>2. state' \subseteq Flags
    BY <1>3 DEF Engine, FlushEnter, FlushSleep, FlushDone, QueueSinkFrame, SinkEmpty, PutOut,
         GetOut, Output, DecIn, Stamp, Leave, CloseEnter, CloseFlush, CloseJoin, CloseKeeps,
         lockedVars, SetState, Sleep
  <2>3. asleep' \subseteq {"dec", "sink", "engine"}
    BY <1>3 DEF Engine, FlushEnter, FlushSleep, FlushDone, QueueSinkFrame, SinkEmpty, PutOut,
         GetOut, Output, DecIn, Stamp, Leave, CloseEnter, CloseFlush, CloseJoin, CloseKeeps,
         lockedVars, SetState, Sleep, Woken, Broadcast
  <2>4. QED BY <2>1, <2>2, <2>3
<1>4. ASSUME App \/ UNCHANGED vars PROVE LockedType'
  BY <1>4 DEF App, SetPaused, SeekStart, SeekFlush, SeekOne, SeekArm, SeekEnd, Stop,
       AppKeeps, lockedVars, vars
<1>5. ASSUME SpuriousWakeup PROVE LockedType'
  BY <1>5 DEF SpuriousWakeup
<1> HIDE DEF LockedType
<1>6. QED BY <1>1, <1>2, <1>3, <1>4, <1>5 DEF Next

LEMMA PcStep ==
  ASSUME PcType, [Next]_vars
  PROVE  PcType'
<1> USE DEF PcType
<1>1. ASSUME Decoder PROVE PcType'
  BY <1>1 DEF Decoder, DecSleep, DecTake, DecExit, DecRelease, DecReadPicture, DecReadFormat,
       DecReadCancelled, DecReadFails, DecReturns, DecGot, DecKeeps, engineVars, appVars
<1>2. ASSUME Sink PROVE PcType'
  BY <1>2 DEF Sink, SinkSleep, SinkExit, SinkSkip, SinkTake, SinkPaced, SinkRelease, SinkDone,
       SinkKeeps, decVars, engineVars, appVars
<1>3. ASSUME Engine PROVE PcType'
  <2>1. UNCHANGED <<dpc, spc, apc>>
    BY <1>3 DEF Engine, FlushEnter, FlushSleep, FlushDone, QueueSinkFrame, SinkEmpty, PutOut,
         GetOut, Output, DecIn, Stamp, Leave, CloseEnter, CloseFlush, CloseJoin, CloseKeeps,
         EngineKeeps, decVars, appVars
  <2>2. epc' = epc \/ epc' \in {"top", "flush", "sink", "put", "get", "show", "send", "stamp",
                               "close", "codec", "join", "closed"}
    BY <1>3 DEF Engine, FlushEnter, FlushSleep, FlushDone, QueueSinkFrame, SinkEmpty, PutOut,
         GetOut, Output, DecIn, Stamp, Leave, CloseEnter, CloseFlush, CloseJoin, Goto,
         engineVars
  <2>3. QED BY <2>1, <2>2
<1>4. ASSUME App \/ SpuriousWakeup \/ UNCHANGED vars PROVE PcType'
  BY <1>4 DEF App, SetPaused, SeekStart, SeekFlush, SeekOne, SeekArm, SeekEnd, Stop,
       AppKeeps, SpuriousWakeup, decVars, engineVars, appVars, vars
<1> HIDE DEF PcType
<1>5. QED BY <1>1, <1>2, <1>3, <1>4 DEF Next

LEMMA CodecStep ==
  ASSUME CodecType, FrameType, StreamType, [Next]_vars
  PROVE  CodecType'
<1> USE DEF CodecType
<1>1. ASSUME NEW F \in SUBSET Frames, FrameRelease(F) PROVE owned' \in [Idx -> Nat]
  BY <1>1 DEF FrameRelease
<1>2. ASSUME CodecFlush PROVE CodecType' \/ got' # got
  <2>1. (dpc = "read") \in BOOLEAN
    OBVIOUS
  <2>2. cancelled' \in BOOLEAN /\ flush' \in BOOLEAN
    BY <1>2, <2>1, Zenon DEF CodecFlush
  <2>3. codec_in' \in Seq(Nat) /\ owned' \in [Idx -> Nat]
    BY <1>2 DEF CodecFlush
  <2>4. QED BY <2>2, <2>3
<1>3. NoBuf \in [ret : {0, -1}, pic : Nat, idx : Idx \cup {0}]
      /\ Failed \in [ret : {0, -1}, pic : Nat, idx : Idx \cup {0}]
  BY DEF NoBuf, Failed
<1>4. ASSUME DecReadPicture PROVE CodecType'
  <2>1. PICK i \in Idx : /\ owned' = [owned EXCEPT ![i] = Head(codec_in)]
                         /\ got' = [NoBuf EXCEPT !.pic = Head(codec_in), !.idx = i]
                         /\ flush' = flush
    BY <1>4 DEF DecReadPicture, DecReturns
  <2>2. codec_in # <<>> /\ codec_in' = Tail(codec_in) /\ cancelled' = cancelled
    BY <1>4 DEF DecReadPicture
  <2>3. Head(codec_in) \in Nat /\ codec_in' \in Seq(Nat)
    BY <2>2
  <2>4. got' \in [ret : {0, -1}, pic : Nat, idx : Idx \cup {0}]
    BY <2>1, <2>3 DEF NoBuf
  <2>5. owned' \in [Idx -> Nat]
    BY <2>1, <2>3
  <2>6. QED BY <2>1, <2>2, <2>3, <2>4, <2>5
<1>5. ASSUME DecReadFormat \/ DecReadCancelled \/ DecReadFails PROVE CodecType'
  <2>1. got' \in {NoBuf, Failed} /\ flush' = flush /\ codec_in' = codec_in /\ owned' = owned
        /\ (cancelled' = cancelled \/ cancelled' = FALSE)
    BY <1>5 DEF DecReadFormat, DecReadCancelled, DecReadFails, DecReturns
  <2>2. QED BY <1>3, <2>1
<1>6. ASSUME DecGot PROVE CodecType'
  BY <1>3, <1>6 DEF DecGot, codecVars
<1>7. ASSUME DecRelease PROVE CodecType'
  <2>1. hand["dec"] \in Frames \/ hand["dec"] = 0
    BY DEF FrameType, Hands
  <2>2. owned' \in [Idx -> Nat]
    BY <1>7 DEF DecRelease, FrameRelease
  <2>3. QED BY <1>7, <2>2 DEF DecRelease
<1>8. ASSUME DecSleep \/ DecTake \/ DecExit PROVE CodecType'
  BY <1>8 DEF DecSleep, DecTake, DecExit, codecVars
<1>9. ASSUME SinkRelease PROVE CodecType'
  <2>1. owned' \in [Idx -> Nat]
    BY <1>9 DEF SinkRelease
  <2>2. QED BY <1>9, <2>1 DEF SinkRelease, SinkKeeps, decVars
<1>10. ASSUME Sink, ~SinkRelease PROVE CodecType'
  BY <1>10 DEF Sink, SinkSleep, SinkExit, SinkSkip, SinkTake, SinkPaced, SinkDone, SinkKeeps,
       decVars
<1>11. ASSUME FlushDone \/ CloseJoin PROVE CodecType'
  <2>1. owned' \in [Idx -> Nat] /\ UNCHANGED <<codec_in, cancelled, flush, got>>
    BY <1>1, <1>11 DEF FlushDone, CloseJoin, CloseKeeps, EngineKeeps, decVars
  <2>2. QED BY <2>1
<1>12. ASSUME FlushEnter \/ CloseFlush PROVE CodecType'
  BY <1>2, <1>12 DEF FlushEnter, CloseFlush, CloseKeeps, EngineKeeps, decVars
<1>13. ASSUME DecIn PROVE CodecType'
  <2>1. UNCHANGED <<owned, cancelled, got>> /\ (flush' = flush \/ flush' = FALSE)
    BY <1>13 DEF DecIn, EngineKeeps, decVars
  <2>2. codec_in' = codec_in \/ codec_in' = Append(codec_in, sent + 1)
    BY <1>13 DEF DecIn
  <2>3. codec_in' \in Seq(Nat)
    <3>1. sent + 1 \in Nat /\ codec_in \in Seq(Nat)
      BY DEF StreamType
    <3>2. Append(codec_in, sent + 1) \in Seq(Nat)
      BY <3>1
    <3>3. QED BY <2>2, <3>1, <3>2
  <2>4. QED BY <2>1, <2>3
<1>14. ASSUME FlushSleep \/ QueueSinkFrame \/ SinkEmpty \/ PutOut \/ GetOut \/ Output \/ Stamp
                \/ Leave \/ CloseEnter
       PROVE  CodecType'
  BY <1>14 DEF FlushSleep, QueueSinkFrame, SinkEmpty, PutOut, GetOut, Output, Stamp, Leave,
       CloseEnter, CloseKeeps, EngineKeeps, decVars, codecVars
<1>15. ASSUME App \/ SpuriousWakeup \/ UNCHANGED vars PROVE CodecType'
  BY <1>15 DEF App, SetPaused, SeekStart, SeekFlush, SeekOne, SeekArm, SeekEnd, Stop,
       AppKeeps, SpuriousWakeup, decVars, codecVars, vars
<1> HIDE DEF CodecType
<1>16. QED BY <1>4, <1>5, <1>6, <1>7, <1>8, <1>9, <1>10, <1>11, <1>12, <1>13, <1>14, <1>15
           DEF Next, Decoder, Engine

LEMMA StreamStep ==
  ASSUME StreamType, CodecType, PcType, HandleInv, [Next]_vars
  PROVE  StreamType'
<1> USE DEF StreamType
<1>1. ASSUME NEW s \in Seq(Nat), s # <<>> PROVE Tail(s) \in Seq(Nat)
  BY <1>1
<1>2. ASSUME Decoder PROVE StreamType'
  <2>1. UNCHANGED <<video_flush, play_n, play_one, count, paused, was_paused, stop, seeks,
                    sent, flushed, shown>>
    BY <1>2 DEF Decoder, DecSleep, DecTake, DecExit, DecRelease, DecReadPicture,
         DecReadFormat, DecReadCancelled, DecReadFails, DecReturns, DecGot, DecKeeps,
         engineVars, appVars
  <2>2. ts' = ts \/ (ts # <<>> /\ ts' = Tail(ts))
    BY <1>2 DEF Decoder, DecSleep, DecTake, DecExit, DecRelease, DecReadPicture,
         DecReadFormat, DecReadCancelled, DecReadFails, DecReturns, DecGot
  <2>3. ts' \in Seq(Nat)
    BY <1>1, <2>2
  <2>4. QED BY <2>1, <2>3
<1>3. ASSUME Sink PROVE StreamType'
  <2>1. UNCHANGED <<video_flush, play_n, play_one, count, paused, was_paused, stop, seeks,
                    sent, flushed, ts>>
    BY <1>3 DEF Sink, SinkSleep, SinkExit, SinkSkip, SinkTake, SinkPaced, SinkRelease,
         SinkDone, SinkKeeps, engineVars, appVars, inputVars
  <2>2. CASE SinkRelease
    <3>1. handle[hand["sink"]].idx \in Idx
      BY <2>2 DEF SinkRelease, HandleInv
    <3>2. shown' \in Nat
      BY <2>2, <3>1 DEF SinkRelease, CodecType
    <3>3. QED BY <2>1, <3>2
  <2>3. CASE ~SinkRelease
    <3>1. shown' = shown
      BY <1>3, <2>3 DEF Sink, SinkSleep, SinkExit, SinkSkip, SinkTake, SinkPaced, SinkDone
    <3>2. QED BY <2>1, <3>1
  <2>4. QED BY <2>2, <2>3
<1>4. ASSUME Engine PROVE StreamType'
  <2>1. UNCHANGED <<paused, was_paused, stop, seeks, shown>>
    BY <1>4 DEF Engine, FlushEnter, FlushSleep, FlushDone, QueueSinkFrame, SinkEmpty, PutOut,
         GetOut, Output, DecIn, Stamp, Leave, CloseEnter, CloseFlush, CloseJoin, CloseKeeps,
         EngineKeeps, appVars
  <2>2. CASE FlushEnter
    <3>1. ts' = <<>> /\ flushed' = sent /\ video_flush' = FALSE
          /\ UNCHANGED <<sent, play_n, play_one, count>>
      BY <2>2 DEF FlushEnter
    <3>2. <<>> \in Seq(Nat)
      OBVIOUS
    <3>3. QED BY <2>1, <3>1, <3>2
  <2>3. CASE QueueSinkFrame
    BY <2>1, <2>3 DEF QueueSinkFrame, inputVars
  <2>4. CASE Output
    <3>1. play_n' \in 0..PlayN
      <4>1. PlayN \in Nat
        BY SizesAssumption
      <4>2. \A n \in 0..PlayN : AfterOutput(n) \in 0..PlayN
        BY <4>1 DEF AfterOutput
      <4>3. \E left \in {0, play_n} : play_n' \in {left, AfterOutput(left)}
        BY <2>4 DEF Output
      <4>4. QED BY <4>1, <4>2, <4>3
    <3>2. UNCHANGED <<ts, sent, flushed, video_flush>>
      BY <2>4 DEF Output, inputVars
    <3>3. count' = count \/ count' = count + 1
      BY <2>4 DEF Output
    <3>4. play_one' = play_one \/ play_one' = FALSE
      <4>1. CASE time[Head(q["disp"])] = 0
        BY <2>4, <4>1 DEF Output
      <4>2. CASE time[Head(q["disp"])] # 0
        BY <2>4, <4>2 DEF Output
      <4>3. QED BY <4>1, <4>2
    <3>5. play_one' \in BOOLEAN
      BY <3>4, Zenon
    <3>6. ts' \in Seq(Nat) /\ count' \in Int /\ sent' \in Nat /\ flushed' \in Nat
      BY <3>2, <3>3
    <3>7. QED BY <2>1, <3>1, <3>2, <3>5, <3>6
  <2>5. CASE DecIn
    BY <2>1, <2>5 DEF DecIn
  <2>6. CASE Stamp
    <3>1. Append(ts, sent) \in Seq(Nat)
      OBVIOUS
    <3>2. QED BY <2>1, <2>6, <3>1 DEF Stamp
  <2>7. CASE FlushSleep \/ FlushDone \/ SinkEmpty \/ PutOut \/ GetOut \/ Leave \/ CloseEnter
               \/ CloseFlush \/ CloseJoin
    BY <2>1, <2>7 DEF FlushSleep, FlushDone, SinkEmpty, PutOut, GetOut, Leave, CloseEnter,
         CloseFlush, CloseJoin, CloseKeeps, inputVars, engineVars
  <2> HIDE DEF StreamType
  <2>8. QED BY <1>4, <2>2, <2>3, <2>4, <2>5, <2>6, <2>7 DEF Engine
<1>5. ASSUME App PROVE StreamType'
  <2>1. UNCHANGED <<count, ts, sent, flushed, shown>>
    BY <1>5 DEF App, SetPaused, SeekStart, SeekFlush, SeekOne, SeekArm, SeekEnd, Stop,
         AppKeeps, inputVars
  <2>2. CASE SetPaused
    <3>1. (~paused) \in BOOLEAN
      OBVIOUS
    <3>2. paused' \in BOOLEAN
      BY <2>2, <3>1, Zenon DEF SetPaused
    <3>3. QED BY <2>1, <2>2, <3>2 DEF SetPaused
  <2>3. CASE SeekArm
    <3>1. PlayN \in 0..PlayN
      BY SizesAssumption
    <3>2. QED BY <2>1, <2>3, <3>1 DEF SeekArm
  <2>4. CASE SeekStart
    BY <2>1, <2>4 DEF SeekStart
  <2>5. CASE SeekEnd
    BY <2>1, <2>5 DEF SeekEnd
  <2>6. CASE SeekFlush \/ SeekOne \/ Stop
    BY <2>1, <2>6 DEF SeekFlush, SeekOne, Stop
  <2>7. QED BY <1>5, <2>2, <2>3, <2>4, <2>5, <2>6 DEF App
<1>6. ASSUME SpuriousWakeup \/ UNCHANGED vars PROVE StreamType'
  BY <1>6 DEF SpuriousWakeup, engineVars, appVars, inputVars, vars
<1> HIDE DEF StreamType
<1>7. QED BY <1>2, <1>3, <1>4, <1>5, <1>6 DEF Next

LEMMA TimeStep ==
  ASSUME FrameType, CodecType, StreamType, HandInv, ShowInv, [Next]_vars
  PROVE  time' \in [Frames -> Nat]
<1>1. time \in [Frames -> Nat]
  BY DEF FrameType
<1>2. CASE DecGot
  <2>1. ts # <<>> => Head(ts) \in Nat
    BY DEF StreamType
  <2>2. got.pic \in Nat
    BY DEF CodecType
  <2> DEFINE t == IF ReorderPts THEN got.pic ELSE IF ts = <<>> THEN 0 ELSE Head(ts)
  <2>3. t \in Nat
    BY <2>1, <2>2
  <2>4. time' = time \/ time' = [time EXCEPT ![hand["dec"]] = t]
    BY <1>2 DEF DecGot
  <2> HIDE DEF t
  <2>5. QED BY <1>1, <2>3, <2>4
<1>3. CASE QueueSinkFrame
  BY <1>1, <1>3 DEF QueueSinkFrame
<1>4. CASE Decoder /\ ~DecGot
  BY <1>1, <1>4 DEF Decoder, DecSleep, DecTake, DecExit, DecRelease, DecReadPicture,
       DecReadFormat, DecReadCancelled, DecReadFails, DecReturns, frameVars
<1>5. CASE Sink
  BY <1>1, <1>5 DEF Sink, SinkSleep, SinkExit, SinkSkip, SinkTake, SinkPaced, SinkRelease,
       SinkDone, frameVars
<1>6. CASE Engine /\ ~QueueSinkFrame
  BY <1>1, <1>6 DEF Engine, FlushEnter, FlushSleep, FlushDone, SinkEmpty, PutOut, GetOut,
       Output, DecIn, Stamp, Leave, CloseEnter, CloseFlush, CloseJoin, CloseKeeps, frameVars
<1>7. CASE App \/ SpuriousWakeup \/ UNCHANGED vars
  BY <1>1, <1>7 DEF App, SetPaused, SeekStart, SeekFlush, SeekOne, SeekArm, SeekEnd, Stop,
       AppKeeps, SpuriousWakeup, frameVars, vars
<1>8. QED BY <1>2, <1>3, <1>4, <1>5, <1>6, <1>7 DEF Next, Decoder, Engine

-----------------------------------------------------------------------------
LEMMA PlaceInit ==
  ASSUME Init PROVE PlaceInv
<1>1. NumFrames \in Nat \ {0} /\ PlayN \in Nat
  BY SizesAssumption
<1>2. NoHandle \in [pic : Nat, idx : Idx \cup {0}, released : BOOLEAN]
  BY DEF NoHandle
<1>3. [f \in Frames |-> f] \in Seq(Frames)
  BY <1>1 DEF Frames
<1>4. FrameType
  BY <1>2, <1>3 DEF Init, FrameType, Hands, Queues
<1>5. LockedType /\ PcType
  <2>1. PcType
    BY DEF Init, PcType
  <2>2. run = TRUE /\ error = FALSE /\ state = {} /\ asleep = {}
    BY DEF Init
  <2>3. QED BY <2>1, <2>2 DEF LockedType
<1>6. CodecType
  <2>1. codec_in = <<>> /\ owned = [i \in Idx |-> 0] /\ cancelled = FALSE /\ flush = TRUE
        /\ got = NoBuf
    BY DEF Init
  <2>2. <<>> \in Seq(Nat)
    OBVIOUS
  <2>3. QED BY <2>1, <2>2 DEF CodecType, NoBuf
<1>7. StreamType
  <2>1. ts = <<>> /\ sent = 0 /\ flushed = 0 /\ shown = 0 /\ seeks = 0 /\ count = 0
        /\ play_n = 0
    BY DEF Init
  <2>2. video_flush = FALSE /\ play_one = FALSE /\ paused = TRUE /\ was_paused = TRUE
        /\ stop = FALSE
    BY DEF Init
  <2>3. <<>> \in Seq(Nat) /\ 0 \in 0..PlayN
    BY <1>1
  <2>4. ts \in Seq(Nat) /\ play_n \in 0..PlayN /\ count \in Int
        /\ sent \in Nat /\ flushed \in Nat /\ shown \in Nat /\ seeks \in Nat
    BY <2>1, <2>3
  <2>5. video_flush \in BOOLEAN /\ play_one \in BOOLEAN /\ paused \in BOOLEAN
        /\ was_paused \in BOOLEAN /\ stop \in BOOLEAN
    BY <2>2, Zenon
  <2>6. QED BY <2>4, <2>5, Zenon DEF StreamType
<1>8. Spot
  <2>1. \A n \in Queues \ {"get"} : q[n] = <<>>
    BY DEF Init
  <2>2. q["get"] = [f \in Frames |-> f] /\ "get" \in Queues
    BY DEF Init, Queues
  <2>3. \A n \in Queues, f \in Frames : Has(q[n], f) <=> n = "get"
    BY <2>1, <2>2 DEF Has
  <2>4. \A n \in Queues : Distinct(q[n])
    BY <2>1, <2>2 DEF Distinct
  <2>5. \A h \in Hands, f \in Frames : hand[h] # f
    BY DEF Init, Frames
  <2>6. {"dec", "sink"} \subseteq Hands
    BY DEF Hands
  <2>7. QED BY <2>2, <2>3, <2>4, <2>5, <2>6 DEF Spot
<1>9. HandInv /\ ShowInv /\ FlagInv /\ HandleInv
  BY DEF Init, HandInv, ShowInv, FlagInv, HandleInv, NoBuf, Hands
<1>10. QED BY <1>4, <1>5, <1>6, <1>7, <1>8, <1>9, SpotIsOnePlace DEF PlaceInv, TypeOK

LEMMA PlaceStep ==
  ASSUME PlaceInv, [Next]_vars PROVE PlaceInv'
<1>1. FrameType /\ LockedType /\ CodecType /\ PcType /\ StreamType
      /\ OnePlace /\ HandInv /\ ShowInv /\ FlagInv /\ HandleInv
  BY DEF PlaceInv, TypeOK
<1>2. Spot
  BY <1>1, SpotIsOnePlace
<1>3. q' \in [Queues -> Seq(Frames)] /\ hand' \in [Hands -> Frames \cup {0}] /\ Spot'
  <2>1. CASE UNCHANGED <<q, hand>>
    BY <1>1, <1>2, <2>1 DEF Spot, FrameType
  <2>2. QED BY <1>1, <1>2, <2>1, FramesStep, MoveKeeps, TakeKeeps, PutKeeps
<1>4. HandleInv'
      /\ handle' \in [Frames -> [pic : Nat, idx : Idx \cup {0}, released : BOOLEAN]]
  BY <1>1, <1>2, HandleStep
<1>5. time' \in [Frames -> Nat]
  BY <1>1, TimeStep
<1>6. FrameType'
  BY <1>3, <1>4, <1>5 DEF FrameType
<1>7. HandInv' /\ ShowInv' /\ FlagInv'
  BY <1>1, HandStep, ShowStep, FlagStep
<1>8. LockedType' /\ PcType' /\ CodecType' /\ StreamType'
  BY <1>1, LockedStep, PcStep, CodecStep, StreamStep
<1>9. OnePlace'
  <2>1. ASSUME FrameType', Spot' PROVE OnePlace'
    <3>1. \A n \in Queues : q'[n] \in Seq(Frames)
      BY <2>1 DEF FrameType
    <3>2. QED BY <2>1 DEF OnePlace, Spot, InQueue, Has, Distinct
  <2>2. QED BY <1>3, <1>6, <2>1
<1>10. QED BY <1>4, <1>6, <1>7, <1>8, <1>9 DEF PlaceInv, TypeOK

LEMMA PlaceInvariant == Spec => []PlaceInv
<1>1. Init => PlaceInv
  BY PlaceInit
<1>2. PlaceInv /\ [Next]_vars => PlaceInv'
  BY PlaceStep
<1>3. QED BY <1>1, <1>2, PTL DEF Spec

(* The threads, the engine and the frames stay in the states their code    *)
(* can be in, for any number of frames, buffers, chunks and seeks.         *)
THEOREM TypeCorrect == Spec => []TypeOK
<1>1. PlaceInv => TypeOK
  BY DEF PlaceInv
<1>2. QED BY <1>1, PlaceInvariant, PTL

(* No frame is lost, none in two lists of frame_q.c: its FATAL ERROR       *)
(* cannot come.                                                            *)
THEOREM OnePlaceCorrect == Spec => []OnePlace
<1>1. PlaceInv => OnePlace
  BY DEF PlaceInv
<1>2. QED BY <1>1, PlaceInvariant, PTL

-----------------------------------------------------------------------------
(***************************************************************************)
(* Where the buffers are.  EngineTells: what the engine's place in its     *)
(* code says of the shared state.  CleanInv: from the flush of the codec   *)
(* until the frames have been released it has nothing to decode and has    *)
(* lent nothing out, which is why a buffer that is still in a frame then   *)
(* does no harm.  LentInv: a buffer has one holder.                        *)
(***************************************************************************)
Flushed == epc \in {"flush", "join", "closed"}

EngineTells ==
  /\ "flushing" \in state <=> epc = "flush"
  /\ ~run <=> epc \in {"codec", "join", "closed"}

CleanInv ==
  /\ Flushed => codec_in = <<>> /\ \A i \in Idx : owned[i] = 0
  /\ \A i \in DOMAIN codec_in : codec_in[i] # 0

GotInv ==
  /\ dpc # "got" => got = NoBuf
  /\ dpc \in {"read", "got"} => handle[hand["dec"]] = NoHandle
  /\ spc \in {"pace", "render", "drop"} => Bound(hand["sink"])

(* What has been rendered is out of the sink's sight until it is decoded.  *)
PipeInv ==
  \A n \in {"venc", "disp", "out"}, f \in Frames :
    Has(q[n], f) => Bound(f) \/ handle[f] = NoHandle

LentInv ==
  /\ \A i \in Idx : owned[i] # 0 =>
       \/ \E f \in Frames : Bound(f) /\ handle[f].idx = i /\ handle[f].pic = owned[i]
       \/ got.idx = i /\ got.pic = owned[i]
  /\ ~Flushed => /\ \A f \in Frames : Bound(f) => owned[handle[f].idx] = handle[f].pic
                 /\ got.pic # 0 => owned[got.idx] = got.pic
  /\ \A f \in Frames : Bound(f) => handle[f].idx \in Idx /\ handle[f].pic # 0
  /\ \A f, g \in Frames : Bound(f) /\ Bound(g) /\ handle[f].idx = handle[g].idx => f = g
  /\ \A f \in Frames : Bound(f) /\ got.pic # 0 => handle[f].idx # got.idx

BufferInv == EngineTells /\ CleanInv /\ GotInv /\ PipeInv /\ LentInv

LEMMA EngineTellsStep ==
  ASSUME PcType, EngineTells, [Next]_vars PROVE EngineTells'
<1> USE DEF EngineTells
<1>1. ASSUME Decoder
      PROVE  UNCHANGED <<epc, run>> /\ ("flushing" \in state' <=> "flushing" \in state)
  BY <1>1 DEF Decoder, DecSleep, DecTake, DecExit, DecRelease, DecReadPicture, DecReadFormat,
       DecReadCancelled, DecReadFails, DecReturns, DecGot, DecKeeps, lockedVars, engineVars,
       SetState, Sleep
<1>2. ASSUME Sink
      PROVE  UNCHANGED <<epc, run>> /\ ("flushing" \in state' <=> "flushing" \in state)
  BY <1>2 DEF Sink, SinkSleep, SinkExit, SinkSkip, SinkTake, SinkPaced, SinkRelease, SinkDone,
       SinkHasFrame, SinkKeeps, engineVars, SetState, Sleep
<1>3. ASSUME FlushEnter PROVE EngineTells'
  BY <1>3 DEF FlushEnter, SetState, Goto
<1>4. ASSUME FlushSleep PROVE EngineTells'
  BY <1>4 DEF FlushSleep, Sleep, engineVars
<1>5. ASSUME FlushDone PROVE EngineTells'
  BY <1>5 DEF FlushDone, SetState, Goto
<1>6. ASSUME QueueSinkFrame \/ SinkEmpty \/ PutOut \/ GetOut \/ Output \/ DecIn \/ Stamp
      PROVE  EngineTells'
  <2>1. epc \notin {"flush", "codec", "join", "closed"}
    BY <1>6 DEF QueueSinkFrame, SinkEmpty, PutOut, GetOut, Output, DecIn, Stamp, AtSinkQueue
  <2>2. epc' \notin {"flush", "codec", "join", "closed"}
    BY <1>6 DEF QueueSinkFrame, SinkEmpty, PutOut, GetOut, Output, DecIn, Stamp, Goto
  <2>3. UNCHANGED <<state, run>>
    BY <1>6 DEF QueueSinkFrame, SinkEmpty, PutOut, GetOut, Output, DecIn, Stamp, lockedVars
  <2>4. QED BY <2>1, <2>2, <2>3
<1>7. ASSUME Leave PROVE EngineTells'
  BY <1>7 DEF Leave, CloseKeeps, Goto
<1>8. ASSUME CloseEnter \/ CloseFlush \/ CloseJoin PROVE EngineTells'
  BY <1>8 DEF CloseEnter, CloseFlush, CloseJoin, CloseKeeps, Goto
<1>9. ASSUME App \/ SpuriousWakeup \/ UNCHANGED vars PROVE UNCHANGED <<state, run, epc>>
  BY <1>9 DEF App, SetPaused, SeekStart, SeekFlush, SeekOne, SeekArm, SeekEnd, Stop,
       AppKeeps, SpuriousWakeup, lockedVars, engineVars, vars
<1>10. QED BY <1>1, <1>2, <1>3, <1>4, <1>5, <1>6, <1>7, <1>8, <1>9 DEF Next, Engine

(* The engine is in a flush, in the close or closed at the same time before *)
(* and after a step that does not begin or end one.                         *)
LEMMA FlushedStep ==
  ASSUME PcType, [Next]_vars, ~FlushEnter, ~FlushDone, ~CloseFlush
  PROVE  Flushed' <=> Flushed
<1> USE DEF Flushed
<1>1. ASSUME Decoder \/ Sink PROVE epc' = epc
  BY <1>1 DEF Decoder, DecSleep, DecTake, DecExit, DecRelease, DecReadPicture, DecReadFormat,
       DecReadCancelled, DecReadFails, DecReturns, DecGot, DecKeeps, Sink, SinkSleep, SinkExit,
       SinkSkip, SinkTake, SinkPaced, SinkRelease, SinkDone, SinkKeeps, engineVars
<1>2. ASSUME Engine PROVE Flushed' <=> Flushed
  BY <1>2 DEF Engine, FlushSleep, QueueSinkFrame, SinkEmpty, PutOut, GetOut, Output, DecIn,
       Stamp, Leave, CloseEnter, CloseJoin, AtSinkQueue, Goto, engineVars
<1>3. ASSUME App \/ SpuriousWakeup \/ UNCHANGED vars PROVE epc' = epc
  BY <1>3 DEF App, SetPaused, SeekStart, SeekFlush, SeekOne, SeekArm, SeekEnd, Stop,
       AppKeeps, SpuriousWakeup, engineVars, vars
<1>4. QED BY <1>1, <1>2, <1>3 DEF Next

LEMMA CleanStep ==
  ASSUME PlaceInv, BufferInv, [Next]_vars PROVE CleanInv'
<1>1. /\ FrameType /\ LockedType /\ CodecType /\ PcType /\ StreamType
      /\ HandInv /\ HandleInv /\ CleanInv
  BY DEF PlaceInv, TypeOK, BufferInv
<1>2. ASSUME CodecFlush PROVE CleanInv'
  BY <1>2 DEF CodecFlush, CleanInv
<1>3. ASSUME NEW F, FrameRelease(F), codec_in' = codec_in, Flushed' => Flushed
      PROVE  CleanInv'
  BY <1>1, <1>3 DEF FrameRelease, CleanInv
<1>4. ASSUME FlushEnter \/ CloseFlush PROVE CleanInv'
  BY <1>2, <1>4 DEF FlushEnter, CloseFlush
<1>5. ASSUME FlushDone PROVE CleanInv'
  BY <1>3, <1>5 DEF FlushDone, Goto, Flushed
<1>6. ASSUME ~FlushEnter, ~CloseFlush, ~FlushDone PROVE CleanInv'
  <2>1. Flushed' <=> Flushed
    BY <1>1, <1>6, FlushedStep
  <2>2. ASSUME DecReadPicture PROVE CleanInv'
    <3>1. codec_in # <<>> /\ codec_in' = Tail(codec_in) /\ codec_in \in Seq(Nat)
      BY <1>1, <2>2 DEF DecReadPicture, CodecType
    <3>2. \A i \in DOMAIN codec_in' : i + 1 \in DOMAIN codec_in /\ codec_in'[i] = codec_in[i + 1]
      BY <3>1
    <3>3. QED BY <1>1, <2>1, <3>1, <3>2 DEF CleanInv
  <2>3. ASSUME SinkRelease PROVE CleanInv'
    <3>1. /\ codec_in' = codec_in
          /\ owned' = [owned EXCEPT ![handle[hand["sink"]].idx] = 0] \/ owned' = owned
      BY <2>3 DEF SinkRelease, SinkKeeps
    <3>2. QED BY <1>1, <2>1, <3>1 DEF CleanInv, CodecType
  <2>4. ASSUME DecRelease PROVE CleanInv'
    BY <1>3, <2>1, <2>4 DEF DecRelease
  <2>5. ASSUME CloseJoin PROVE CleanInv'
    BY <1>3, <2>1, <2>5 DEF CloseJoin
  <2>6. ASSUME DecIn PROVE CleanInv'
    <3>1. ~Flushed /\ owned' = owned
      BY <2>6 DEF DecIn, Flushed
    <3>2. CASE codec_in' = codec_in
      BY <1>1, <2>1, <3>1, <3>2 DEF CleanInv
    <3>3. CASE codec_in' = Append(codec_in, sent + 1)
      <4>1. codec_in \in Seq(Nat) /\ sent + 1 \in Nat \ {0}
        BY <1>1 DEF CodecType, StreamType
      <4>2. \A i \in DOMAIN codec_in' : codec_in'[i] = sent + 1
                                        \/ (i \in DOMAIN codec_in /\ codec_in'[i] = codec_in[i])
        BY <3>3, <4>1
      <4>3. QED BY <1>1, <2>1, <3>1, <4>1, <4>2 DEF CleanInv
    <3>4. QED BY <2>6, <3>2, <3>3 DEF DecIn
  <2>7. ASSUME Decoder, ~DecReadPicture, ~DecRelease PROVE UNCHANGED <<codec_in, owned>>
    BY <2>7 DEF Decoder, DecSleep, DecTake, DecExit, DecReadFormat, DecReadCancelled,
         DecReadFails, DecGot, codecVars
  <2>8. ASSUME Sink, ~SinkRelease PROVE UNCHANGED <<codec_in, owned>>
    BY <2>8 DEF Sink, SinkSleep, SinkExit, SinkSkip, SinkTake, SinkPaced, SinkDone, SinkKeeps
  <2>9. ASSUME Engine, ~CloseJoin, ~DecIn PROVE UNCHANGED <<codec_in, owned>>
    BY <1>6, <2>9 DEF Engine, FlushSleep, QueueSinkFrame, SinkEmpty, PutOut, GetOut, Output,
         Stamp, Leave, CloseEnter, CloseKeeps, codecVars
  <2>10. ASSUME App \/ SpuriousWakeup \/ UNCHANGED vars PROVE UNCHANGED <<codec_in, owned>>
    BY <2>10 DEF App, SetPaused, SeekStart, SeekFlush, SeekOne, SeekArm, SeekEnd, Stop,
         AppKeeps, SpuriousWakeup, codecVars, vars
  <2>11. ASSUME UNCHANGED <<codec_in, owned>> PROVE CleanInv'
    BY <1>1, <2>1, <2>11 DEF CleanInv
  <2>12. QED BY <2>2, <2>3, <2>4, <2>5, <2>6, <2>7, <2>8, <2>9, <2>10, <2>11 DEF Next
<1>7. QED BY <1>4, <1>5, <1>6

(* The steps that touch a buffer. *)
DecReadNothing == DecReadFormat \/ DecReadCancelled \/ DecReadFails
BufferStep == \/ DecRelease \/ DecReadPicture \/ DecReadNothing \/ DecGot \/ SinkRelease
              \/ FlushEnter \/ FlushDone \/ CloseFlush \/ CloseJoin

LEMMA OtherSteps ==
  ASSUME [Next]_vars, ~BufferStep PROVE UNCHANGED <<handle, owned, got>>
<1> USE DEF BufferStep, DecReadNothing
<1>1. ASSUME Decoder PROVE UNCHANGED <<handle, owned, got>>
  BY <1>1 DEF Decoder, DecSleep, DecTake, DecExit, frameVars, codecVars
<1>2. ASSUME Sink PROVE UNCHANGED <<handle, owned, got>>
  BY <1>2 DEF Sink, SinkSleep, SinkExit, SinkSkip, SinkTake, SinkPaced, SinkDone, SinkKeeps,
       frameVars, decVars
<1>3. ASSUME Engine PROVE UNCHANGED <<handle, owned, got>>
  BY <1>3 DEF Engine, FlushSleep, QueueSinkFrame, SinkEmpty, PutOut, GetOut, Output, DecIn,
       Stamp, Leave, CloseEnter, CloseKeeps, EngineKeeps, frameVars, codecVars, decVars
<1>4. ASSUME App \/ SpuriousWakeup \/ UNCHANGED vars PROVE UNCHANGED <<handle, owned, got>>
  BY <1>4 DEF App, SetPaused, SeekStart, SeekFlush, SeekOne, SeekArm, SeekEnd, Stop,
       AppKeeps, SpuriousWakeup, frameVars, codecVars, decVars, vars
<1>5. QED BY <1>1, <1>2, <1>3, <1>4 DEF Next

(* FrameRelease of every frame leaves no buffer in any. *)
LEMMA ReleaseAll ==
  ASSUME FrameRelease(Frames) PROVE \A f \in Frames : handle'[f] = NoHandle /\ ~Bound(f)'
BY DEF FrameRelease, Bound, NoHandle

LEMMA GotStep ==
  ASSUME PlaceInv, BufferInv, [Next]_vars PROVE GotInv'
<1>1. /\ FrameType /\ LockedType /\ CodecType /\ PcType /\ Spot
      /\ HandInv /\ FlagInv /\ HandleInv /\ GotInv /\ PipeInv
  BY SpotIsOnePlace DEF PlaceInv, TypeOK, BufferInv
<1>2. /\ {"dec", "sink"} \subseteq Hands /\ 0 \notin Frames
      /\ hand \in [Hands -> Frames \cup {0}]
  BY <1>1 DEF FrameType, Hands, Frames
<1>3. ASSUME UNCHANGED <<dpc, spc, hand, handle>>, got' = got PROVE GotInv'
  BY <1>1, <1>3 DEF GotInv, Bound
<1>4. spc \in {"pace", "render", "drop"} => hand["sink"] \in Frames /\ hand["sink"] # hand["dec"]
  BY <1>1, <1>2 DEF HandInv, Spot
<1>5. ASSUME DecRelease PROVE GotInv'
  <2> DEFINE d == hand["dec"]
  <2>1. d \in Frames /\ FrameRelease({d}) /\ dpc' = "read" /\ got = NoBuf
        /\ UNCHANGED <<hand, got, spc>>
    BY <1>1, <1>2, <1>5 DEF DecRelease, DecKeeps, HandInv, GotInv
  <2>2. handle'[d] = NoHandle /\ \A f \in Frames \ {d} : handle'[f] = handle[f]
    BY <2>1 DEF FrameRelease
  <2> HIDE DEF d
  <2>3. spc \in {"pace", "render", "drop"} => Bound(hand["sink"])'
    BY <1>1, <1>4, <2>1, <2>2 DEF GotInv, Bound, d
  <2>4. QED BY <2>1, <2>2, <2>3 DEF GotInv, d
<1>6. ASSUME DecReadPicture \/ DecReadNothing PROVE GotInv'
  <2>1. dpc = "read" /\ dpc' = "got" /\ UNCHANGED <<spc, hand, handle>>
    BY <1>6 DEF DecReadPicture, DecReadNothing, DecReadFormat, DecReadCancelled, DecReadFails,
         DecReturns, DecKeeps, frameVars
  <2>2. QED BY <1>1, <2>1 DEF GotInv, Bound
<1>7. ASSUME DecGot PROVE GotInv'
  <2> DEFINE k == hand["sink"]
  <2>1. dpc' = "top" /\ got' = NoBuf /\ spc' = spc /\ hand'["sink"] = k
    BY <1>2, <1>7 DEF DecGot, Put, PutHead, DecKeeps
  <2>2. \A f \in Frames \ {hand["dec"]} : handle'[f] = handle[f]
    BY <1>1, <1>7 DEF DecGot, FrameType
  <2>3. spc \in {"pace", "render", "drop"} => k \in Frames /\ handle'[k] = handle[k]
    BY <1>4, <2>2
  <2> HIDE DEF k
  <2>4. QED BY <1>1, <2>1, <2>3 DEF GotInv, Bound, k
<1>8. ASSUME SinkRelease PROVE GotInv'
  <2> DEFINE k == hand["sink"]
  <2>1. spc' = "done" /\ UNCHANGED <<got, dpc, hand>>
    BY <1>8 DEF SinkRelease, SinkKeeps, decVars
  <2>2. \A f \in Frames \ {k} : handle'[f] = handle[f]
    BY <1>1, <1>8 DEF SinkRelease, FrameType
  <2>3. k # hand["dec"]
    BY <1>4, <1>1, <1>2, <1>8 DEF SinkRelease, HandInv, Spot
  <2>4. dpc \in {"read", "got"} => hand["dec"] \in Frames
    BY <1>1, <1>2 DEF HandInv
  <2> HIDE DEF k
  <2>5. dpc \in {"read", "got"} => handle'[hand["dec"]] = handle[hand["dec"]]
    BY <2>2, <2>3, <2>4
  <2>6. QED BY <1>1, <2>1, <2>5 DEF GotInv
<1>9. ASSUME FlushDone \/ CloseJoin PROVE GotInv'
  <2>1. UNCHANGED <<got, dpc, spc, hand>>
    BY <1>9 DEF FlushDone, CloseJoin, CloseKeeps, EngineKeeps, decVars
  <2>2. dpc \notin {"read", "got"} /\ spc \notin {"pace", "render", "drop"}
    BY <1>1, <1>9 DEF FlushDone, CloseJoin, FlagInv
  <2>3. QED BY <1>1, <2>1, <2>2 DEF GotInv
<1>10. ASSUME SinkTake PROVE GotInv'
  <2>1. q["venc"] \in Seq(Frames) /\ q["venc"] # <<>> /\ Distinct(q["venc"])
    BY <1>1, <1>10 DEF SinkTake, SinkHasFrame, FrameType, Spot, Queues
  <2>2. Head(q["venc"]) \in Frames /\ Has(q["venc"], Head(q["venc"]))
    BY <2>1, TailHas
  <2>3. hand'["sink"] = Head(q["venc"]) /\ hand'["dec"] = hand["dec"]
        /\ handle[Head(q["venc"])] # NoHandle
    BY <1>2, <1>10 DEF SinkTake, Take
  <2>4. UNCHANGED <<got, dpc, handle>>
    BY <1>10 DEF SinkTake, SinkKeeps, decVars
  <2>5. Bound(Head(q["venc"]))
    BY <1>1, <2>2, <2>3 DEF PipeInv
  <2>6. QED BY <1>1, <2>3, <2>4, <2>5 DEF GotInv, Bound
<1>11. ASSUME Sink, ~SinkTake, ~SinkRelease PROVE GotInv'
  <2>1. UNCHANGED <<got, dpc, handle>> /\ hand'["dec"] = hand["dec"]
    BY <1>2, <1>11 DEF Sink, SinkSleep, SinkExit, SinkSkip, SinkPaced, SinkDone, SinkKeeps,
         Put, decVars, frameVars
  <2>2. spc' \in {"pace", "render", "drop"} => spc = "pace" /\ hand' = hand
    BY <1>11 DEF Sink, SinkSleep, SinkExit, SinkSkip, SinkPaced, SinkDone, frameVars
  <2>3. QED BY <1>1, <2>1, <2>2 DEF GotInv, Bound
<1>12. ASSUME DecSleep \/ DecTake \/ DecExit PROVE GotInv'
  <2>1. dpc \notin {"read", "got"} /\ dpc' \notin {"read", "got"} /\ UNCHANGED <<got, spc, handle>>
    BY <1>12 DEF DecSleep, DecTake, DecExit, DecAwake, DecKeeps, frameVars
  <2>2. hand'["sink"] = hand["sink"]
    BY <1>2, <1>12 DEF DecSleep, DecTake, DecExit, Take, frameVars
  <2>3. QED BY <1>1, <2>1, <2>2 DEF GotInv, Bound
<1>13. ASSUME Engine, ~FlushDone, ~CloseJoin PROVE GotInv'
  <2>1. UNCHANGED <<dpc, spc, hand, handle, got>>
    BY <1>13 DEF Engine, FlushEnter, FlushSleep, QueueSinkFrame, SinkEmpty, PutOut, GetOut,
         Output, DecIn, Stamp, Leave, CloseEnter, CloseFlush, CloseKeeps, EngineKeeps,
         frameVars, decVars
  <2>2. QED BY <1>3, <2>1
<1>14. ASSUME App \/ SpuriousWakeup \/ UNCHANGED vars PROVE GotInv'
  <2>1. UNCHANGED <<dpc, spc, hand, handle, got>>
    BY <1>14 DEF App, SetPaused, SeekStart, SeekFlush, SeekOne, SeekArm, SeekEnd, Stop,
         AppKeeps, SpuriousWakeup, frameVars, decVars, vars
  <2>2. QED BY <1>3, <2>1
<1>15. QED BY <1>5, <1>6, <1>7, <1>8, <1>9, <1>10, <1>11, <1>12, <1>13, <1>14
           DEF Next, Decoder, DecReadNothing

LEMMA MoveHas ==
  ASSUME FrameType, Spot, NEW from \in Queues, NEW to \in Queues, from # to,
         q[from] # <<>>, Move(from, to)
  PROVE  /\ Head(q[from]) \in Frames /\ Has(q[from], Head(q[from]))
         /\ \A n \in Queues : \A f : Has(q'[n], f) <=>
              IF f = Head(q[from]) THEN n = to ELSE Has(q[n], f)
<1> DEFINE x == Head(q[from])
<1>1. q[from] \in Seq(Frames) /\ q[to] \in Seq(Frames) /\ Distinct(q[from]) /\ Distinct(q[to])
  BY DEF FrameType, Spot
<1>2. /\ x \in Frames /\ Has(q[from], x)
      /\ \A f : Has(Tail(q[from]), f) <=> Has(q[from], f) /\ f # x
  BY <1>1, TailHas
<1>3. ~Has(q[to], x) /\ \A n \in Queues : Has(q[n], x) => n = from
  BY <1>2 DEF Spot
<1>4. \A g : Has(Append(q[to], x), g) <=> Has(q[to], g) \/ g = x
  BY <1>1, <1>2, <1>3, AppendHas
<1>5. /\ q'[from] = Tail(q[from]) /\ q'[to] = Append(q[to], x)
      /\ \A n \in Queues \ {from, to} : q'[n] = q[n]
  BY DEF Move, FrameType
<1> HIDE DEF x
<1>6. \A n \in Queues : \A f : Has(q'[n], f) <=> IF f = x THEN n = to ELSE Has(q[n], f)
  BY <1>2, <1>3, <1>4, <1>5
<1>7. QED BY <1>2, <1>6 DEF x

LEMMA TakeHas ==
  ASSUME FrameType, Spot, NEW n \in Queues, NEW h \in Hands, q[n] # <<>>, Take(n, h)
  PROVE  \A m \in Queues : \A f : Has(q'[m], f) => Has(q[m], f)
<1>1. q[n] \in Seq(Frames) /\ Distinct(q[n])
  BY DEF FrameType, Spot
<1>2. \A f : Has(Tail(q[n]), f) => Has(q[n], f)
  BY <1>1, TailHas
<1>3. q'[n] = Tail(q[n]) /\ \A m \in Queues \ {n} : q'[m] = q[m]
  BY DEF Take, FrameType
<1>4. QED BY <1>2, <1>3

(* Frames come to the engine, the sink and between them only from there.   *)
Pipe == {"venc", "disp", "out"}

LEMMA PipeFrames ==
  ASSUME PlaceInv, [Next]_vars, NEW n \in Pipe, NEW f \in Frames, Has(q'[n], f)
  PROVE  \/ \E m \in Pipe : Has(q[m], f)
         \/ DecGot /\ n = "out" /\ f = hand["dec"] /\ Put("dec", "out")
<1>1. FrameType /\ PcType /\ Spot /\ HandInv /\ ShowInv
  BY SpotIsOnePlace DEF PlaceInv, TypeOK
<1>2. {"dec", "sink"} \subseteq Hands
      /\ {"decode", "disp", "dec", "out", "venc", "get"} \subseteq Queues /\ Pipe \subseteq Queues
  BY DEF Hands, Queues, Pipe
<1>3. ASSUME NEW from \in Queues, NEW to \in Queues, from # to, q[from] # <<>>, Move(from, to),
             to \in Pipe => from \in Pipe
      PROVE  \E m \in Pipe : Has(q[m], f)
  <2>1. /\ Has(q[from], Head(q[from]))
        /\ Has(q'[n], f) <=> IF f = Head(q[from]) THEN n = to ELSE Has(q[n], f)
    BY <1>1, <1>2, <1>3, MoveHas
  <2>2. QED BY <1>3, <2>1
<1>4. ASSUME q' = q PROVE \E m \in Pipe : Has(q[m], f)
  BY <1>4
<1>5. CASE DecGot
  <2>1. ASSUME PutHead("dec", "dec") PROVE \E m \in Pipe : Has(q[m], f)
    <3>1. q'[n] = q[n]
      BY <1>1, <1>2, <2>1 DEF PutHead, FrameType, Pipe
    <3>2. QED BY <3>1
  <2>2. ASSUME Put("dec", "out"), \A m \in Pipe : ~Has(q[m], f) PROVE n = "out" /\ f = hand["dec"]
    <3> DEFINE d == hand["dec"]
    <3>1. d \in Frames /\ q["out"] \in Seq(Frames) /\ Distinct(q["out"]) /\ ~Has(q["out"], d)
      BY <1>1, <1>2, <1>5 DEF DecGot, HandInv, FrameType, Spot
    <3>2. \A g : Has(Append(q["out"], d), g) <=> Has(q["out"], g) \/ g = d
      BY <3>1, AppendHas
    <3>3. q'["out"] = Append(q["out"], d) /\ \A m \in Queues \ {"out"} : q'[m] = q[m]
      BY <1>1, <1>2, <2>2 DEF Put, FrameType
    <3>4. QED BY <1>2, <2>2, <3>2, <3>3 DEF Pipe
  <2>3. QED BY <1>5, <2>1, <2>2 DEF DecGot
<1>6. CASE Decoder /\ ~DecGot
  <2>1. CASE DecTake
    BY <1>1, <1>2, <2>1, TakeHas DEF DecTake
  <2>2. CASE ~DecTake
    <3>1. q' = q
      BY <1>6, <2>2 DEF Decoder, DecSleep, DecExit, DecRelease, DecReadPicture, DecReadFormat,
           DecReadCancelled, DecReadFails, DecReturns, frameVars
    <3>2. QED BY <1>4, <3>1
  <2>3. QED BY <2>1, <2>2
<1>7. CASE Sink
  <2>1. CASE SinkSkip
    <3>1. q["venc"] # <<>> /\ Move("venc", "get")
      BY <2>1 DEF SinkSkip, SinkHasFrame
    <3>2. QED BY <1>2, <1>3, <3>1 DEF Pipe
  <2>2. CASE SinkTake
    BY <1>1, <1>2, <2>2, TakeHas DEF SinkTake, SinkHasFrame
  <2>3. CASE SinkDone
    <3>1. q'[n] = q[n]
      BY <1>1, <1>2, <2>3 DEF SinkDone, Put, FrameType, Pipe
    <3>2. QED BY <3>1
  <2>4. CASE SinkSleep \/ SinkExit \/ SinkPaced \/ SinkRelease
    <3>1. q' = q
      BY <2>4 DEF SinkSleep, SinkExit, SinkPaced, SinkRelease, frameVars
    <3>2. QED BY <1>4, <3>1
  <2>5. QED BY <1>7, <2>1, <2>2, <2>3, <2>4 DEF Sink
<1>8. CASE Engine
  <2>1. CASE QueueSinkFrame
    <3>1. q["get"] # <<>> /\ Move("get", "decode")
      BY <2>1 DEF QueueSinkFrame
    <3>2. QED BY <1>2, <1>3, <3>1 DEF Pipe
  <2>2. CASE PutOut
    <3>1. q' = q \/ (q["decode"] # <<>> /\ Move("decode", "dec"))
      BY <2>2 DEF PutOut
    <3>2. QED BY <1>2, <1>3, <1>4, <3>1 DEF Pipe
  <2>3. CASE GetOut
    <3>1. q' = q \/ (q["out"] # <<>> /\ (Move("out", "disp") \/ Move("out", "decode")))
      BY <2>3 DEF GetOut
    <3>2. QED BY <1>2, <1>3, <1>4, <3>1 DEF Pipe
  <2>4. CASE Output
    <3>1. q["disp"] # <<>>
      BY <1>1, <2>4 DEF Output, ShowInv
    <3>2. Move("disp", "decode") \/ Move("disp", "venc")
      BY <2>4 DEF Output
    <3>3. QED BY <1>2, <1>3, <3>1, <3>2 DEF Pipe
  <2>5. CASE FlushEnter \/ FlushSleep \/ FlushDone \/ SinkEmpty \/ DecIn \/ Stamp \/ Leave
               \/ CloseEnter \/ CloseFlush \/ CloseJoin
    <3>1. q' = q
      BY <2>5 DEF FlushEnter, FlushSleep, FlushDone, SinkEmpty, DecIn, Stamp, Leave,
           CloseEnter, CloseFlush, CloseJoin, CloseKeeps, frameVars
    <3>2. QED BY <1>4, <3>1
  <2>6. QED BY <1>8, <2>1, <2>2, <2>3, <2>4, <2>5 DEF Engine
<1>9. CASE App \/ SpuriousWakeup \/ UNCHANGED vars
  <2>1. q' = q
    BY <1>9 DEF App, SetPaused, SeekStart, SeekFlush, SeekOne, SeekArm, SeekEnd, Stop,
         AppKeeps, SpuriousWakeup, frameVars, vars
  <2>2. QED BY <1>4, <2>1
<1>10. QED BY <1>5, <1>6, <1>7, <1>8, <1>9 DEF Next

LEMMA PipeStep ==
  ASSUME PlaceInv, BufferInv, [Next]_vars PROVE PipeInv'
<1>1. /\ FrameType /\ Spot /\ HandInv /\ GotInv /\ PipeInv
  BY SpotIsOnePlace DEF PlaceInv, TypeOK, BufferInv
<1>2. "sink" \in Hands /\ Pipe \subseteq Queues
  BY DEF Hands, Queues, Pipe
<1> SUFFICES ASSUME NEW n \in Pipe, NEW f \in Frames, Has(q'[n], f)
             PROVE  Bound(f)' \/ handle'[f] = NoHandle
  BY DEF PipeInv, Pipe
<1>3. \/ \E m \in Pipe : Has(q[m], f)
      \/ DecGot /\ n = "out" /\ f = hand["dec"] /\ Put("dec", "out")
  BY PipeFrames
<1>4. (\E m \in Pipe : Has(q[m], f)) => Bound(f) \/ handle[f] = NoHandle
  BY <1>1 DEF PipeInv, Pipe
<1>5. CASE DecGot
  <2>1. f = hand["dec"] => handle[f] = NoHandle
    BY <1>1, <1>5 DEF DecGot, GotInv
  <2>2. handle' = handle
        \/ handle' = [handle EXCEPT ![hand["dec"]] =
                        [pic |-> got.pic, idx |-> got.idx, released |-> FALSE]]
    BY <1>5 DEF DecGot
  <2>3. QED BY <1>1, <1>3, <1>4, <2>1, <2>2 DEF FrameType, Bound
<1>6. CASE ~DecGot /\ handle' = handle
  BY <1>3, <1>4, <1>6 DEF Bound
<1>7. CASE DecRelease
  <2>1. handle'[f] = NoHandle \/ handle'[f] = handle[f]
    BY <1>7 DEF DecRelease, FrameRelease
  <2>2. ~DecGot
    BY <1>7 DEF DecRelease, DecGot
  <2>3. QED BY <1>3, <1>4, <2>1, <2>2 DEF Bound
<1>8. CASE SinkRelease
  <2>1. ~DecGot
    BY <1>8 DEF SinkRelease, SinkKeeps, DecGot, decVars
  <2>2. f # hand["sink"]
    BY <1>1, <1>2, <1>3, <2>1 DEF Spot
  <2>3. handle'[f] = handle[f]
    BY <1>1, <1>8, <2>2 DEF SinkRelease, FrameType
  <2>4. QED BY <1>3, <1>4, <2>1, <2>3 DEF Bound
<1>9. CASE FlushDone \/ CloseJoin
  BY <1>9, ReleaseAll DEF FlushDone, CloseJoin
<1>10. CASE DecReadPicture \/ DecReadNothing \/ FlushEnter \/ CloseFlush
  <2>1. handle' = handle
    BY <1>10 DEF DecReadPicture, DecReadNothing, DecReadFormat, DecReadCancelled, DecReadFails,
         DecReturns, FlushEnter, CloseFlush, CloseKeeps, frameVars
  <2>2. ~DecGot
    BY <1>10 DEF DecReadPicture, DecReadNothing, DecReadFormat, DecReadCancelled, DecReadFails,
         DecReturns, FlushEnter, CloseFlush, CloseKeeps, EngineKeeps, decVars, DecGot
  <2>3. QED BY <1>6, <2>1, <2>2
<1>11. QED BY <1>5, <1>6, <1>7, <1>8, <1>9, <1>10, OtherSteps DEF BufferStep

(* A buffer that the frames F give back is in no other frame. *)
LEMMA LentRelease ==
  ASSUME FrameType, CodecType, LentInv, NEW F \in SUBSET Frames, FrameRelease(F),
         got' = got, got.pic = 0, Flushed' <=> Flushed
  PROVE  LentInv'
<1> DEFINE back == {handle[f].idx : f \in {g \in F : ~handle[g].released}}
<1>1. /\ \A f \in F : handle'[f] = NoHandle
      /\ \A f \in Frames \ F : handle'[f] = handle[f]
      /\ \A i \in Idx : owned'[i] = IF i \in back THEN 0 ELSE owned[i]
  BY DEF FrameRelease
<1>2. \A f \in Frames \ F : Bound(f) => handle[f].idx \notin back
  BY DEF LentInv, Bound
<1>3. \A f \in Frames : Bound(f)' => f \notin F /\ Bound(f) /\ handle'[f] = handle[f]
  BY <1>1 DEF Bound, NoHandle
<1>4. \A i \in Idx : owned'[i] # 0 =>
        \E f \in Frames : Bound(f)' /\ handle'[f].idx = i /\ handle'[f].pic = owned'[i]
  <2> TAKE i \in Idx
  <2> HAVE owned'[i] # 0
  <2>1. i \notin back /\ owned'[i] = owned[i]
    BY <1>1
  <2>2. PICK f \in Frames : Bound(f) /\ handle[f].idx = i /\ handle[f].pic = owned[i]
    BY <2>1 DEF LentInv
  <2>3. f \notin F
    BY <2>1, <2>2 DEF Bound
  <2>4. QED BY <1>1, <2>1, <2>2, <2>3 DEF Bound
<1>5. \A f \in Frames : Bound(f)' => handle[f].idx \in Idx /\ owned'[handle[f].idx] = owned[handle[f].idx]
  BY <1>1, <1>2, <1>3 DEF LentInv
<1> HIDE DEF back
<1>6. QED BY <1>3, <1>4, <1>5 DEF LentInv

LEMMA LentRead ==
  ASSUME FrameType, CodecType, CleanInv, GotInv, LentInv, DecReadPicture, Flushed' <=> Flushed
  PROVE  LentInv'
<1> DEFINE p == Head(codec_in)
<1>1. codec_in # <<>> /\ dpc = "read" /\ UNCHANGED handle
  BY DEF DecReadPicture, DecReturns, frameVars
<1>2. p \in Nat /\ p # 0
  BY <1>1 DEF CodecType, CleanInv
<1>3. PICK i \in Idx : /\ owned[i] = 0 /\ owned' = [owned EXCEPT ![i] = p]
                       /\ got' = [NoBuf EXCEPT !.pic = p, !.idx = i]
  BY DEF DecReadPicture, DecReturns
<1> HIDE DEF p
<1>4. ~Flushed /\ got = NoBuf /\ got.pic = 0 /\ got'.pic = p /\ got'.idx = i
  BY <1>1, <1>3 DEF CleanInv, GotInv, NoBuf
<1>5. /\ owned'[i] = p /\ \A j \in Idx \ {i} : owned'[j] = owned[j]
  BY <1>3 DEF CodecType
<1>6. \A f \in Frames : Bound(f) => handle[f].idx \in Idx \ {i}
  BY <1>3, <1>4 DEF LentInv
<1>7. \A f \in Frames : Bound(f)' <=> Bound(f)
  BY <1>1 DEF Bound
<1>8. QED BY <1>1, <1>2, <1>4, <1>5, <1>6, <1>7 DEF LentInv

LEMMA LentGot ==
  ASSUME FrameType, LockedType, CodecType, PcType, Spot, HandInv, HandleInv, EngineTells,
         CleanInv, GotInv, LentInv, DecGot, Flushed' <=> Flushed
  PROVE  LentInv'
<1> DEFINE d == hand["dec"]
<1>1. /\ d \in Frames /\ handle[d] = NoHandle /\ ~Bound(d) /\ UNCHANGED owned
      /\ got' = NoBuf /\ got'.pic = 0
  BY DEF DecGot, HandInv, GotInv, FrameType, Hands, Bound, NoHandle, codecVars, NoBuf
<1>2. CASE handle' = handle /\ (got.pic = 0 \/ "flushing" \in state)
  <2>1. \A i \in Idx : owned[i] # 0 => ~(got.idx = i /\ got.pic = owned[i])
    BY <1>2 DEF EngineTells, CleanInv, Flushed
  <2>2. QED BY <1>1, <1>2, <2>1 DEF LentInv, Bound
<1>3. CASE /\ got.pic # 0
           /\ handle' = [handle EXCEPT ![d] =
                           [pic |-> got.pic, idx |-> got.idx, released |-> FALSE]]
  <2> HIDE DEF d
  <2>1. /\ handle'[d] = [pic |-> got.pic, idx |-> got.idx, released |-> FALSE]
        /\ \A f \in Frames \ {d} : handle'[f] = handle[f]
    BY <1>1, <1>3 DEF FrameType
  <2>2. /\ handle'[d].pic = got.pic /\ handle'[d].idx = got.idx /\ ~handle'[d].released
        /\ \A f \in Frames \ {d} : handle'[f] = handle[f] /\ (Bound(f)' <=> Bound(f))
    <3>1. handle'[d].pic = got.pic /\ handle'[d].idx = got.idx /\ ~handle'[d].released
      BY <2>1
    <3>2. QED BY <2>1, <3>1 DEF Bound
  <2>3. got.idx \in Idx
    BY <1>3 DEF HandleInv
  <2>4. \A i \in Idx : owned[i] # 0 =>
          \E f \in Frames : Bound(f)' /\ handle'[f].idx = i /\ handle'[f].pic = owned[i]
    <3> TAKE i \in Idx
    <3> HAVE owned[i] # 0
    <3>1. CASE got.idx = i /\ got.pic = owned[i]
      BY <1>1, <2>2, <3>1 DEF Bound
    <3>2. ASSUME NEW f \in Frames, Bound(f), handle[f].idx = i, handle[f].pic = owned[i]
          PROVE  Bound(f)' /\ handle'[f].idx = i /\ handle'[f].pic = owned[i]
      BY <1>1, <2>2, <3>2
    <3>3. QED BY <3>1, <3>2 DEF LentInv
  <2>5. \A f \in Frames : Bound(f)' => f = d \/ (Bound(f) /\ handle'[f] = handle[f])
    BY <2>2
  <2>6. QED BY <1>1, <1>3, <2>2, <2>3, <2>4, <2>5 DEF LentInv, Bound
<1>4. QED BY <1>2, <1>3 DEF DecGot

LEMMA LentSink ==
  ASSUME FrameType, CodecType, PcType, Spot, HandInv, HandleInv, GotInv, LentInv, SinkRelease,
         Flushed' <=> Flushed, owned[handle[hand["sink"]].idx] # 0
  PROVE  LentInv'
<1> DEFINE k == hand["sink"]
           i == handle[k].idx
<1>1. /\ k \in Frames /\ Bound(k) /\ i \in Idx /\ UNCHANGED got
      /\ owned' = [owned EXCEPT ![i] = 0]
      /\ handle' = [handle EXCEPT ![k].released = TRUE, ![k].pic = 0]
  BY DEF SinkRelease, SinkKeeps, decVars, HandInv, GotInv, LentInv, FrameType, Hands
<1> HIDE DEF k, i
<1>2. /\ owned'[i] = 0 /\ \A j \in Idx \ {i} : owned'[j] = owned[j]
      /\ \A f \in Frames \ {k} : handle'[f] = handle[f]
      /\ handle'[k] = [[handle[k] EXCEPT !.released = TRUE] EXCEPT !.pic = 0]
  BY <1>1 DEF FrameType, CodecType
<1>3. /\ handle'[k].released
      /\ \A f \in Frames \ {k} : Bound(f)' <=> Bound(f)
  <2>1. handle[k] \in [pic : Nat, idx : Idx \cup {0}, released : BOOLEAN]
    BY <1>1 DEF FrameType
  <2>2. handle'[k].released = TRUE
    BY <1>2, <2>1
  <2>3. QED BY <1>2, <2>2 DEF Bound
<1>4. /\ \A f \in Frames \ {k} : Bound(f) => handle[f].idx # i
      /\ got.pic # 0 => got.idx \in Idx /\ got.idx # i
  BY <1>1 DEF LentInv, HandleInv, i
<1>5. \A j \in Idx : owned'[j] # 0 => owned[j] = owned'[j] /\ j # i
  BY <1>2
<1>6. \A f \in Frames : Bound(f) /\ handle[f].idx # i => f # k
  BY DEF i
<1>7. \A j \in Idx : owned'[j] # 0 =>
        \/ \E f \in Frames : Bound(f)' /\ handle'[f].idx = j /\ handle'[f].pic = owned'[j]
        \/ got'.idx = j /\ got'.pic = owned'[j]
  <2> TAKE j \in Idx
  <2> HAVE owned'[j] # 0
  <2>1. CASE got.idx = j /\ got.pic = owned[j]
    BY <1>1, <1>5, <2>1
  <2>2. ASSUME NEW f \in Frames, Bound(f), handle[f].idx = j, handle[f].pic = owned[j]
        PROVE  Bound(f)' /\ handle'[f].idx = j /\ handle'[f].pic = owned'[j]
    BY <1>2, <1>3, <1>5, <1>6, <2>2
  <2>3. QED BY <1>5, <2>1, <2>2 DEF LentInv
<1>8. \A f \in Frames : Bound(f)' =>
        f # k /\ Bound(f) /\ handle'[f] = handle[f] /\ owned'[handle[f].idx] = owned[handle[f].idx]
  <2> SUFFICES ASSUME NEW f \in Frames, Bound(f)'
               PROVE  f # k /\ Bound(f) /\ handle'[f] = handle[f]
                      /\ owned'[handle[f].idx] = owned[handle[f].idx]
    OBVIOUS
  <2>1. f \in Frames \ {k}
    BY <1>3 DEF Bound
  <2>2. Bound(f) /\ handle'[f] = handle[f]
    BY <1>2, <1>3, <2>1
  <2>3. handle[f].idx \in Idx \ {i}
    BY <1>4, <2>1, <2>2 DEF LentInv
  <2>4. QED BY <1>2, <2>1, <2>2, <2>3
<1>9. got.pic # 0 => owned'[got.idx] = owned[got.idx]
  BY <1>2, <1>4
<1>10. got' = got
  BY <1>1
<1>11. ~Flushed' => /\ \A f \in Frames : Bound(f)' => owned'[handle'[f].idx] = handle'[f].pic
                    /\ got'.pic # 0 => owned'[got'.idx] = got'.pic
  BY <1>8, <1>9, <1>10 DEF LentInv
<1>12. QED BY <1>7, <1>8, <1>10, <1>11 DEF LentInv

LEMMA LentStep ==
  ASSUME PlaceInv, BufferInv, [Next]_vars PROVE LentInv'
<1>1. /\ FrameType /\ LockedType /\ CodecType /\ PcType /\ Spot /\ HandInv /\ FlagInv
      /\ HandleInv /\ EngineTells /\ CleanInv /\ GotInv /\ LentInv
  BY SpotIsOnePlace DEF PlaceInv, TypeOK, BufferInv
<1>2. ASSUME ~FlushEnter, ~FlushDone, ~CloseFlush PROVE Flushed' <=> Flushed
  BY <1>1, <1>2, FlushedStep
<1>3. CASE FlushEnter \/ CloseFlush
  <2>1. CodecFlush /\ Flushed' /\ UNCHANGED <<handle, got>>
    BY <1>3 DEF FlushEnter, CloseFlush, CloseKeeps, EngineKeeps, Goto, Flushed, frameVars, decVars
  <2>2. \A i \in Idx : owned'[i] = 0
    BY <2>1 DEF CodecFlush
  <2>3. QED BY <1>1, <2>1, <2>2 DEF LentInv, Bound
<1>4. CASE FlushDone \/ CloseJoin
  <2>1. FrameRelease(Frames) /\ Flushed /\ got' = got /\ dpc # "got"
    BY <1>1, <1>4 DEF FlushDone, CloseJoin, CloseKeeps, EngineKeeps, Flushed, decVars, FlagInv
  <2>2. got.pic = 0 /\ \A i \in Idx : owned'[i] = 0
    BY <1>1, <2>1 DEF GotInv, NoBuf, CleanInv, FrameRelease
  <2>3. \A f \in Frames : ~Bound(f)'
    BY <2>1, ReleaseAll
  <2>4. QED BY <2>1, <2>2, <2>3 DEF LentInv
<1>5. CASE DecRelease
  <2>1. FrameRelease({hand["dec"]}) /\ got' = got /\ got.pic = 0
    BY <1>1, <1>5 DEF DecRelease, GotInv, NoBuf
  <2>2. {hand["dec"]} \in SUBSET Frames
    BY <1>1, <1>5 DEF DecRelease, HandInv, FrameType, Hands
  <2>3. ~FlushEnter /\ ~FlushDone /\ ~CloseFlush
    BY <1>5 DEF DecRelease, FlushEnter, FlushDone, CloseFlush, CloseKeeps, EngineKeeps, decVars
  <2>4. QED BY <1>1, <1>2, <2>1, <2>2, <2>3, LentRelease
<1>6. CASE DecReadPicture \/ DecReadNothing \/ DecGot
  <2>1. ~FlushEnter /\ ~FlushDone /\ ~CloseFlush
    BY <1>6 DEF DecReadPicture, DecReadNothing, DecReadFormat, DecReadCancelled, DecReadFails,
         DecReturns, DecGot, FlushEnter, FlushDone, CloseFlush, CloseKeeps, EngineKeeps, decVars
  <2>2. CASE DecReadPicture
    BY <1>1, <1>2, <2>1, <2>2, LentRead
  <2>3. CASE DecGot
    BY <1>1, <1>2, <2>1, <2>3, LentGot
  <2>4. CASE DecReadNothing
    <3>1. dpc = "read" /\ got'.pic = 0 /\ UNCHANGED <<handle, owned>>
      BY <2>4 DEF DecReadNothing, DecReadFormat, DecReadCancelled, DecReadFails, DecReturns,
           frameVars, NoBuf, Failed
    <3>2. got.pic = 0
      BY <1>1, <3>1 DEF GotInv, NoBuf
    <3>3. QED BY <1>1, <1>2, <2>1, <3>1, <3>2 DEF LentInv, Bound
  <2>5. QED BY <1>6, <2>2, <2>3, <2>4
<1>7. CASE SinkRelease
  <2>1. ~FlushEnter /\ ~FlushDone /\ ~CloseFlush
    BY <1>7 DEF SinkRelease, FlushEnter, FlushDone, CloseFlush, CloseKeeps, EngineKeeps
  <2>2. CASE owned[handle[hand["sink"]].idx] # 0
    BY <1>1, <1>2, <1>7, <2>1, <2>2, LentSink
  <2>3. CASE owned[handle[hand["sink"]].idx] = 0
    <3>1. UNCHANGED <<handle, owned, got>>
      BY <1>7, <2>3 DEF SinkRelease, SinkKeeps, decVars
    <3>2. QED BY <1>1, <1>2, <2>1, <3>1 DEF LentInv, Bound
  <2>4. QED BY <2>2, <2>3
<1>8. CASE ~BufferStep
  <2>1. UNCHANGED <<handle, owned, got>> /\ (Flushed' <=> Flushed)
    BY <1>2, <1>8, OtherSteps DEF BufferStep
  <2>2. QED BY <1>1, <2>1 DEF LentInv, Bound
<1>9. QED BY <1>3, <1>4, <1>5, <1>6, <1>7, <1>8 DEF BufferStep

LEMMA BufferInit ==
  ASSUME Init PROVE BufferInv
<1>1. EngineTells
  BY DEF Init, EngineTells
<1>2. CleanInv
  BY DEF Init, CleanInv, Flushed
<1>3. GotInv
  BY DEF Init, GotInv
<1>4. \A f \in Frames : handle[f] = NoHandle /\ ~Bound(f)
  BY DEF Init, Bound, NoHandle
<1>5. PipeInv
  BY <1>4 DEF PipeInv
<1>6. LentInv
  <2>1. got.pic = 0 /\ \A i \in Idx : owned[i] = 0
    BY DEF Init, NoBuf
  <2>2. QED BY <1>4, <2>1 DEF LentInv
<1>7. QED BY <1>1, <1>2, <1>3, <1>5, <1>6 DEF BufferInv

LEMMA BufferStepKeeps ==
  ASSUME PlaceInv, BufferInv, [Next]_vars PROVE PlaceInv' /\ BufferInv'
<1>1. PcType /\ EngineTells
  BY DEF PlaceInv, TypeOK, BufferInv
<1>2. EngineTells'
  BY <1>1, EngineTellsStep
<1>3. QED BY <1>2, PlaceStep, CleanStep, GotStep, PipeStep, LentStep DEF BufferInv

LEMMA BufferInvariant == Spec => [](PlaceInv /\ BufferInv)
<1>1. Init => PlaceInv /\ BufferInv
  BY PlaceInit, BufferInit
<1>2. PlaceInv /\ BufferInv /\ [Next]_vars => PlaceInv' /\ BufferInv'
  BY BufferStepKeeps
<1>3. QED BY <1>1, <1>2, PTL DEF Spec

(* No output buffer leaks and none is used by two, for any number of       *)
(* frames and buffers, although a flush, the close, the decoder thread and *)
(* the sink thread all give buffers back.                                  *)
THEOREM BuffersCorrect == Spec => []BuffersAccounted
<1>1. PlaceInv /\ BufferInv => BuffersAccounted
  <2> SUFFICES ASSUME PlaceInv, BufferInv PROVE BuffersAccounted
    OBVIOUS
  <2>1. EngineTells /\ CleanInv /\ GotInv /\ LentInv /\ PcType
    BY DEF BufferInv, PlaceInv, TypeOK
  <2>2. Flushed => "flushing" \in state \/ ~run
    BY <2>1 DEF EngineTells, Flushed
  <2>3. \A f \in Frames : Bound(f) =>
          \/ owned[handle[f].idx] = handle[f].pic
          \/ owned[handle[f].idx] = 0 /\ ("flushing" \in state \/ ~run)
    BY <2>1, <2>2 DEF CleanInv, LentInv
  <2>4. spc \in {"pace", "render", "drop"} => Bound(hand["sink"])
    BY <2>1 DEF GotInv
  <2>5. QED BY <2>1, <2>3, <2>4 DEF LentInv, BuffersAccounted
<1>2. QED BY <1>1, BufferInvariant, PTL

-----------------------------------------------------------------------------
(* f comes before g in s. *)
Precedes(s, f, g) == \E i, j \in DOMAIN s : i < j /\ s[i] = f /\ s[j] = g

LEMMA TailPrecedes ==
  ASSUME NEW S, NEW s \in Seq(S), s # <<>>
  PROVE  /\ \A f, g : Precedes(Tail(s), f, g) => Precedes(s, f, g)
         /\ \A g : Has(Tail(s), g) => Precedes(s, Head(s), g)
<1> DEFINE t == Tail(s)
<1>1. /\ Len(s) \in Nat \ {0} /\ DOMAIN s = 1..Len(s) /\ DOMAIN t = 1..Len(s) - 1
      /\ \A i \in DOMAIN t : i + 1 \in DOMAIN s /\ t[i] = s[i + 1]
      /\ Head(s) = s[1] /\ 1 \in DOMAIN s
  OBVIOUS
<1> HIDE DEF t
<1>2. ASSUME NEW f, NEW g, Precedes(t, f, g) PROVE Precedes(s, f, g)
  <2>1. PICK i \in DOMAIN t, j \in DOMAIN t : i < j /\ t[i] = f /\ t[j] = g
    BY <1>2 DEF Precedes
  <2>2. i + 1 \in DOMAIN s /\ j + 1 \in DOMAIN s /\ i + 1 < j + 1 /\ s[i + 1] = f /\ s[j + 1] = g
    BY <1>1, <2>1
  <2>3. QED BY <2>2 DEF Precedes
<1>3. ASSUME NEW g, Has(t, g) PROVE Precedes(s, Head(s), g)
  <2>1. PICK i \in DOMAIN t : t[i] = g
    BY <1>3 DEF Has
  <2>2. i + 1 \in DOMAIN s /\ 1 < i + 1 /\ s[i + 1] = g
    BY <1>1, <2>1
  <2>3. QED BY <1>1, <2>2 DEF Precedes
<1>4. QED BY <1>2, <1>3 DEF t

LEMMA AppendPrecedes ==
  ASSUME NEW S, NEW s \in Seq(S), NEW x \in S
  PROVE  \A f, g : Precedes(Append(s, x), f, g) => Precedes(s, f, g) \/ (Has(s, f) /\ g = x)
<1> DEFINE t == Append(s, x)
<1>1. /\ Len(s) \in Nat /\ DOMAIN s = 1..Len(s) /\ DOMAIN t = 1..Len(s) + 1
      /\ \A i \in DOMAIN s : t[i] = s[i]
      /\ t[Len(s) + 1] = x
  OBVIOUS
<1> HIDE DEF t
<1> SUFFICES ASSUME NEW f, NEW g, Precedes(t, f, g)
             PROVE  Precedes(s, f, g) \/ (Has(s, f) /\ g = x)
  BY DEF t
<1>2. PICK i \in DOMAIN t, j \in DOMAIN t : i < j /\ t[i] = f /\ t[j] = g
  BY DEF Precedes
<1>3. i \in DOMAIN s /\ s[i] = f
  BY <1>1, <1>2
<1>4. CASE j \in DOMAIN s
  BY <1>1, <1>2, <1>3, <1>4 DEF Precedes
<1>5. CASE j = Len(s) + 1
  BY <1>1, <1>2, <1>3, <1>5 DEF Has
<1>6. QED BY <1>1, <1>2, <1>4, <1>5

(* f is on its way to be shown, and before g.                              *)
InPipe(f) == \E n \in Pipe : Has(q[n], f)
Ahead(f, g) == \/ \E n \in Pipe : Precedes(q[n], f, g)
               \/ Has(q["venc"], f) /\ (Has(q["disp"], g) \/ Has(q["out"], g))
               \/ Has(q["disp"], f) /\ Has(q["out"], g)

LEMMA MoveAhead ==
  ASSUME FrameType, Spot, NEW from \in Queues, NEW to \in Queues, from # to,
         q[from] # <<>>, Move(from, to),
         to \in Pipe => <<from, to>> \in {<<"out", "disp">>, <<"disp", "venc">>}
  PROVE  \A f, g : Ahead(f, g)' => Ahead(f, g)
<1> DEFINE x == Head(q[from])
<1>1. /\ x \in Frames /\ Has(q[from], x)
      /\ \A n \in Queues : \A f : Has(q'[n], f) <=> IF f = x THEN n = to ELSE Has(q[n], f)
  BY MoveHas
<1>2. q[from] \in Seq(Frames) /\ q[to] \in Seq(Frames)
  BY DEF FrameType
<1>3. /\ \A f, g : Precedes(Tail(q[from]), f, g) => Precedes(q[from], f, g)
      /\ \A g : Has(Tail(q[from]), g) => Precedes(q[from], x, g)
  BY <1>2, TailPrecedes
<1>4. \A f, g : Precedes(Append(q[to], x), f, g) => Precedes(q[to], f, g) \/ (Has(q[to], f) /\ g = x)
  BY <1>1, <1>2, AppendPrecedes
<1>5. /\ q'[from] = Tail(q[from]) /\ q'[to] = Append(q[to], x)
      /\ \A n \in Queues \ {from, to} : q'[n] = q[n]
  BY DEF Move, FrameType
<1> HIDE DEF x
<1>6. {"venc", "disp", "out"} = Pipe /\ Pipe \subseteq Queues
  BY DEF Pipe, Queues
<1> SUFFICES ASSUME NEW f, NEW g, Ahead(f, g)' PROVE Ahead(f, g)
  OBVIOUS
<1>7. \/ \E n \in Pipe : Precedes(q'[n], f, g)
      \/ Has(q'["venc"], f) /\ (Has(q'["disp"], g) \/ Has(q'["out"], g))
      \/ Has(q'["disp"], f) /\ Has(q'["out"], g)
  BY DEF Ahead
<1>8. CASE to \notin Pipe
  <2>1. \A n \in Pipe : Precedes(q'[n], f, g) => Precedes(q[n], f, g)
    BY <1>3, <1>5, <1>6, <1>8
  <2>2. \A n \in Pipe : /\ Has(q'[n], f) => Has(q[n], f)
                        /\ Has(q'[n], g) => Has(q[n], g)
    BY <1>1, <1>6, <1>8
  <2>3. QED BY <1>6, <1>7, <2>1, <2>2 DEF Ahead
<1>9. CASE from = "out" /\ to = "disp"
  <2>1. /\ Precedes(q'["out"], f, g) => Precedes(q["out"], f, g)
        /\ Has(q'["out"], g) => Precedes(q["out"], x, g) /\ Has(q["out"], g)
        /\ Precedes(q'["disp"], f, g) => Precedes(q["disp"], f, g) \/ (Has(q["disp"], f) /\ g = x)
        /\ q'["venc"] = q["venc"]
    BY <1>1, <1>3, <1>4, <1>5, <1>6, <1>9
  <2>2. /\ Has(q'["disp"], f) => Has(q["disp"], f) \/ f = x
        /\ Has(q'["disp"], g) => Has(q["disp"], g) \/ g = x
        /\ Has(q["out"], x)
    BY <1>1, <1>6, <1>9
  <2>3. QED BY <1>6, <1>7, <2>1, <2>2 DEF Ahead
<1>10. CASE from = "disp" /\ to = "venc"
  <2>1. /\ Precedes(q'["disp"], f, g) => Precedes(q["disp"], f, g)
        /\ Has(q'["disp"], g) => Precedes(q["disp"], x, g) /\ Has(q["disp"], g)
        /\ Has(q'["disp"], f) => Has(q["disp"], f)
        /\ Precedes(q'["venc"], f, g) => Precedes(q["venc"], f, g) \/ (Has(q["venc"], f) /\ g = x)
        /\ q'["out"] = q["out"]
    BY <1>1, <1>3, <1>4, <1>5, <1>6, <1>10
  <2>2. /\ Has(q'["venc"], f) => Has(q["venc"], f) \/ f = x
        /\ Has(q["disp"], x)
    BY <1>1, <1>6, <1>10
  <2>3. QED BY <1>6, <1>7, <2>1, <2>2 DEF Ahead
<1>11. QED BY <1>8, <1>9, <1>10

(* The sink takes the first of them. *)
LEMMA TakeAhead ==
  ASSUME FrameType, Spot, NEW n \in Queues, NEW h \in Hands, q[n] # <<>>, Take(n, h)
  PROVE  /\ \A f, g : Ahead(f, g)' => Ahead(f, g)
         /\ n = "venc" => \A g : InPipe(g)' => Ahead(Head(q["venc"]), g)
<1>1. q[n] \in Seq(Frames) /\ Distinct(q[n])
  BY DEF FrameType, Spot
<1>2. /\ \A f, g : Precedes(Tail(q[n]), f, g) => Precedes(q[n], f, g)
      /\ \A g : Has(Tail(q[n]), g) => Precedes(q[n], Head(q[n]), g)
      /\ Has(q[n], Head(q[n]))
  BY <1>1, TailPrecedes, TailHas
<1>3. q'[n] = Tail(q[n]) /\ \A m \in Queues \ {n} : q'[m] = q[m]
  BY DEF Take, FrameType
<1>4. {"venc", "disp", "out"} = Pipe /\ Pipe \subseteq Queues
  BY DEF Pipe, Queues
<1>6. \A m \in Pipe : \A f : Has(q'[m], f) => Has(q[m], f)
  BY <1>4, TakeHas
<1>7. \A m \in Pipe : \A f, g : Precedes(q'[m], f, g) => Precedes(q[m], f, g)
  BY <1>2, <1>3, <1>4
<1>8. ASSUME NEW f, NEW g, Ahead(f, g)' PROVE Ahead(f, g)
  <2>1. \/ \E m \in Pipe : Precedes(q'[m], f, g)
        \/ Has(q'["venc"], f) /\ (Has(q'["disp"], g) \/ Has(q'["out"], g))
        \/ Has(q'["disp"], f) /\ Has(q'["out"], g)
    BY <1>8 DEF Ahead
  <2>2. QED BY <1>4, <1>6, <1>7, <2>1 DEF Ahead
<1>9. ASSUME n = "venc", NEW g, InPipe(g)' PROVE Ahead(Head(q["venc"]), g)
  <2>1. PICK m \in Pipe : Has(q'[m], g)
    BY <1>9 DEF InPipe
  <2>2. QED BY <1>2, <1>3, <1>4, <1>9, <2>1 DEF Ahead
<1>10. QED BY <1>8, <1>9

(* The order is kept; what the decoder thread brings comes last.           *)
LEMMA AheadStep ==
  ASSUME PlaceInv, [Next]_vars, NEW f \in Frames, NEW g \in Frames, Ahead(f, g)'
  PROVE  Ahead(f, g) \/ (DecGot /\ Put("dec", "out") /\ InPipe(f) /\ g = hand["dec"])
<1>1. FrameType /\ PcType /\ Spot /\ HandInv /\ ShowInv
  BY SpotIsOnePlace DEF PlaceInv, TypeOK
<1>2. {"dec", "sink"} \subseteq Hands
      /\ {"decode", "disp", "dec", "out", "venc", "get"} \subseteq Queues
      /\ {"venc", "disp", "out"} = Pipe
  BY DEF Hands, Queues, Pipe
<1>3. \/ \E m \in Pipe : Precedes(q'[m], f, g)
      \/ Has(q'["venc"], f) /\ (Has(q'["disp"], g) \/ Has(q'["out"], g))
      \/ Has(q'["disp"], f) /\ Has(q'["out"], g)
  BY DEF Ahead
<1>4. ASSUME \A n \in Pipe : q'[n] = q[n] PROVE Ahead(f, g)
  BY <1>2, <1>3, <1>4 DEF Ahead
<1>5. CASE DecGot
  <2>1. CASE PutHead("dec", "dec")
    <3>1. \A n \in Pipe : q'[n] = q[n]
      BY <1>1, <1>2, <2>1 DEF PutHead, FrameType
    <3>2. QED BY <1>4, <3>1
  <2>2. CASE Put("dec", "out")
    <3> DEFINE d == hand["dec"]
    <3>1. d \in Frames /\ q["out"] \in Seq(Frames) /\ Distinct(q["out"]) /\ ~Has(q["out"], d)
      BY <1>1, <1>2, <1>5 DEF DecGot, HandInv, FrameType, Spot
    <3>2. /\ \A x : Has(Append(q["out"], d), x) <=> Has(q["out"], x) \/ x = d
          /\ \A x, y : Precedes(Append(q["out"], d), x, y) =>
               Precedes(q["out"], x, y) \/ (Has(q["out"], x) /\ y = d)
      BY <3>1, AppendHas, AppendPrecedes
    <3>3. q'["out"] = Append(q["out"], d) /\ \A m \in Queues \ {"out"} : q'[m] = q[m]
      BY <1>1, <1>2, <2>2 DEF Put, FrameType
    <3> HIDE DEF d
    <3>4. Ahead(f, g) \/ (InPipe(f) /\ g = d)
      BY <1>2, <1>3, <3>2, <3>3 DEF Ahead, InPipe
    <3>5. QED BY <1>5, <2>2, <3>4 DEF d
  <2>3. QED BY <1>5, <2>1, <2>2 DEF DecGot
<1>6. ASSUME q' = q PROVE Ahead(f, g)
  BY <1>4, <1>6
<1>7. CASE Decoder /\ ~DecGot
  <2>1. CASE DecTake
    BY <1>1, <1>2, <2>1, TakeAhead DEF DecTake
  <2>2. CASE ~DecTake
    <3>1. q' = q
      BY <1>7, <2>2 DEF Decoder, DecSleep, DecExit, DecRelease, DecReadPicture, DecReadFormat,
           DecReadCancelled, DecReadFails, DecReturns, frameVars
    <3>2. QED BY <1>6, <3>1
  <2>3. QED BY <2>1, <2>2
<1>8. CASE Sink
  <2>1. CASE SinkSkip
    <3>1. q["venc"] # <<>> /\ Move("venc", "get")
      BY <2>1 DEF SinkSkip, SinkHasFrame
    <3>2. QED BY <1>1, <1>2, <3>1, MoveAhead DEF Pipe
  <2>2. CASE SinkTake
    BY <1>1, <1>2, <2>2, TakeAhead DEF SinkTake, SinkHasFrame
  <2>3. CASE SinkDone
    <3>1. \A n \in Pipe : q'[n] = q[n]
      BY <1>1, <1>2, <2>3 DEF SinkDone, Put, FrameType
    <3>2. QED BY <1>4, <3>1
  <2>4. CASE SinkSleep \/ SinkExit \/ SinkPaced \/ SinkRelease
    <3>1. q' = q
      BY <2>4 DEF SinkSleep, SinkExit, SinkPaced, SinkRelease, frameVars
    <3>2. QED BY <1>6, <3>1
  <2>5. QED BY <1>8, <2>1, <2>2, <2>3, <2>4 DEF Sink
<1>9. CASE Engine
  <2>1. CASE QueueSinkFrame
    <3>1. q["get"] # <<>> /\ Move("get", "decode")
      BY <2>1 DEF QueueSinkFrame
    <3>2. QED BY <1>1, <1>2, <3>1, MoveAhead DEF Pipe
  <2>2. CASE PutOut
    <3>1. q' = q \/ (q["decode"] # <<>> /\ Move("decode", "dec"))
      BY <2>2 DEF PutOut
    <3>2. QED BY <1>1, <1>2, <1>6, <3>1, MoveAhead DEF Pipe
  <2>3. CASE GetOut
    <3>1. q' = q \/ (q["out"] # <<>> /\ (Move("out", "disp") \/ Move("out", "decode")))
      BY <2>3 DEF GetOut
    <3>2. QED BY <1>1, <1>2, <1>6, <3>1, MoveAhead DEF Pipe
  <2>4. CASE Output
    <3>1. q["disp"] # <<>>
      BY <1>1, <2>4 DEF Output, ShowInv
    <3>2. Move("disp", "decode") \/ Move("disp", "venc")
      BY <2>4 DEF Output
    <3>3. QED BY <1>1, <1>2, <3>1, <3>2, MoveAhead DEF Pipe
  <2>5. CASE FlushEnter \/ FlushSleep \/ FlushDone \/ SinkEmpty \/ DecIn \/ Stamp \/ Leave
               \/ CloseEnter \/ CloseFlush \/ CloseJoin
    <3>1. q' = q
      BY <2>5 DEF FlushEnter, FlushSleep, FlushDone, SinkEmpty, DecIn, Stamp, Leave,
           CloseEnter, CloseFlush, CloseJoin, CloseKeeps, frameVars
    <3>2. QED BY <1>6, <3>1
  <2>6. QED BY <1>9, <2>1, <2>2, <2>3, <2>4, <2>5 DEF Engine
<1>10. CASE App \/ SpuriousWakeup \/ UNCHANGED vars
  <2>1. q' = q
    BY <1>10 DEF App, SetPaused, SeekStart, SeekFlush, SeekOne, SeekArm, SeekEnd, Stop,
         AppKeeps, SpuriousWakeup, frameVars, vars
  <2>2. QED BY <1>6, <2>1
<1>11. QED BY <1>5, <1>7, <1>8, <1>9, <1>10 DEF Next

-----------------------------------------------------------------------------
(***************************************************************************)
(* The order of the pictures: those shown, the one the sink has, those in  *)
(* the queues from the decoder to the sink, the one the decoder thread has *)
(* got, those in the codec.  During a flush the frames still have the      *)
(* pictures of before, and nothing is claimed of them.                     *)
(***************************************************************************)
InSink(f)   == spc \in {"pace", "render", "drop"} /\ hand["sink"] = f
OnWay(f)    == InPipe(f) \/ InSink(f)
First(f, g) == Ahead(f, g) \/ (InSink(f) /\ InPipe(g))

Recent(p)    == shown < p /\ flushed < p /\ p <= sent
Undecoded(p) == \A i \in DOMAIN codec_in : p < codec_in[i]

CodecOrder ==
  /\ shown <= sent /\ flushed <= sent
  /\ \A i \in DOMAIN codec_in : Recent(codec_in[i])
  /\ \A i, j \in DOMAIN codec_in : i < j => codec_in[i] < codec_in[j]

WayOrder ==
  /\ got.pic # 0 => Recent(got.pic) /\ Undecoded(got.pic)
  /\ \A f \in Frames : Bound(f) /\ OnWay(f) =>
       /\ Recent(handle[f].pic) /\ Undecoded(handle[f].pic)
       /\ got.pic # 0 => handle[f].pic < got.pic
  /\ \A f, g \in Frames : Bound(f) /\ Bound(g) /\ First(f, g) => handle[f].pic < handle[g].pic

OrderInv == CodecOrder /\ (~Flushed => WayOrder)

LEMMA SinkHand ==
  ASSUME PlaceInv, [Next]_vars, spc' \in {"pace", "render", "drop"}
  PROVE  \/ spc \in {"pace", "render", "drop"} /\ hand'["sink"] = hand["sink"]
         \/ /\ q["venc"] # <<>> /\ Take("venc", "sink") /\ hand'["sink"] = Head(q["venc"])
<1>1. FrameType
  BY DEF PlaceInv, TypeOK
<1>2. {"dec", "sink"} \subseteq Hands /\ hand \in [Hands -> Frames \cup {0}]
  BY <1>1 DEF Hands, FrameType
<1>3. CASE Decoder
  <2>1. UNCHANGED spc /\ hand'["sink"] = hand["sink"]
    BY <1>2, <1>3 DEF Decoder, DecSleep, DecTake, DecExit, DecRelease, DecReadPicture,
         DecReadFormat, DecReadCancelled, DecReadFails, DecReturns, DecGot, DecKeeps,
         Take, Put, PutHead, frameVars
  <2>2. QED BY <2>1
<1>4. CASE SinkTake
  BY <1>2, <1>4 DEF SinkTake, SinkHasFrame, Take
<1>5. CASE SinkSleep \/ SinkExit \/ SinkSkip \/ SinkPaced \/ SinkRelease \/ SinkDone
  BY <1>5 DEF SinkSleep, SinkExit, SinkSkip, SinkPaced, SinkRelease, SinkDone, frameVars
<1>6. CASE Engine
  BY <1>6 DEF Engine, FlushEnter, FlushSleep, FlushDone, QueueSinkFrame, SinkEmpty, PutOut,
       GetOut, Output, DecIn, Stamp, Leave, CloseEnter, CloseFlush, CloseJoin, CloseKeeps,
       EngineKeeps, frameVars
<1>7. CASE App \/ SpuriousWakeup \/ UNCHANGED vars
  BY <1>7 DEF App, SetPaused, SeekStart, SeekFlush, SeekOne, SeekArm, SeekEnd, Stop,
       AppKeeps, SpuriousWakeup, frameVars, vars
<1>8. QED BY <1>3, <1>4, <1>5, <1>6, <1>7 DEF Next, Sink

LEMMA WayStep ==
  ASSUME PlaceInv, [Next]_vars, NEW f \in Frames, OnWay(f)'
  PROVE  OnWay(f) \/ (DecGot /\ Put("dec", "out") /\ f = hand["dec"])
<1>1. FrameType /\ PcType /\ Spot /\ HandInv
  BY SpotIsOnePlace DEF PlaceInv, TypeOK
<1>2. {"dec", "sink"} \subseteq Hands /\ Pipe \subseteq Queues /\ "venc" \in Pipe
  BY DEF Hands, Pipe, Queues
<1>3. CASE InPipe(f)'
  <2>1. PICK n \in Pipe : Has(q'[n], f)
    BY <1>3 DEF InPipe
  <2>2. QED BY <2>1, PipeFrames DEF OnWay, InPipe
<1>4. CASE InSink(f)'
  <2>1. spc' \in {"pace", "render", "drop"} /\ hand'["sink"] = f
    BY <1>4 DEF InSink
  <2>2. q["venc"] # <<>> => Has(q["venc"], Head(q["venc"]))
    BY <1>1, <1>2, TailHas DEF FrameType, Spot
  <2>3. QED BY <1>2, <2>1, <2>2, SinkHand DEF OnWay, InPipe, InSink
<1>5. QED BY <1>3, <1>4 DEF OnWay

LEMMA AheadInPipe ==
  ASSUME NEW f, NEW g, Ahead(f, g) PROVE InPipe(f) /\ InPipe(g)
<1>1. \A s : Precedes(s, f, g) => Has(s, f) /\ Has(s, g)
  BY DEF Precedes, Has
<1>2. {"venc", "disp", "out"} = Pipe
  BY DEF Pipe
<1>3. QED BY <1>1, <1>2 DEF Ahead, InPipe

LEMMA FirstStep ==
  ASSUME PlaceInv, [Next]_vars, NEW f \in Frames, NEW g \in Frames, First(f, g)'
  PROVE  First(f, g) \/ (DecGot /\ Put("dec", "out") /\ OnWay(f) /\ g = hand["dec"])
<1>1. FrameType /\ Spot
  BY SpotIsOnePlace DEF PlaceInv, TypeOK
<1>2. "sink" \in Hands /\ "venc" \in Queues
  BY DEF Hands, Queues
<1>3. CASE Ahead(f, g)'
  BY <1>3, AheadStep DEF First, OnWay
<1>4. CASE InSink(f)' /\ InPipe(g)'
  <2>1. spc' \in {"pace", "render", "drop"} /\ hand'["sink"] = f
    BY <1>4 DEF InSink
  <2>2. PICK n \in Pipe : Has(q'[n], g)
    BY <1>4 DEF InPipe
  <2>3. InPipe(g) \/ (DecGot /\ Put("dec", "out") /\ g = hand["dec"])
    BY <2>2, PipeFrames DEF InPipe
  <2>4. CASE q["venc"] # <<>> /\ Take("venc", "sink") /\ f = Head(q["venc"])
    BY <1>1, <1>2, <1>4, <2>4, TakeAhead DEF First
  <2>5. CASE InSink(f)
    BY <2>3, <2>5 DEF First, OnWay
  <2>6. QED BY <2>1, <2>4, <2>5, SinkHand DEF InSink
<1>5. QED BY <1>3, <1>4 DEF First

(* A step that only takes pictures from the queues.                        *)
LEMMA OrderShrinks ==
  ASSUME PlaceInv, OrderInv, [Next]_vars,
         UNCHANGED <<shown, flushed, sent, codec_in>>, Flushed' <=> Flushed,
         got' = got \/ got'.pic = 0,
         ~(DecGot /\ Put("dec", "out")),
         \A f \in Frames : Bound(f)' => Bound(f) /\ handle'[f] = handle[f]
  PROVE  OrderInv'
<1>1. CodecOrder'
  BY DEF OrderInv, CodecOrder, Recent
<1>2. ASSUME ~Flushed PROVE WayOrder'
  <2>1. WayOrder /\ shown' = shown /\ flushed' = flushed /\ sent' = sent /\ codec_in' = codec_in
    BY <1>2 DEF OrderInv
  <2>2. (got.pic # 0 => Recent(got.pic) /\ Undecoded(got.pic))'
    BY <2>1 DEF WayOrder, Recent, Undecoded
  <2>3. ASSUME NEW f \in Frames, Bound(f)', OnWay(f)'
        PROVE  (/\ Recent(handle[f].pic) /\ Undecoded(handle[f].pic)
                /\ got.pic # 0 => handle[f].pic < got.pic)'
    <3>1. OnWay(f) /\ Bound(f) /\ handle'[f] = handle[f]
      BY <2>3, WayStep
    <3>2. /\ Recent(handle[f].pic) /\ Undecoded(handle[f].pic)
          /\ got.pic # 0 => handle[f].pic < got.pic
      BY <2>1, <3>1 DEF WayOrder
    <3>3. QED BY <2>1, <3>1, <3>2 DEF Recent, Undecoded
  <2>4. ASSUME NEW f \in Frames, NEW g \in Frames, Bound(f)', Bound(g)', First(f, g)'
        PROVE  handle'[f].pic < handle'[g].pic
    <3>1. First(f, g)
      BY <2>4, FirstStep
    <3>2. Bound(f) /\ Bound(g) /\ handle'[f] = handle[f] /\ handle'[g] = handle[g]
      BY <2>4
    <3>3. handle[f].pic < handle[g].pic
      BY <2>1, <3>1, <3>2 DEF WayOrder
    <3>4. QED BY <3>2, <3>3
  <2>5. QED BY <2>2, <2>3, <2>4 DEF WayOrder
<1>3. QED BY <1>1, <1>2 DEF OrderInv

LEMMA OrderRead ==
  ASSUME PlaceInv, BufferInv, OrderInv, DecReadPicture PROVE OrderInv'
<1> DEFINE p == Head(codec_in)
<1>1. FrameType /\ CodecType /\ PcType /\ StreamType /\ CleanInv /\ GotInv
  BY DEF PlaceInv, TypeOK, BufferInv
<1>2. /\ codec_in # <<>> /\ codec_in \in Seq(Nat) /\ codec_in' = Tail(codec_in) /\ dpc = "read"
      /\ got'.pic = p
      /\ UNCHANGED <<handle, epc, shown, sent, flushed>>
  <2>1. codec_in # <<>> /\ codec_in' = Tail(codec_in) /\ dpc = "read"
        /\ UNCHANGED <<handle, epc, shown, sent, flushed>>
    BY DEF DecReadPicture, DecReturns, DecKeeps, frameVars, engineVars
  <2>2. got'.pic = p
    BY DEF DecReadPicture, DecReturns, NoBuf
  <2>3. QED BY <1>1, <2>1, <2>2 DEF CodecType
<1>3. /\ 1 \in DOMAIN codec_in /\ p = codec_in[1]
      /\ \A i \in DOMAIN codec_in' : i + 1 \in DOMAIN codec_in /\ codec_in'[i] = codec_in[i + 1]
                                     /\ i \in Nat /\ 1 < i + 1
  BY <1>2
<1> HIDE DEF p
<1>4. ~Flushed /\ (Flushed' <=> Flushed) /\ got.pic = 0 /\ ~DecGot /\ [Next]_vars
  BY <1>1, <1>2 DEF CleanInv, Flushed, GotInv, NoBuf, DecGot, Next, Decoder
<1>5. CodecOrder /\ WayOrder
  BY <1>4 DEF OrderInv
<1>6. CodecOrder'
  <2>1. \A i, j \in DOMAIN codec_in' : i < j => i + 1 < j + 1
    BY <1>3
  <2>2. QED BY <1>2, <1>3, <1>5, <2>1 DEF CodecOrder, Recent
<1>7. Recent(p) /\ \A i \in DOMAIN codec_in' : p < codec_in'[i]
  BY <1>3, <1>5 DEF CodecOrder
<1>8. \A f \in Frames : Bound(f)' /\ OnWay(f)' =>
        Bound(f) /\ OnWay(f) /\ handle'[f] = handle[f]
  BY <1>2, <1>4, WayStep DEF Bound
<1>9. \A f \in Frames : Bound(f)' /\ OnWay(f)' =>
        (Recent(handle[f].pic) /\ Undecoded(handle[f].pic) /\ handle[f].pic < got.pic)'
  <2> TAKE f \in Frames
  <2> HAVE Bound(f)' /\ OnWay(f)'
  <2>1. Recent(handle[f].pic) /\ Undecoded(handle[f].pic) /\ handle'[f] = handle[f]
    BY <1>5, <1>8 DEF WayOrder
  <2>2. handle[f].pic < p /\ \A i \in DOMAIN codec_in' : handle[f].pic < codec_in'[i]
    BY <1>3, <2>1 DEF Undecoded
  <2>3. QED BY <1>2, <2>1, <2>2 DEF Recent, Undecoded
<1>10. \A f, g \in Frames : Bound(f)' /\ Bound(g)' /\ First(f, g)' => handle'[f].pic < handle'[g].pic
  <2> TAKE f, g \in Frames
  <2> HAVE Bound(f)' /\ Bound(g)' /\ First(f, g)'
  <2>1. First(f, g)
    BY <1>4, FirstStep
  <2>2. Bound(f) /\ Bound(g) /\ handle' = handle
    BY <1>2 DEF Bound
  <2>3. QED BY <1>5, <2>1, <2>2 DEF WayOrder
<1>11. (Recent(got.pic) /\ Undecoded(got.pic))'
  BY <1>2, <1>7 DEF Recent, Undecoded
<1>12. QED BY <1>6, <1>9, <1>10, <1>11 DEF OrderInv, WayOrder

LEMMA OrderPut ==
  ASSUME PlaceInv, BufferInv, OrderInv, DecGot PROVE OrderInv'
<1> DEFINE d == hand["dec"]
<1>1. FrameType /\ CodecType /\ PcType /\ Spot /\ HandInv /\ GotInv
  BY SpotIsOnePlace DEF PlaceInv, TypeOK, BufferInv
<1>2. [Next]_vars /\ (Flushed' <=> Flushed)
      /\ UNCHANGED <<codec_in, shown, sent, flushed>> /\ got'.pic = 0
  BY DEF DecGot, DecKeeps, Next, Decoder, Flushed, engineVars, codecVars, NoBuf
<1>3. d \in Frames /\ handle[d] = NoHandle /\ ~InPipe(d) /\ ~InSink(d)
  <2>1. {"dec", "sink"} \subseteq Hands /\ Pipe \subseteq Queues
    BY DEF Hands, Pipe, Queues
  <2>2. d \in Frames /\ handle[d] = NoHandle
    BY <1>1, <2>1 DEF DecGot, HandInv, GotInv, FrameType
  <2>3. QED BY <1>1, <2>1, <2>2 DEF Spot, InPipe, InSink
<1>4. CASE PutHead("dec", "dec") /\ handle' = handle
  <2>1. ~Put("dec", "out")
    <3>1. "dec" \in Queues /\ "out" \in Queues /\ q["dec"] \in Seq(Frames)
      BY <1>1 DEF Queues, FrameType
    <3>2. PutHead("dec", "dec") => Len(q'["dec"]) = Len(q["dec"]) + 1
      <4>1. PutHead("dec", "dec") => q'["dec"] = <<d>> \o q["dec"]
        BY <1>1, <3>1 DEF PutHead, FrameType
      <4>2. <<d>> \in Seq(Frames) /\ Len(<<d>>) = 1
        BY <1>3
      <4> HIDE DEF d
      <4>3. Len(<<d>> \o q["dec"]) = Len(q["dec"]) + 1
        BY <3>1, <4>2
      <4>4. QED BY <4>1, <4>3
    <3>3. Put("dec", "out") => q'["dec"] = q["dec"]
      BY <1>1, <3>1 DEF Put, FrameType
    <3>4. Len(q["dec"]) # Len(q["dec"]) + 1
      BY <3>1
    <3>5. QED BY <1>4, <3>2, <3>3, <3>4
  <2>2. QED BY <1>2, <1>4, <2>1, OrderShrinks DEF Bound
<1>5. CASE /\ Put("dec", "out") /\ got.pic # 0
           /\ handle' = [handle EXCEPT ![hand["dec"]] =
                           [pic |-> got.pic, idx |-> got.idx, released |-> FALSE]]
  <2>1. handle'[d].pic = got.pic /\ \A f \in Frames \ {d} : handle'[f] = handle[f]
    BY <1>1, <1>3, <1>5 DEF FrameType
  <2> HIDE DEF d
  <2>2. CodecOrder'
    BY <1>2 DEF OrderInv, CodecOrder, Recent
  <2>3. ASSUME ~Flushed PROVE WayOrder'
    <3>1. WayOrder
      BY <2>3 DEF OrderInv
    <3>2. ASSUME NEW f \in Frames, Bound(f)', OnWay(f)'
          PROVE  (Recent(handle[f].pic) /\ Undecoded(handle[f].pic))'
      <4>1. CASE f = d
        BY <1>2, <1>5, <2>1, <3>1, <4>1 DEF WayOrder, Recent, Undecoded
      <4>2. CASE f # d
        <5>1. OnWay(f) /\ handle'[f] = handle[f] /\ Bound(f)
          BY <1>2, <2>1, <3>2, <4>2, WayStep DEF d, Bound
        <5>2. Recent(handle[f].pic) /\ Undecoded(handle[f].pic)
          BY <3>1, <5>1 DEF WayOrder
        <5>3. QED BY <1>2, <5>1, <5>2 DEF Recent, Undecoded
      <4>3. QED BY <4>1, <4>2
    <3>3. ASSUME NEW f \in Frames, NEW g \in Frames, Bound(f)', Bound(g)', First(f, g)'
          PROVE  handle'[f].pic < handle'[g].pic
      <4>1. CASE First(f, g)
        <5>1. InPipe(g) /\ (InPipe(f) \/ InSink(f))
          BY <4>1, AheadInPipe DEF First
        <5>2. f # d /\ g # d
          BY <1>3, <5>1
        <5>3. Bound(f) /\ Bound(g) /\ handle'[f] = handle[f] /\ handle'[g] = handle[g]
          BY <2>1, <3>3, <5>2 DEF Bound
        <5>4. handle[f].pic < handle[g].pic
          BY <3>1, <4>1, <5>3 DEF WayOrder
        <5>5. QED BY <5>3, <5>4
      <4>2. CASE OnWay(f) /\ g = d
        <5>1. f # d
          BY <1>3, <4>2 DEF OnWay
        <5>2. Bound(f) /\ handle'[f] = handle[f]
          BY <2>1, <3>3, <5>1 DEF Bound
        <5>3. QED BY <1>5, <2>1, <3>1, <4>2, <5>2 DEF WayOrder
      <4>3. QED BY <1>2, <3>3, <4>1, <4>2, FirstStep DEF d
    <3>4. QED BY <1>2, <3>2, <3>3 DEF WayOrder
  <2>4. QED BY <1>2, <2>2, <2>3 DEF OrderInv
<1>6. QED BY <1>4, <1>5 DEF DecGot

LEMMA OrderShow ==
  ASSUME PlaceInv, BufferInv, OrderInv, SinkRelease PROVE OrderInv'
<1> DEFINE k == hand["sink"]
           p == handle[k].pic
<1>1. FrameType /\ CodecType /\ PcType /\ StreamType /\ Spot /\ HandInv /\ CleanInv /\ GotInv /\ LentInv
  BY SpotIsOnePlace DEF PlaceInv, TypeOK, BufferInv
<1>2. /\ [Next]_vars /\ ~DecGot /\ (Flushed' <=> Flushed) /\ spc \in {"render", "drop"}
      /\ UNCHANGED <<codec_in, sent, flushed, got, q>> /\ spc' = "done"
  BY DEF SinkRelease, SinkKeeps, Next, Sink, DecGot, Flushed, engineVars, decVars, inputVars
<1>3. k \in Frames /\ Bound(k) /\ InSink(k) /\ handle[k].idx \in Idx /\ p \in Nat
  <2>1. "sink" \in Hands
    BY DEF Hands
  <2>2. k \in Frames /\ Bound(k)
    BY <1>1, <1>2, <2>1 DEF HandInv, GotInv, FrameType
  <2>3. handle[k].idx \in Idx
    BY <1>1, <2>2 DEF LentInv
  <2>4. handle[k].pic \in Nat
    BY <1>1, <2>2 DEF FrameType
  <2>5. QED BY <1>2, <2>2, <2>3, <2>4 DEF InSink
<1>4. ~Flushed => owned[handle[k].idx] = p
  BY <1>1, <1>3 DEF LentInv
<1>5. shown' = shown \/ (~Flushed /\ shown' = p)
  <2>1. shown' = shown \/ (shown' = owned[handle[k].idx] /\ owned[handle[k].idx] # 0)
    BY DEF SinkRelease
  <2>2. QED BY <1>1, <1>3, <1>4, <2>1 DEF CleanInv
<1>6. \A f \in Frames \ {k} : handle'[f] = handle[f]
  BY <1>1 DEF SinkRelease, FrameType
<1> HIDE DEF k, p
<1>7. ~Flushed => WayOrder /\ Recent(p) /\ Undecoded(p) /\ (got.pic # 0 => p < got.pic)
  BY <1>3 DEF OrderInv, WayOrder, OnWay, p
<1>8. CodecOrder /\ shown \in Nat /\ sent \in Nat /\ flushed \in Nat
  BY <1>1 DEF OrderInv, StreamType
<1>9. CodecOrder'
  BY <1>2, <1>5, <1>7, <1>8 DEF CodecOrder, Recent, Undecoded
<1>10. ASSUME ~Flushed PROVE WayOrder'
  <2>1. (got.pic # 0 => Recent(got.pic) /\ Undecoded(got.pic))'
    BY <1>2, <1>5, <1>7, <1>10 DEF WayOrder, Recent, Undecoded
  <2>2. ASSUME NEW f \in Frames, Bound(f)', OnWay(f)'
        PROVE  (/\ Recent(handle[f].pic) /\ Undecoded(handle[f].pic)
                /\ got.pic # 0 => handle[f].pic < got.pic)'
    <3>1. InPipe(f)
      BY <1>2, <2>2 DEF OnWay, InPipe, InSink
    <3>2. f # k
      <4>1. "sink" \in Hands /\ Pipe \subseteq Queues
        BY DEF Hands, Pipe, Queues
      <4>2. QED BY <1>1, <3>1, <4>1 DEF Spot, InPipe, k
    <3>3. handle'[f] = handle[f] /\ Bound(f) /\ First(k, f) /\ OnWay(f)
      BY <1>3, <1>6, <2>2, <3>1, <3>2 DEF Bound, First, OnWay
    <3>4. p < handle[f].pic
      BY <1>3, <1>7, <1>10, <3>3 DEF WayOrder, p
    <3>5. /\ Recent(handle[f].pic) /\ Undecoded(handle[f].pic)
          /\ got.pic # 0 => handle[f].pic < got.pic
      BY <1>7, <1>10, <3>3 DEF WayOrder
    <3>6. QED BY <1>2, <1>5, <3>3, <3>4, <3>5 DEF Recent, Undecoded
  <2>3. ASSUME NEW f \in Frames, NEW g \in Frames, Bound(f)', Bound(g)', First(f, g)'
        PROVE  handle'[f].pic < handle'[g].pic
    <3>1. First(f, g)
      BY <1>2, <2>3, FirstStep
    <3>2. \A h \in Frames : Bound(h)' => handle'[h] = handle[h] /\ Bound(h)
      <4>1. CASE owned[handle[k].idx] = 0
        BY <4>1 DEF SinkRelease, Bound, k
      <4>2. ASSUME owned[handle[k].idx] # 0 PROVE handle'[k].released
        <5>1. handle'[k] = [[handle[k] EXCEPT !.released = TRUE] EXCEPT !.pic = 0]
          BY <1>1, <1>3, <4>2 DEF SinkRelease, FrameType, k
        <5>2. handle[k] \in [pic : Nat, idx : Idx \cup {0}, released : BOOLEAN]
          BY <1>1, <1>3 DEF FrameType
        <5>3. QED BY <5>1, <5>2
      <4>3. QED BY <1>6, <4>1, <4>2 DEF Bound
    <3>3. QED BY <1>7, <1>10, <2>3, <3>1, <3>2 DEF WayOrder
  <2>4. QED BY <2>1, <2>2, <2>3 DEF WayOrder
<1>11. QED BY <1>2, <1>9, <1>10 DEF OrderInv

LEMMA OrderFlush ==
  ASSUME PlaceInv, BufferInv, OrderInv, FlushEnter \/ CloseFlush \/ FlushDone PROVE OrderInv'
<1>1. CodecType /\ StreamType /\ PcType /\ CleanInv /\ GotInv /\ FlagInv
  BY DEF PlaceInv, TypeOK, BufferInv
<1>2. CodecOrder /\ flushed \in Nat /\ sent \in Nat
  BY <1>1 DEF OrderInv, StreamType
<1>3. CASE FlushEnter \/ CloseFlush
  <2>1. /\ codec_in' = <<>> /\ Flushed' /\ UNCHANGED <<shown, sent>>
        /\ flushed' = sent \/ flushed' = flushed
    BY <1>3 DEF FlushEnter, CloseFlush, CodecFlush, CloseKeeps, EngineKeeps, Goto, Flushed,
         inputVars
  <2>2. QED BY <1>2, <2>1 DEF OrderInv, CodecOrder
<1>4. CASE FlushDone
  <2>1. /\ UNCHANGED <<codec_in, shown, sent, flushed, got>> /\ FrameRelease(Frames)
        /\ dpc \notin {"read", "got"}
    BY <1>1, <1>4 DEF FlushDone, EngineKeeps, decVars, inputVars, FlagInv
  <2>2. (\A f \in Frames : ~Bound(f)') /\ got.pic = 0
    BY <1>1, <2>1, ReleaseAll DEF GotInv, NoBuf
  <2>3. CodecOrder'
    BY <1>2, <2>1 DEF CodecOrder, Recent
  <2>4. WayOrder'
    BY <2>1, <2>2 DEF WayOrder
  <2>5. QED BY <2>3, <2>4 DEF OrderInv
<1>5. QED BY <1>3, <1>4

LEMMA OrderSend ==
  ASSUME PlaceInv, BufferInv, OrderInv, DecIn PROVE OrderInv'
<1>1. CodecType /\ StreamType /\ FrameType
  BY DEF PlaceInv, TypeOK
<1>2. /\ ~Flushed /\ [Next]_vars /\ ~DecGot /\ (Flushed' <=> Flushed)
      /\ UNCHANGED <<shown, flushed, got, handle>>
  BY DEF DecIn, Goto, Flushed, Next, Engine, DecGot, EngineKeeps, decVars, frameVars
<1>3. CodecOrder /\ WayOrder /\ sent \in Nat /\ shown \in Nat /\ flushed \in Nat
  BY <1>1, <1>2 DEF OrderInv, StreamType
<1>4. CASE UNCHANGED <<codec_in, sent>>
  BY <1>2, <1>4, OrderShrinks DEF Bound
<1>5. CASE codec_in' = Append(codec_in, sent + 1) /\ sent' = sent + 1
  <2>1. /\ codec_in \in Seq(Nat) /\ Len(codec_in) \in Nat /\ DOMAIN codec_in = 1..Len(codec_in)
        /\ DOMAIN codec_in' = 1..Len(codec_in) + 1 /\ codec_in'[Len(codec_in) + 1] = sent'
        /\ \A i \in DOMAIN codec_in : codec_in'[i] = codec_in[i]
    BY <1>1, <1>3, <1>5 DEF CodecType
  <2>2. \A i \in DOMAIN codec_in' : (i \in DOMAIN codec_in /\ codec_in'[i] = codec_in[i])
                                     \/ (i = Len(codec_in) + 1 /\ codec_in'[i] = sent + 1)
    BY <1>5, <2>1
  <2>3. ASSUME NEW x \in Nat, Recent(x) PROVE Recent(x)' /\ x < sent + 1
    BY <1>2, <1>3, <1>5, <2>3 DEF Recent
  <2>4. \A i \in DOMAIN codec_in : codec_in[i] \in Nat
    BY <2>1
  <2>5. CodecOrder'
    <3>1. shown' <= sent' /\ flushed' <= sent'
      BY <1>2, <1>3, <1>5 DEF CodecOrder
    <3>2. (\A i \in DOMAIN codec_in : Recent(codec_in[i]))'
      <4> SUFFICES ASSUME NEW i \in DOMAIN codec_in'
                   PROVE  shown' < codec_in'[i] /\ flushed' < codec_in'[i] /\ codec_in'[i] <= sent'
        BY DEF Recent
      <4>1. CASE codec_in'[i] = sent + 1
        BY <1>2, <1>3, <1>5, <4>1 DEF CodecOrder
      <4>2. CASE i \in DOMAIN codec_in /\ codec_in'[i] = codec_in[i]
        <5>1. codec_in[i] \in Nat /\ Recent(codec_in[i])
          BY <1>3, <2>4, <4>2 DEF CodecOrder
        <5>2. QED BY <1>2, <1>3, <1>5, <4>2, <5>1 DEF Recent
      <4>3. QED BY <2>2, <4>1, <4>2
    <3>3. \A i, j \in DOMAIN codec_in' : i < j => codec_in'[i] < codec_in'[j]
      <4> TAKE i, j \in DOMAIN codec_in'
      <4> HAVE i < j
      <4>1. i \in DOMAIN codec_in /\ codec_in'[i] = codec_in[i]
        BY <2>1, <2>2
      <4>2. codec_in[i] < sent + 1
        BY <1>3, <2>3, <2>4, <4>1 DEF CodecOrder
      <4>3. QED BY <1>3, <2>2, <4>1, <4>2 DEF CodecOrder
    <3>4. QED BY <3>1, <3>2, <3>3 DEF CodecOrder
  <2>6. ASSUME NEW x \in Nat, Recent(x), Undecoded(x) PROVE Undecoded(x)'
    BY <2>2, <2>3, <2>6 DEF Undecoded
  <2>7. (got.pic # 0 => Recent(got.pic) /\ Undecoded(got.pic))'
    <3>1. got.pic \in Nat
      BY <1>1 DEF CodecType
    <3>2. \A x \in Nat : Recent(x) /\ Undecoded(x) => Recent(x)' /\ Undecoded(x)'
      BY <2>3, <2>6
    <3>3. \A x \in Nat : Recent(x) /\ Undecoded(x) =>
            /\ shown' < x /\ flushed' < x /\ x <= sent'
            /\ \A i \in DOMAIN codec_in' : x < codec_in'[i]
      BY <3>2 DEF Recent, Undecoded
    <3>4. QED BY <1>2, <1>3, <3>1, <3>3 DEF WayOrder, Recent, Undecoded
  <2>8. ASSUME NEW f \in Frames, Bound(f)', OnWay(f)'
        PROVE  (/\ Recent(handle[f].pic) /\ Undecoded(handle[f].pic)
                /\ got.pic # 0 => handle[f].pic < got.pic)'
    <3>1. OnWay(f) /\ Bound(f) /\ handle' = handle /\ got' = got
      BY <1>2, <2>8, WayStep DEF Bound
    <3>2. handle[f].pic \in Nat
      BY <1>1 DEF FrameType
    <3>3. /\ Recent(handle[f].pic) /\ Undecoded(handle[f].pic)
          /\ got.pic # 0 => handle[f].pic < got.pic
      BY <1>3, <3>1 DEF WayOrder
    <3>4. \A x \in Nat : Recent(x) /\ Undecoded(x) =>
            /\ shown' < x /\ flushed' < x /\ x <= sent'
            /\ \A i \in DOMAIN codec_in' : x < codec_in'[i]
      BY <2>3, <2>6 DEF Recent, Undecoded
    <3>5. QED BY <3>1, <3>2, <3>3, <3>4 DEF Recent, Undecoded
  <2>9. ASSUME NEW f \in Frames, NEW g \in Frames, Bound(f)', Bound(g)', First(f, g)'
         PROVE  handle'[f].pic < handle'[g].pic
    <3>1. First(f, g) /\ Bound(f) /\ Bound(g) /\ handle' = handle
      BY <1>2, <2>9, FirstStep DEF Bound
    <3>2. QED BY <1>3, <3>1 DEF WayOrder
  <2>10. QED BY <2>5, <2>7, <2>8, <2>9 DEF OrderInv, WayOrder
<1>6. QED BY <1>4, <1>5 DEF DecIn

LEMMA OrderStep ==
  ASSUME PlaceInv, BufferInv, OrderInv, [Next]_vars PROVE OrderInv'
<1>1. FrameType /\ PcType
  BY DEF PlaceInv, TypeOK
<1>2. CASE DecReadPicture
  BY <1>2, OrderRead
<1>3. CASE DecGot
  BY <1>3, OrderPut
<1>4. CASE SinkRelease
  BY <1>4, OrderShow
<1>5. CASE FlushEnter \/ CloseFlush \/ FlushDone
  BY <1>5, OrderFlush
<1>6. CASE DecIn
  BY <1>6, OrderSend
<1>7. CASE ~DecReadPicture /\ ~DecGot /\ ~SinkRelease /\ ~FlushEnter /\ ~CloseFlush
           /\ ~FlushDone /\ ~DecIn
  <2>1. Flushed' <=> Flushed
    BY <1>1, <1>7, FlushedStep
  <2>2. UNCHANGED <<shown, flushed, sent, codec_in>>
    <3>1. CASE Decoder
      BY <1>7, <3>1 DEF Decoder, DecSleep, DecTake, DecExit, DecRelease, DecReadFormat,
           DecReadCancelled, DecReadFails, DecReturns, DecKeeps, codecVars
    <3>2. CASE Sink
      BY <1>7, <3>2 DEF Sink, SinkSleep, SinkExit, SinkSkip, SinkTake, SinkPaced, SinkDone,
           SinkKeeps, inputVars
    <3>3. CASE Engine
      BY <1>7, <3>3 DEF Engine, FlushSleep, QueueSinkFrame, SinkEmpty, PutOut, GetOut, Output,
           Stamp, Leave, CloseEnter, CloseJoin, CloseKeeps, EngineKeeps, inputVars, codecVars
    <3>4. CASE App \/ SpuriousWakeup \/ UNCHANGED vars
      BY <3>4 DEF App, SetPaused, SeekStart, SeekFlush, SeekOne, SeekArm, SeekEnd, Stop,
           AppKeeps, SpuriousWakeup, inputVars, codecVars, vars
    <3>5. QED BY <3>1, <3>2, <3>3, <3>4 DEF Next
  <2>3. CASE ~BufferStep
    <3>1. UNCHANGED <<handle, got>>
      BY <2>3, OtherSteps
    <3>2. QED BY <1>7, <2>1, <2>2, <3>1, OrderShrinks DEF Bound
  <2>4. CASE DecReadNothing
    <3>1. handle' = handle /\ got'.pic = 0
      BY <2>4 DEF DecReadNothing, DecReadFormat, DecReadCancelled, DecReadFails, DecReturns,
           frameVars, NoBuf, Failed
    <3>2. QED BY <1>7, <2>1, <2>2, <3>1, OrderShrinks DEF Bound
  <2>5. CASE DecRelease
    <3>1. got' = got /\ FrameRelease({hand["dec"]})
      BY <2>5 DEF DecRelease
    <3>2. \A f \in Frames : Bound(f)' => Bound(f) /\ handle'[f] = handle[f]
      BY <3>1 DEF FrameRelease, Bound, NoHandle
    <3>3. QED BY <1>7, <2>1, <2>2, <3>1, <3>2, OrderShrinks
  <2>6. CASE CloseJoin
    <3>1. got' = got
      BY <2>6 DEF CloseJoin, CloseKeeps, EngineKeeps, decVars
    <3>2. \A f \in Frames : ~Bound(f)'
      BY <2>6, ReleaseAll DEF CloseJoin
    <3>3. QED BY <1>7, <2>1, <2>2, <3>1, <3>2, OrderShrinks
  <2>7. QED BY <1>7, <2>3, <2>4, <2>5, <2>6 DEF BufferStep
<1>8. QED BY <1>2, <1>3, <1>4, <1>5, <1>6, <1>7

LEMMA OrderInit ==
  ASSUME Init PROVE OrderInv
<1>1. shown = 0 /\ sent = 0 /\ flushed = 0 /\ codec_in = <<>> /\ got.pic = 0
  BY DEF Init, NoBuf
<1>2. \A f \in Frames : ~Bound(f)
  BY DEF Init, Bound, NoHandle
<1>3. QED BY <1>1, <1>2 DEF OrderInv, CodecOrder, WayOrder

LEMMA OrderInvariant == Spec => [](PlaceInv /\ BufferInv /\ OrderInv)
<1>1. Init => PlaceInv /\ BufferInv /\ OrderInv
  BY PlaceInit, BufferInit, OrderInit
<1>2. PlaceInv /\ BufferInv /\ OrderInv /\ [Next]_vars => PlaceInv' /\ BufferInv' /\ OrderInv'
  BY BufferStepKeeps, OrderStep
<1>3. QED BY <1>1, <1>2, PTL DEF Spec

LEMMA ShowsLater ==
  ASSUME PlaceInv, BufferInv, OrderInv, [Next]_vars, shown' # shown
  PROVE  shown' > shown /\ shown' > flushed /\ shown' = handle[hand["sink"]].pic
<1>1. FrameType /\ StreamType /\ HandInv /\ CleanInv /\ GotInv /\ LentInv
  BY DEF PlaceInv, TypeOK, BufferInv
<1>2. SinkRelease
  BY DEF Next, Decoder, DecSleep, DecTake, DecExit, DecRelease, DecReadPicture, DecReadFormat,
       DecReadCancelled, DecReadFails, DecReturns, DecGot, DecKeeps,
       Sink, SinkSleep, SinkExit, SinkSkip, SinkTake, SinkPaced, SinkDone,
       Engine, FlushEnter, FlushSleep, FlushDone, QueueSinkFrame, SinkEmpty, PutOut, GetOut,
       Output, DecIn, Stamp, Leave, CloseEnter, CloseFlush, CloseJoin, CloseKeeps, EngineKeeps,
       App, SetPaused, SeekStart, SeekFlush, SeekOne, SeekArm, SeekEnd, Stop, AppKeeps,
       SpuriousWakeup, vars
<1>3. spc = "render" /\ shown' = owned[handle[hand["sink"]].idx] /\ shown' # 0
  BY <1>2 DEF SinkRelease
<1>4. hand["sink"] \in Frames /\ Bound(hand["sink"]) /\ OnWay(hand["sink"])
  BY <1>1, <1>3 DEF HandInv, GotInv, FrameType, Hands, OnWay, InSink
<1>5. ~Flushed /\ shown' = handle[hand["sink"]].pic
  BY <1>1, <1>3, <1>4 DEF CleanInv, LentInv
<1>6. Recent(handle[hand["sink"]].pic)
  BY <1>4, <1>5 DEF OrderInv, WayOrder
<1>7. handle[hand["sink"]].pic \in Nat /\ shown \in Nat /\ flushed \in Nat
  BY <1>1, <1>4 DEF FrameType, StreamType
<1>8. QED BY <1>5, <1>6, <1>7 DEF Recent

(* What a step shows has been sent after what was shown before and after   *)
(* the last flush, for any number of frames, buffers, inputs and seeks.    *)
THEOREM ShownInOrderCorrect == Spec => ShownInOrder
<1>1. PlaceInv /\ BufferInv /\ OrderInv /\ [Next]_vars
      => [shown' # shown => /\ shown' > shown
                            /\ shown' > flushed
                            /\ shown' = handle[hand["sink"]].pic]_vars
  BY ShowsLater
<1>2. QED BY <1>1, OrderInvariant, PTL DEF Spec, ShownInOrder

-----------------------------------------------------------------------------
(***************************************************************************)
(* The times.  A picture gets the time that is first in ts when it comes   *)
(* out, so that times are never ahead as long as ts is not shorter than    *)
(* what is in flight: an input that is not stamped because ts is full      *)
(* would shift the times of all later ones.  Flight is the picture that    *)
(* the decoder thread has got and those in the codec, Stamping whether the *)
(* time of the last one is still to be queued.                             *)
(***************************************************************************)
Flight   == IF got.pic # 0 THEN <<got.pic>> \o codec_in ELSE codec_in
Stamping == IF epc = "stamp" THEN 1 ELSE 0

StampInv ==
  /\ Len(codec_in) <= CodecMax
  /\ \A i \in DOMAIN ts : flushed < ts[i] /\ ts[i] <= sent
  /\ Stamping = 1 => flushed < sent

FlightInv ==
  /\ Len(Flight) <= Len(ts) + Stamping
  /\ \A i \in DOMAIN Flight : i \in DOMAIN ts => ts[i] <= Flight[i]
  /\ Stamping = 1 /\ Flight # <<>> => Flight[Len(Flight)] = sent

FrameTimes ==
  \A f \in Frames : Bound(f) /\ time[f] # 0 =>
    time[f] <= handle[f].pic /\ flushed < time[f]

TimesInv ==
  /\ StampInv
  /\ ~Flushed => FrameTimes
  /\ ~Flushed /\ ~ReorderPts => FlightInv

(* What the steps do to what is in flight. *)
LEMMA FlightType ==
  ASSUME CodecType, Len(codec_in) <= CodecMax
  PROVE  Flight \in Seq(Nat) /\ Len(Flight) <= CodecMax + 1
<1>1. codec_in \in Seq(Nat) /\ got.pic \in Nat /\ CodecMax \in Nat
  BY SizesAssumption DEF CodecType
<1>2. <<got.pic>> \in Seq(Nat) /\ Len(<<got.pic>>) = 1
  BY <1>1
<1>3. /\ <<got.pic>> \o codec_in \in Seq(Nat)
      /\ Len(<<got.pic>> \o codec_in) = Len(codec_in) + 1
  BY <1>1, <1>2
<1>4. QED BY <1>1, <1>3 DEF Flight

LEMMA HeadTail ==
  ASSUME NEW s \in Seq(Nat), s # <<>> PROVE <<Head(s)>> \o Tail(s) = s
OBVIOUS

LEMMA FlightRead ==
  ASSUME CodecType, GotInv, CleanInv, DecReadPicture PROVE Flight' = Flight
<1>1. /\ codec_in \in Seq(Nat) /\ codec_in # <<>> /\ codec_in' = Tail(codec_in)
      /\ got.pic = 0
  BY DEF CodecType, DecReadPicture, DecReturns, GotInv, NoBuf
<1>2. got'.pic = Head(codec_in)
  BY DEF DecReadPicture, DecReturns, NoBuf
<1>3. Head(codec_in) # 0
  BY <1>1 DEF CleanInv
<1>4. <<Head(codec_in)>> \o Tail(codec_in) = codec_in
  BY <1>1, HeadTail
<1>5. QED BY <1>1, <1>2, <1>3, <1>4 DEF Flight

LEMMA FlightGot ==
  ASSUME CodecType, got.pic # 0, got'.pic = 0, codec_in' = codec_in
  PROVE  Flight # <<>> /\ Flight[1] = got.pic /\ Flight' = Tail(Flight)
<1>1. codec_in \in Seq(Nat) /\ got.pic \in Nat
  BY DEF CodecType
<1>2. \A x \in Nat, s \in Seq(Nat) :
        <<x>> \o s # <<>> /\ (<<x>> \o s)[1] = x /\ Tail(<<x>> \o s) = s
  OBVIOUS
<1>3. QED BY <1>1, <1>2 DEF Flight

LEMMA FlightSend ==
  ASSUME CodecType, NEW p \in Nat, got' = got, codec_in' = Append(codec_in, p)
  PROVE  Flight' = Append(Flight, p)
<1>1. codec_in \in Seq(Nat) /\ got.pic \in Nat
  BY DEF CodecType
<1>2. \A x \in Nat, s \in Seq(Nat) : <<x>> \o Append(s, p) = Append(<<x>> \o s, p)
  OBVIOUS
<1>3. QED BY <1>1, <1>2 DEF Flight

(* A step that changes neither what is in flight nor what is queued. *)
LEMMA TimesKeep ==
  ASSUME TimesInv, UNCHANGED <<ts, sent, flushed>>, Flight' = Flight,
         Len(codec_in') <= CodecMax, Flushed' <=> Flushed, Stamping' = Stamping,
         \A f \in Frames : Bound(f)' /\ time'[f] # 0 =>
           Bound(f) /\ handle'[f].pic = handle[f].pic /\ time'[f] = time[f]
  PROVE  TimesInv'
<1>1. StampInv'
  BY DEF TimesInv, StampInv
<1>2. ~Flushed => FrameTimes'
  BY DEF TimesInv, FrameTimes
<1>3. ~Flushed /\ ~ReorderPts => FlightInv'
  BY DEF TimesInv, FlightInv
<1>4. QED BY <1>1, <1>2, <1>3 DEF TimesInv

LEMMA TimesRead ==
  ASSUME PlaceInv, BufferInv, TimesInv, DecReadPicture \/ DecReadNothing
  PROVE  TimesInv'
<1>1. CodecType /\ CleanInv /\ GotInv
  BY DEF PlaceInv, TypeOK, BufferInv
<1>2. dpc = "read" /\ got.pic = 0 /\ UNCHANGED <<ts, sent, flushed, epc, handle, time>>
  <2>1. \E r : DecReturns(r)
    BY DEF DecReadPicture, DecReadNothing, DecReadFormat, DecReadCancelled, DecReadFails
  <2>2. dpc = "read" /\ UNCHANGED <<ts, sent, flushed, epc, handle, time>>
    BY <2>1 DEF DecReturns, DecKeeps, frameVars, engineVars
  <2>3. QED BY <1>1, <2>2 DEF GotInv, NoBuf
<1>3. CASE DecReadPicture
  <2>1. codec_in \in Seq(Nat) /\ codec_in # <<>> /\ codec_in' = Tail(codec_in)
    BY <1>1, <1>3 DEF DecReadPicture, CodecType
  <2>2. Len(codec_in') <= CodecMax
    BY <2>1, SizesAssumption DEF TimesInv, StampInv
  <2>3. Flight' = Flight
    BY <1>1, <1>3, FlightRead
  <2>4. QED BY <1>2, <2>2, <2>3, TimesKeep DEF Flushed, Stamping, Bound
<1>4. CASE DecReadNothing
  <2>1. codec_in' = codec_in /\ got'.pic = 0
    BY <1>4 DEF DecReadNothing, DecReadFormat, DecReadCancelled, DecReadFails, DecReturns,
       NoBuf, Failed
  <2>2. Flight' = Flight /\ Len(codec_in') <= CodecMax
    BY <1>2, <2>1 DEF Flight, TimesInv, StampInv
  <2>3. QED BY <1>2, <2>2, TimesKeep DEF Flushed, Stamping, Bound
<1>5. QED BY <1>3, <1>4

(* A picture that comes out takes a time that is not ahead of it. *)
LEMMA TimesGot ==
  ASSUME PlaceInv, BufferInv, OrderInv, TimesInv, DecGot PROVE TimesInv'
<1> DEFINE d == hand["dec"]
<1>1. FrameType /\ CodecType /\ PcType /\ StreamType /\ HandInv /\ GotInv /\ EngineTells
  BY DEF PlaceInv, TypeOK, BufferInv
<1>2. /\ UNCHANGED <<codec_in, sent, flushed, epc>> /\ got'.pic = 0
  BY DEF DecGot, DecKeeps, codecVars, engineVars, NoBuf
<1>3. (Flushed' <=> Flushed) /\ Stamping' = Stamping
  BY <1>2 DEF Flushed, Stamping
<1>4. Len(codec_in') <= CodecMax
  BY <1>2 DEF TimesInv, StampInv
<1>5. d \in Frames
  BY <1>1 DEF DecGot, HandInv, FrameType, Hands
<1>6. CASE got.pic = 0
  <2>1. UNCHANGED <<ts, handle, time>>
    BY <1>6 DEF DecGot
  <2>2. Flight' = Flight
    BY <1>2, <1>6 DEF Flight
  <2>3. QED BY <1>2, <1>3, <1>4, <2>1, <2>2, TimesKeep DEF Bound
<1>7. CASE got.pic # 0 /\ "flushing" \in state
  <2>1. Flushed /\ ts' = ts
    BY <1>1, <1>7 DEF DecGot, EngineTells, Flushed
  <2>2. QED BY <1>2, <1>3, <1>4, <2>1 DEF TimesInv, StampInv
<1>8. CASE got.pic # 0 /\ "flushing" \notin state
  <2> DEFINE t == IF ReorderPts THEN got.pic ELSE IF ts = <<>> THEN 0 ELSE Head(ts)
  <2>1. /\ handle' = [handle EXCEPT ![d] =
                        [pic |-> got.pic, idx |-> got.idx, released |-> FALSE]]
        /\ time' = [time EXCEPT ![d] = t]
        /\ ts' = IF ReorderPts \/ ts = <<>> THEN ts ELSE Tail(ts)
    BY <1>8 DEF DecGot
  <2>2. /\ handle'[d].pic = got.pic /\ time'[d] = t
        /\ \A f \in Frames \ {d} : handle'[f] = handle[f] /\ time'[f] = time[f]
    BY <1>1, <1>5, <2>1 DEF FrameType
  <2>3. /\ ts \in Seq(Nat) /\ ts' \in Seq(Nat) /\ Len(ts) \in Nat /\ DOMAIN ts = 1..Len(ts)
        /\ ts # <<>> => Head(ts) = ts[1] /\ 1 \in DOMAIN ts
    BY <1>1, <2>1 DEF StreamType
  <2>4. \A i \in DOMAIN ts' : ts'[i] = ts[i] \/ (i + 1 \in DOMAIN ts /\ ts'[i] = ts[i + 1])
    BY <2>1, <2>3
  <2>5. \A i \in DOMAIN ts' : i \in DOMAIN ts
    BY <2>1, <2>3
  <2>6. StampInv'
    BY <1>2, <1>3, <1>4, <2>4, <2>5 DEF TimesInv, StampInv
  <2>7. Flight # <<>> /\ Flight[1] = got.pic /\ Flight' = Tail(Flight)
    BY <1>1, <1>2, <1>8, FlightGot
  <2>8. Flight \in Seq(Nat)
    BY <1>1, FlightType DEF TimesInv, StampInv
  <2>9. ASSUME ~Flushed PROVE t # 0 => t <= got.pic /\ flushed < t
    <3>1. flushed < got.pic
      BY <1>8, <2>9 DEF OrderInv, WayOrder, Recent
    <3>2. got.pic \in Nat
      BY <1>1 DEF CodecType
    <3>3. CASE ReorderPts
      BY <3>1, <3>2, <3>3
    <3>4. CASE ~ReorderPts /\ ts # <<>>
      <4>1. t = ts[1] /\ 1 \in DOMAIN ts /\ 1 \in DOMAIN Flight
        BY <2>3, <2>7, <2>8, <3>4
      <4>2. FlightInv /\ StampInv
        BY <2>9, <3>4 DEF TimesInv
      <4>3. QED BY <2>7, <4>1, <4>2 DEF FlightInv, StampInv
    <3>5. QED BY <3>3, <3>4
  <2> HIDE DEF t, d
  <2>10. ASSUME ~Flushed PROVE FrameTimes'
    <3> SUFFICES ASSUME NEW f \in Frames, Bound(f)', time'[f] # 0
                 PROVE  time'[f] <= handle'[f].pic /\ flushed < time'[f]
      BY <1>2 DEF FrameTimes
    <3>1. CASE f = d
      BY <2>2, <2>9, <2>10, <3>1
    <3>2. CASE f # d
      BY <2>2, <2>10, <3>2 DEF TimesInv, FrameTimes, Bound
    <3>3. QED BY <3>1, <3>2
  <2>11. ASSUME ~Flushed, ~ReorderPts PROVE FlightInv'
    <3>1. FlightInv
      BY <2>11 DEF TimesInv
    <3>2. Stamping \in {0, 1}
      BY DEF Stamping
    <3>3. CASE ts = <<>>
      <4>1. ts' = <<>> /\ Len(Flight) <= 1
        BY <2>1, <2>3, <3>1, <3>2, <3>3 DEF FlightInv
      <4>2. Flight' = <<>>
        BY <2>7, <2>8, <4>1
      <4>3. Len(Flight') <= Len(ts') + Stamping'
        BY <1>3, <3>2, <4>1, <4>2
      <4>4. QED BY <4>1, <4>2, <4>3 DEF FlightInv
    <3>4. CASE ts # <<>>
      <4>1. ts' = Tail(ts)
        BY <2>1, <2>11, <3>4
      <4>2. /\ Len(ts') = Len(ts) - 1 /\ DOMAIN ts' = 1..Len(ts) - 1
            /\ \A i \in DOMAIN ts' : i + 1 \in DOMAIN ts /\ ts'[i] = ts[i + 1]
        BY <2>3, <3>4, <4>1
      <4>3. /\ Len(Flight') = Len(Flight) - 1 /\ Len(Flight) \in Nat
            /\ \A i \in DOMAIN Flight' :
                 i + 1 \in DOMAIN Flight /\ Flight'[i] = Flight[i + 1]
            /\ Flight' # <<>> => Flight'[Len(Flight')] = Flight[Len(Flight)]
        BY <2>7, <2>8
      <4>4. Len(Flight') <= Len(ts') + Stamping'
        BY <1>3, <2>3, <3>1, <3>2, <4>2, <4>3 DEF FlightInv
      <4>5. \A i \in DOMAIN Flight' : i \in DOMAIN ts' => ts'[i] <= Flight'[i]
        BY <3>1, <4>2, <4>3 DEF FlightInv
      <4>6. Stamping' = 1 /\ Flight' # <<>> => Flight'[Len(Flight')] = sent'
        BY <1>2, <1>3, <2>7, <3>1, <4>3 DEF FlightInv
      <4>7. QED BY <4>4, <4>5, <4>6 DEF FlightInv
    <3>5. QED BY <3>3, <3>4
  <2>12. QED BY <1>3, <2>6, <2>10, <2>11 DEF TimesInv
<1>9. QED BY <1>6, <1>7, <1>8

(* An input that is sent has its time queued last, and is in flight last. *)
LEMMA TimesSend ==
  ASSUME PlaceInv, OrderInv, TimesInv, DecIn PROVE TimesInv'
<1>1. CodecType /\ StreamType
  BY DEF PlaceInv, TypeOK
<1>2. /\ epc = "send" /\ UNCHANGED <<ts, flushed, got, handle, time>>
      /\ ~Flushed /\ ~Flushed' /\ Stamping = 0
  BY DEF DecIn, Goto, EngineKeeps, decVars, frameVars, Flushed, Stamping
<1>3. CASE UNCHANGED <<codec_in, sent>> /\ epc' # "stamp"
  <2>1. Flight' = Flight /\ Len(codec_in') <= CodecMax
    BY <1>2, <1>3 DEF Flight, TimesInv, StampInv
  <2>2. Stamping' = Stamping
    BY <1>2, <1>3 DEF Stamping
  <2>3. QED BY <1>2, <1>3, <2>1, <2>2, TimesKeep DEF Bound
<1>4. CASE /\ Len(codec_in) < CodecMax /\ codec_in' = Append(codec_in, sent + 1)
           /\ sent' = sent + 1 /\ epc' = "stamp"
  <2>1. /\ codec_in \in Seq(Nat) /\ ts \in Seq(Nat) /\ sent \in Nat /\ flushed \in Nat
        /\ CodecMax \in Nat
    BY <1>1, SizesAssumption DEF CodecType, StreamType
  <2>2. Flight' = Append(Flight, sent + 1)
    BY <1>1, <1>2, <1>4, <2>1, FlightSend
  <2>3. Flight \in Seq(Nat)
    BY <1>1, FlightType DEF TimesInv, StampInv
  <2>4. Stamping' = 1
    BY <1>4 DEF Stamping
  <2>5. StampInv'
    <3>1. Len(codec_in') <= CodecMax
      BY <1>4, <2>1
    <3>2. \A i \in DOMAIN ts : ts[i] \in Nat /\ flushed < ts[i] /\ ts[i] <= sent
      BY <2>1 DEF TimesInv, StampInv
    <3>3. flushed <= sent
      BY DEF OrderInv, CodecOrder
    <3>4. QED BY <1>2, <1>4, <2>1, <3>1, <3>2, <3>3 DEF StampInv
  <2>6. FrameTimes'
    BY <1>2 DEF TimesInv, FrameTimes, Bound
  <2>7. ASSUME ~ReorderPts PROVE FlightInv'
    <3>1. FlightInv /\ StampInv
      BY <1>2, <2>7 DEF TimesInv
    <3>2. /\ Len(Flight) \in Nat /\ Len(ts) \in Nat
          /\ Len(Flight') = Len(Flight) + 1 /\ Flight' # <<>>
          /\ Flight'[Len(Flight')] = sent + 1
          /\ \A i \in DOMAIN Flight' : \/ i \in DOMAIN Flight /\ Flight'[i] = Flight[i]
                                       \/ Flight'[i] = sent + 1
      BY <2>1, <2>2, <2>3
    <3>3. Len(Flight') <= Len(ts') + Stamping'
      BY <1>2, <2>4, <3>1, <3>2 DEF FlightInv
    <3>4. ASSUME NEW i \in DOMAIN Flight', i \in DOMAIN ts' PROVE ts'[i] <= Flight'[i]
      <4>1. ts'[i] = ts[i] /\ ts[i] \in Nat /\ ts[i] <= sent /\ i \in DOMAIN ts
        BY <1>2, <2>1, <3>1, <3>4 DEF StampInv
      <4>2. CASE Flight'[i] = sent + 1
        BY <2>1, <4>1, <4>2
      <4>3. CASE i \in DOMAIN Flight /\ Flight'[i] = Flight[i]
        BY <3>1, <4>1, <4>3 DEF FlightInv
      <4>4. QED BY <3>2, <4>2, <4>3
    <3>5. QED BY <1>4, <3>2, <3>3, <3>4 DEF FlightInv
  <2>8. QED BY <2>5, <2>6, <2>7 DEF TimesInv
<1>5. QED BY <1>3, <1>4 DEF DecIn, Goto

LEMMA TimesStamp ==
  ASSUME ReorderPts \/ TsMax >= CodecMax + 2, PlaceInv, TimesInv, Stamp PROVE TimesInv'
<1>1. CodecType /\ StreamType
  BY DEF PlaceInv, TypeOK
<1>2. /\ UNCHANGED <<codec_in, got, handle, time, sent, flushed>>
      /\ ~Flushed /\ ~Flushed' /\ Stamping = 1 /\ Stamping' = 0
  BY DEF Stamp, Goto, EngineKeeps, codecVars, decVars, frameVars, Flushed, Stamping
<1>3. /\ ts \in Seq(Nat) /\ Len(ts) \in Nat /\ DOMAIN ts = 1..Len(ts) /\ sent \in Nat
      /\ CodecMax \in Nat /\ TsMax \in Nat
  BY <1>1, SizesAssumption DEF StreamType
<1>4. StampInv /\ Flight' = Flight /\ flushed < sent
  BY <1>2 DEF TimesInv, StampInv, Flight
<1>5. FrameTimes'
  BY <1>2 DEF TimesInv, FrameTimes, Bound
<1>6. Flight \in Seq(Nat) /\ Len(Flight) \in Nat /\ Len(Flight) <= CodecMax + 1
  BY <1>1, <1>4, FlightType DEF StampInv
<1>7. CASE ts' = ts
  <2>1. StampInv'
    BY <1>2, <1>4, <1>7 DEF StampInv
  <2>2. ASSUME ~ReorderPts PROVE FlightInv'
    <3>1. FlightInv
      BY <1>2, <2>2 DEF TimesInv
    <3>2. Len(ts) >= TsMax - 1
      <4>1. Len(ts) >= TsMax - 1 \/ ts' = Append(ts, sent)
        BY <2>2 DEF Stamp
      <4>2. Len(Append(ts, sent)) = Len(ts) + 1
        BY <1>3
      <4>3. Len(ts) + 1 # Len(ts)
        <5>1. \A n \in Nat : n + 1 # n
          OBVIOUS
        <5>2. Len(ts) \in Nat
          BY <1>3
        <5>3. QED BY <5>1, <5>2
      <4>4. ~(ts' = Append(ts, sent))
        BY <1>7, <4>2, <4>3, Zenon
      <4>5. QED BY <1>7, <4>1, <4>4
    <3>3. Len(Flight') <= Len(ts') + Stamping'
      BY <1>2, <1>3, <1>4, <1>6, <1>7, <2>2, <3>2
    <3>4. QED BY <1>2, <1>4, <1>7, <3>1, <3>3 DEF FlightInv
  <2>3. QED BY <1>5, <2>1, <2>2 DEF TimesInv
<1>8. CASE ts' = Append(ts, sent) /\ ~ReorderPts
  <2>1. /\ Len(ts') = Len(ts) + 1
        /\ \A i \in DOMAIN ts' : \/ i \in DOMAIN ts /\ ts'[i] = ts[i]
                                 \/ i = Len(ts) + 1 /\ ts'[i] = sent
    BY <1>3, <1>8
  <2>2. StampInv'
    BY <1>2, <1>3, <1>4, <2>1 DEF StampInv
  <2>3. FlightInv
    BY <1>2, <1>8 DEF TimesInv
  <2>4. Len(Flight') <= Len(ts') + Stamping'
    BY <1>2, <1>3, <1>4, <1>6, <2>1, <2>3 DEF FlightInv
  <2>5. ASSUME NEW i \in DOMAIN Flight, i \in DOMAIN ts' PROVE ts'[i] <= Flight[i]
    <3>1. CASE i \in DOMAIN ts /\ ts'[i] = ts[i]
      BY <2>3, <2>5, <3>1 DEF FlightInv
    <3>2. CASE i = Len(ts) + 1 /\ ts'[i] = sent
      <4>1. i = Len(Flight) /\ Flight # <<>>
        BY <1>2, <1>3, <1>6, <2>3, <2>5, <3>2 DEF FlightInv
      <4>2. Flight[i] = sent
        BY <1>2, <2>3, <4>1 DEF FlightInv
      <4>3. QED BY <1>3, <3>2, <4>2
    <3>3. QED BY <2>1, <2>5, <3>1, <3>2
  <2>6. FlightInv'
    BY <1>2, <1>4, <2>4, <2>5 DEF FlightInv
  <2>7. QED BY <1>5, <2>2, <2>6 DEF TimesInv
<1>9. QED BY <1>7, <1>8 DEF Stamp

(* A flush forgets the times with the pictures they are of. *)
LEMMA TimesFlush ==
  ASSUME PlaceInv, BufferInv, OrderInv, TimesInv, FlushEnter \/ CloseFlush \/ FlushDone
  PROVE  TimesInv'
<1>1. CodecType /\ StreamType /\ CleanInv /\ GotInv /\ FlagInv
  BY DEF PlaceInv, TypeOK, BufferInv
<1>2. Len(<<>>) = 0 /\ 0 <= CodecMax /\ DOMAIN <<>> = {}
  BY SizesAssumption
<1>3. CASE FlushEnter
  <2>1. codec_in' = <<>> /\ ts' = <<>> /\ epc' = "flush"
    BY <1>3 DEF FlushEnter, CodecFlush, Goto
  <2>2. QED BY <1>2, <2>1 DEF TimesInv, StampInv, Stamping, Flushed
<1>4. CASE CloseFlush
  <2>1. codec_in' = <<>> /\ UNCHANGED <<ts, sent, flushed>> /\ epc' = "join"
    BY <1>4 DEF CloseFlush, CodecFlush, Goto, CloseKeeps, inputVars
  <2>2. QED BY <1>2, <2>1 DEF TimesInv, StampInv, Stamping, Flushed
<1>5. CASE FlushDone
  <2>1. /\ UNCHANGED <<codec_in, ts, sent, flushed, got>> /\ FrameRelease(Frames)
        /\ epc = "flush" /\ epc' = "sink" /\ dpc \notin {"read", "got"}
    BY <1>1, <1>5 DEF FlushDone, Goto, EngineKeeps, decVars, inputVars, FlagInv
  <2>2. Flight' = <<>> /\ \A f \in Frames : ~Bound(f)'
    BY <1>1, <2>1, ReleaseAll DEF CleanInv, GotInv, NoBuf, Flight, Flushed
  <2>3. StampInv'
    BY <2>1 DEF TimesInv, StampInv, Stamping
  <2>4. FrameTimes'
    BY <2>2 DEF FrameTimes
  <2>5. FlightInv'
    <3>1. ts \in Seq(Nat) /\ Len(ts) \in Nat
      BY <1>1 DEF StreamType
    <3>2. Len(Flight') <= Len(ts') + Stamping'
      BY <1>2, <2>1, <2>2, <3>1 DEF Stamping
    <3>3. QED BY <1>2, <2>2, <3>2 DEF FlightInv
  <2>6. QED BY <2>3, <2>4, <2>5 DEF TimesInv
<1>6. QED BY <1>3, <1>4, <1>5

(* The steps that touch neither inputs nor times, but for a time forgotten. *)
LEMMA TimesOther ==
  ASSUME PlaceInv, BufferInv, TimesInv, [Next]_vars, ~DecReadPicture, ~DecReadNothing,
         ~DecGot, ~DecIn, ~Stamp, ~FlushEnter, ~CloseFlush, ~FlushDone
  PROVE  TimesInv'
<1>1. FrameType /\ PcType
  BY DEF PlaceInv, TypeOK
<1>2. Flushed' <=> Flushed
  BY <1>1, FlushedStep
<1>3. /\ UNCHANGED <<ts, sent, flushed, codec_in, got>>
      /\ epc = "stamp" <=> epc' = "stamp"
      /\ \/ time' = time
         \/ time' = [time EXCEPT ![Head(q["get"])] = 0]
  <2>1. CASE Decoder
    BY <2>1 DEF DecReadNothing, Decoder, DecSleep, DecTake, DecExit, DecRelease, DecKeeps,
         codecVars, frameVars, engineVars
  <2>2. CASE Sink
    BY <2>2 DEF Sink, SinkSleep, SinkExit, SinkSkip, SinkTake, SinkPaced, SinkRelease,
         SinkDone, SinkKeeps, inputVars, decVars, frameVars, engineVars
  <2>3. CASE QueueSinkFrame
    BY <2>3 DEF QueueSinkFrame, AtSinkQueue, Goto, EngineKeeps, inputVars, codecVars, decVars
  <2>4. CASE Engine /\ ~QueueSinkFrame
    BY <2>4 DEF Engine, FlushSleep, SinkEmpty, PutOut, GetOut, Output, Leave, CloseEnter,
         CloseJoin, CloseKeeps, AtSinkQueue, Goto, EngineKeeps, inputVars, codecVars,
         decVars, frameVars, engineVars
  <2>5. CASE App \/ SpuriousWakeup \/ UNCHANGED vars
    BY <2>5 DEF App, SetPaused, SeekStart, SeekFlush, SeekOne, SeekArm, SeekEnd, Stop,
         AppKeeps, SpuriousWakeup, inputVars, codecVars, decVars, frameVars, engineVars, vars
  <2>6. QED BY <2>1, <2>2, <2>3, <2>4, <2>5 DEF Next
<1>4. \A f \in Frames : time'[f] # 0 => time'[f] = time[f]
  BY <1>1, <1>3 DEF FrameType
<1>5. \A f \in Frames : Bound(f)' => Bound(f) /\ handle'[f].pic = handle[f].pic
  <2>1. CASE ~BufferStep
    <3>1. handle' = handle
      BY <2>1, OtherSteps
    <3>2. QED BY <3>1 DEF Bound
  <2>2. CASE DecRelease
    BY <2>2 DEF DecRelease, FrameRelease, Bound, NoHandle
  <2>3. CASE SinkRelease
    <3>1. handle \in [Frames -> [pic : Nat, idx : Idx \cup {0}, released : BOOLEAN]]
      BY <1>1 DEF FrameType
    <3>2. \/ handle' = [handle EXCEPT ![hand["sink"]].released = TRUE, ![hand["sink"]].pic = 0]
          \/ handle' = handle
      BY <2>3 DEF SinkRelease
    <3>3. QED BY <3>1, <3>2 DEF Bound
  <2>4. CASE CloseJoin
    BY <2>4, ReleaseAll DEF CloseJoin
  <2>5. QED BY <2>1, <2>2, <2>3, <2>4 DEF BufferStep
<1>6. Flight' = Flight /\ Stamping' = Stamping /\ Len(codec_in') <= CodecMax
  BY <1>3 DEF Flight, Stamping, TimesInv, StampInv
<1>7. QED BY <1>2, <1>3, <1>4, <1>5, <1>6, TimesKeep

LEMMA TimesInit ==
  ASSUME Init PROVE TimesInv
<1>1. /\ codec_in = <<>> /\ ts = <<>> /\ got.pic = 0 /\ epc = "top"
  BY DEF Init, NoBuf
<1>2. Len(<<>>) = 0 /\ 0 <= CodecMax /\ DOMAIN <<>> = {}
  BY SizesAssumption
<1>3. \A f \in Frames : ~Bound(f)
  BY DEF Init, Bound, NoHandle
<1>4. StampInv
  BY <1>1, <1>2 DEF StampInv, Stamping
<1>5. FlightInv
  BY <1>1, <1>2 DEF FlightInv, Stamping, Flight
<1>6. QED BY <1>3, <1>4, <1>5 DEF TimesInv, FrameTimes

(* No frame has a time that is ahead of its picture, nor of before the     *)
(* flush, when the times are the codec's own or the ring of the times      *)
(* (XDM_ts_put) holds as many as there can be pictures in flight.          *)
THEOREM TimesCorrect ==
  ReorderPts \/ TsMax >= CodecMax + 2 => (Spec => []TimeNotAhead)
<1> SUFFICES ASSUME ReorderPts \/ TsMax >= CodecMax + 2 PROVE Spec => []TimeNotAhead
  OBVIOUS
<1>1. Init => PlaceInv /\ BufferInv /\ OrderInv /\ TimesInv
  BY PlaceInit, BufferInit, OrderInit, TimesInit
<1>2. ASSUME PlaceInv, BufferInv, OrderInv, TimesInv, [Next]_vars PROVE TimesInv'
  BY <1>2, TimesRead, TimesGot, TimesSend, TimesStamp, TimesFlush, TimesOther
<1>3. ASSUME PlaceInv, BufferInv, TimesInv PROVE TimeNotAhead
  <2>1. CleanInv /\ LentInv
    BY <1>3 DEF BufferInv
  <2>2. QED BY <1>3, <2>1 DEF CleanInv, LentInv, TimesInv, FrameTimes, TimeNotAhead
<1>4. PlaceInv /\ BufferInv /\ OrderInv /\ TimesInv /\ [Next]_vars
      => PlaceInv' /\ BufferInv' /\ OrderInv' /\ TimesInv'
  BY <1>2, BufferStepKeeps, OrderStep
<1>5. PlaceInv /\ BufferInv /\ OrderInv /\ TimesInv => TimeNotAhead
  BY <1>3
<1>6. QED BY <1>1, <1>4, <1>5, PTL DEF Spec

-----------------------------------------------------------------------------
(***************************************************************************)
(* The refinement.  A step that moves a frame from queue to queue moves it *)
(* along an arc of the cycle or within one place, and what a thread takes  *)
(* or puts back stays in its place.                                        *)
(***************************************************************************)
Kind == [n \in Queues |-> IF n = "decode" THEN "blank"
                          ELSE IF n = "disp" THEN "picture"
                          ELSE IF n \in {"venc", "get"} THEN "display"
                          ELSE "decoder"]

LEMMA PlaceIs ==
  ASSUME NEW f \in Frames
  PROVE  /\ Place[f] = IF Has(q["decode"], f) THEN "blank"
                       ELSE IF Has(q["disp"], f) THEN "picture"
                       ELSE IF Has(q["venc"], f) \/ Has(q["get"], f) \/ hand["sink"] = f
                            THEN "display"
                       ELSE "decoder"
         /\ Place'[f] = IF Has(q'["decode"], f) THEN "blank"
                        ELSE IF Has(q'["disp"], f) THEN "picture"
                        ELSE IF Has(q'["venc"], f) \/ Has(q'["get"], f) \/ hand'["sink"] = f
                             THEN "display"
                        ELSE "decoder"
<1>1. Place[f] = IF InQueue(f, "decode") THEN "blank"
                 ELSE IF InQueue(f, "disp") THEN "picture"
                 ELSE IF AtSink(f) THEN "display" ELSE "decoder"
  BY DEF Place
<1>2. Place'[f] = IF InQueue(f, "decode")' THEN "blank"
                  ELSE IF InQueue(f, "disp")' THEN "picture"
                  ELSE IF AtSink(f)' THEN "display" ELSE "decoder"
  BY DEF Place
<1>3. QED BY <1>1, <1>2 DEF AtSink, InQueue, Has

LEMMA PlaceMoves ==
  ASSUME FrameType, Spot, NEW from \in Queues, NEW to \in Queues, from # to,
         q[from] # <<>>, Move(from, to), hand' = hand
  PROVE  /\ Head(q[from]) \in Frames
         /\ Place[Head(q[from])] = Kind[from]
         /\ Place'[Head(q[from])] = Kind[to]
         /\ \A f \in Frames : f # Head(q[from]) => Place'[f] = Place[f]
<1>1. {"decode", "disp", "venc", "get", "dec", "out"} = Queues /\ "sink" \in Hands
  BY DEF Queues, Hands
<1>2. /\ Head(q[from]) \in Frames /\ Has(q[from], Head(q[from]))
      /\ \A n \in Queues : \A f : Has(q'[n], f) <=>
           IF f = Head(q[from]) THEN n = to ELSE Has(q[n], f)
  BY MoveHas
<1>3. PICK x \in Frames : x = Head(q[from])
  BY <1>2
<1>4. /\ \A n \in Queues : Has(q[n], x) <=> n = from
      /\ \A n \in Queues : Has(q'[n], x) <=> n = to
      /\ hand["sink"] # x /\ hand'["sink"] # x
  BY <1>1, <1>2, <1>3 DEF Spot
<1>5. Place[x] = Kind[from]
  BY <1>1, <1>4, PlaceIs DEF Kind
<1>6. Place'[x] = Kind[to]
  BY <1>1, <1>4, PlaceIs DEF Kind
<1>7. ASSUME NEW f \in Frames, f # x PROVE Place'[f] = Place[f]
  <2>1. \A n \in Queues : Has(q'[n], f) <=> Has(q[n], f)
    BY <1>2, <1>3, <1>7
  <2>2. QED BY <1>1, <2>1, PlaceIs
<1>8. QED BY <1>3, <1>5, <1>6, <1>7

LEMMA PlaceTakes ==
  ASSUME FrameType, Spot, NEW n \in Queues, NEW h \in Hands, q[n] # <<>>, hand[h] = 0,
         Take(n, h), <<n, h>> \in {<<"dec", "dec">>, <<"venc", "sink">>}
  PROVE  \A f \in Frames : Place'[f] = Place[f]
<1>1. {"decode", "disp", "venc", "get", "dec", "out"} = Queues /\ {"dec", "sink"} = Hands
      /\ 0 \notin Frames
  BY DEF Queues, Hands, Frames
<1>2. q[n] \in Seq(Frames) /\ Distinct(q[n])
  BY DEF FrameType, Spot
<1>3. PICK x \in Frames : x = Head(q[n])
  BY <1>2, TailHas
<1>4. Has(q[n], x) /\ \A f : Has(Tail(q[n]), f) <=> Has(q[n], f) /\ f # x
  BY <1>2, <1>3, TailHas
<1>5. /\ q'[n] = Tail(q[n]) /\ \A m \in Queues \ {n} : q'[m] = q[m]
      /\ hand'[h] = x /\ \A g \in Hands \ {h} : hand'[g] = hand[g]
  BY <1>3 DEF Take, FrameType
<1>6. \A m \in Queues : Has(q[m], x) <=> m = n
  BY <1>4 DEF Spot
<1>7. TAKE f \in Frames
<1>8. CASE n = "dec" /\ h = "dec"
  BY <1>1, <1>5, <1>8, PlaceIs
<1>9. CASE n = "venc" /\ h = "sink"
  <2>1. /\ \A m \in {"decode", "disp", "get"} : q'[m] = q[m]
        /\ Has(q'["venc"], f) <=> Has(q["venc"], f) /\ f # x
        /\ hand["sink"] # f /\ (hand'["sink"] = f <=> f = x)
        /\ f = x => Has(q["venc"], f)
    BY <1>1, <1>4, <1>5, <1>9
  <2>2. QED BY <2>1, PlaceIs
<1>10. QED BY <1>8, <1>9

LEMMA PlacePuts ==
  ASSUME FrameType, Spot, NEW h \in Hands, NEW n \in Queues, hand[h] # 0,
         Put(h, n) \/ (PutHead(h, n) /\ h = "dec"),
         <<h, n>> \in {<<"dec", "out">>, <<"dec", "dec">>, <<"sink", "get">>}
  PROVE  \A f \in Frames : Place'[f] = Place[f]
<1>1. {"decode", "disp", "venc", "get", "dec", "out"} = Queues /\ {"dec", "sink"} = Hands
      /\ 0 \notin Frames
  BY DEF Queues, Hands, Frames
<1>2. /\ \A m \in Queues \ {n} : q'[m] = q[m]
      /\ hand'[h] = 0 /\ \A g \in Hands \ {h} : hand'[g] = hand[g]
  BY DEF Put, PutHead, FrameType
<1>3. TAKE f \in Frames
<1>4. CASE h = "dec" /\ n \in {"out", "dec"}
  BY <1>1, <1>2, <1>4, PlaceIs
<1>5. CASE h = "sink" /\ n = "get"
  <2>1. hand["sink"] \in Frames /\ q["get"] \in Seq(Frames) /\ Distinct(q["get"])
        /\ \A m \in Queues : ~Has(q[m], hand["sink"])
    BY <1>1, <1>5 DEF FrameType, Spot
  <2>2. q'["get"] = Append(q["get"], hand["sink"])
    BY <1>1, <1>5 DEF Put, FrameType
  <2>3. Has(q'["get"], f) <=> Has(q["get"], f) \/ f = hand["sink"]
    BY <1>1, <2>1, <2>2, AppendHas
  <2>4. hand'["sink"] # f /\ \A m \in {"decode", "disp", "venc"} : q'[m] = q[m]
    BY <1>1, <1>2, <1>5
  <2>5. QED BY <2>3, <2>4, PlaceIs
<1>6. QED BY <1>4, <1>5

LEMMA PlaceSame ==
  ASSUME UNCHANGED <<q, hand>> PROVE \A f \in Frames : Place'[f] = Place[f]
BY PlaceIs

LEMMA PlaceStays ==
  ASSUME \A f \in Frames : Place'[f] = Place[f] PROVE Place' = Place
<1>1. Place = [f \in Frames |-> Place[f]]
  BY DEF Place
<1>2. Place' = [f \in Frames |-> Place'[f]]
  BY DEF Place
<1>3. QED BY <1>1, <1>2

(* A move between two queues is a step of the cycle, or none.              *)
LEMMA MoveCycles ==
  ASSUME FrameType, Spot, NEW from \in Queues, NEW to \in Queues, from # to,
         q[from] # <<>>, Move(from, to), hand' = hand, shown' = shown,
         Kind[from] = Kind[to] \/ <<Kind[from], Kind[to]>> \in Cycle!Arcs
  PROVE  [Cycle!Next]_<<Place, shown>>
<1>1. PICK x \in Frames : x = Head(q[from])
  BY PlaceMoves
<1>2. /\ Place[x] = Kind[from] /\ Place'[x] = Kind[to]
      /\ \A f \in Frames \ {x} : Place'[f] = Place[f]
  BY <1>1, PlaceMoves
<1>3. CASE Kind[from] = Kind[to]
  <2>1. \A f \in Frames : Place'[f] = Place[f]
    BY <1>2, <1>3
  <2>2. QED BY <2>1, PlaceStays
<1>4. CASE <<Kind[from], Kind[to]>> \in Cycle!Arcs
  <2>1. Cycle!Move(x)
    BY <1>2, <1>4 DEF Cycle!Move
  <2>2. QED BY <2>1 DEF Cycle!Next
<1>5. QED BY <1>3, <1>4

LEMMA CycleStep ==
  ASSUME PlaceInv, BufferInv, OrderInv, [Next]_vars PROVE [Cycle!Next]_<<Place, shown>>
<1>1. FrameType /\ PcType /\ Spot /\ HandInv /\ ShowInv
  BY SpotIsOnePlace DEF PlaceInv, TypeOK
<1>2. {"decode", "disp", "venc", "get", "dec", "out"} = Queues /\ {"dec", "sink"} = Hands
  BY DEF Queues, Hands
<1>3. /\ Kind["decode"] = "blank" /\ Kind["disp"] = "picture" /\ Kind["venc"] = "display"
      /\ Kind["get"] = "display" /\ Kind["dec"] = "decoder" /\ Kind["out"] = "decoder"
  BY <1>2 DEF Kind
<1>4. ASSUME shown' = shown, UNCHANGED <<q, hand>> PROVE [Cycle!Next]_<<Place, shown>>
  BY <1>4, PlaceSame, PlaceStays
<1>5. CASE Decoder
  <2>1. shown' = shown
    BY <1>5 DEF Decoder, DecSleep, DecTake, DecExit, DecRelease, DecReadPicture, DecReadFormat,
         DecReadCancelled, DecReadFails, DecReturns, DecGot, DecKeeps
  <2>2. CASE DecTake
    <3>1. q["dec"] # <<>> /\ hand["dec"] = 0 /\ Take("dec", "dec")
      BY <1>1, <2>2 DEF DecTake, DecAwake, HandInv
    <3>2. \A f \in Frames : Place'[f] = Place[f]
      BY <1>1, <1>2, <3>1, PlaceTakes
    <3>3. QED BY <2>1, <3>2, PlaceStays
  <2>3. CASE DecGot
    <3>1. hand["dec"] # 0 /\ (Put("dec", "out") \/ PutHead("dec", "dec"))
      BY <1>1, <2>3 DEF DecGot, HandInv
    <3>2. \A f \in Frames : Place'[f] = Place[f]
      BY <1>1, <1>2, <3>1, PlacePuts
    <3>3. QED BY <2>1, <3>2, PlaceStays
  <2>4. CASE ~DecTake /\ ~DecGot
    <3>1. UNCHANGED <<q, hand>>
      BY <1>5, <2>4 DEF Decoder, DecSleep, DecExit, DecRelease, DecReadPicture, DecReadFormat,
           DecReadCancelled, DecReadFails, DecReturns, frameVars
    <3>2. QED BY <1>4, <2>1, <3>1
  <2>5. QED BY <2>2, <2>3, <2>4
<1>6. CASE Sink
  <2>1. CASE SinkSkip
    <3>1. q["venc"] # <<>> /\ Move("venc", "get") /\ UNCHANGED <<hand, shown>>
      BY <2>1 DEF SinkSkip, SinkHasFrame
    <3>2. QED BY <1>1, <1>2, <1>3, <3>1, MoveCycles
  <2>2. CASE SinkTake
    <3>1. q["venc"] # <<>> /\ hand["sink"] = 0 /\ Take("venc", "sink") /\ shown' = shown
      BY <1>1, <2>2 DEF SinkTake, SinkHasFrame, SinkAwake, HandInv
    <3>2. \A f \in Frames : Place'[f] = Place[f]
      BY <1>1, <1>2, <3>1, PlaceTakes
    <3>3. QED BY <3>1, <3>2, PlaceStays
  <2>3. CASE SinkDone
    <3>1. hand["sink"] # 0 /\ Put("sink", "get") /\ shown' = shown
      BY <1>1, <2>3 DEF SinkDone, HandInv
    <3>2. \A f \in Frames : Place'[f] = Place[f]
      BY <1>1, <1>2, <3>1, PlacePuts
    <3>3. QED BY <3>1, <3>2, PlaceStays
  <2>4. CASE SinkRelease
    <3>1. UNCHANGED <<q, hand>> /\ spc \in {"render", "drop"}
      BY <2>4 DEF SinkRelease
    <3>2. CASE shown' = shown
      BY <1>4, <3>1, <3>2
    <3>3. CASE shown' # shown
      <4>1. PICK f \in Frames : f = hand["sink"]
        BY <1>1, <1>2, <3>1 DEF HandInv, FrameType
      <4>2. Place[f] = "display"
        <5>1. \A n \in Queues : ~Has(q[n], f)
          BY <1>1, <1>2, <4>1 DEF Spot
        <5>2. QED BY <1>2, <4>1, <5>1, PlaceIs
      <4>3. shown' \in Nat /\ shown' > shown
        <5>1. PlaceInv'
          BY PlaceStep
        <5>2. shown' \in Nat
          BY <5>1 DEF PlaceInv, TypeOK, StreamType
        <5>3. QED BY <3>3, <5>2, ShowsLater
      <4>4. Place' = Place
        BY <3>1, PlaceSame, PlaceStays
      <4>5. QED BY <4>2, <4>3, <4>4 DEF Cycle!Next, Cycle!Render
    <3>4. QED BY <3>2, <3>3
  <2>5. CASE SinkSleep \/ SinkExit \/ SinkPaced
    <3>1. UNCHANGED <<q, hand, shown>>
      BY <2>5 DEF SinkSleep, SinkExit, SinkPaced, frameVars
    <3>2. QED BY <1>4, <3>1
  <2>6. QED BY <1>6, <2>1, <2>2, <2>3, <2>4, <2>5 DEF Sink
<1>7. CASE Engine
  <2>1. shown' = shown
    BY <1>7 DEF Engine, FlushEnter, FlushSleep, FlushDone, QueueSinkFrame, SinkEmpty, PutOut,
         GetOut, Output, DecIn, Stamp, Leave, CloseEnter, CloseFlush, CloseJoin, CloseKeeps,
         EngineKeeps
  <2>2. ASSUME NEW from \in Queues, NEW to \in Queues,
               <<from, to>> \in {<<"get", "decode">>, <<"decode", "dec">>, <<"out", "disp">>,
                                 <<"out", "decode">>, <<"disp", "decode">>, <<"disp", "venc">>},
               q[from] # <<>>, Move(from, to), hand' = hand
        PROVE  [Cycle!Next]_<<Place, shown>>
    <3>1. from # to /\ <<Kind[from], Kind[to]>> \in Cycle!Arcs
      BY <1>3, <2>2 DEF Cycle!Arcs
    <3>2. QED BY <1>1, <2>1, <2>2, <3>1, MoveCycles
  <2>3. CASE QueueSinkFrame
    <3>1. q["get"] # <<>> /\ Move("get", "decode") /\ hand' = hand
      BY <2>3 DEF QueueSinkFrame
    <3>2. QED BY <1>2, <2>2, <3>1
  <2>4. CASE PutOut
    <3>1. hand' = hand /\ (q' = q \/ (q["decode"] # <<>> /\ Move("decode", "dec")))
      BY <2>4 DEF PutOut
    <3>2. QED BY <1>2, <1>4, <2>1, <2>2, <3>1
  <2>5. CASE GetOut
    <3>1. hand' = hand
          /\ (q' = q \/ (q["out"] # <<>> /\ (Move("out", "disp") \/ Move("out", "decode"))))
      BY <2>5 DEF GetOut
    <3>2. QED BY <1>2, <1>4, <2>1, <2>2, <3>1
  <2>6. CASE Output
    <3>1. hand' = hand /\ q["disp"] # <<>> /\ (Move("disp", "decode") \/ Move("disp", "venc"))
      BY <1>1, <2>6 DEF Output, ShowInv
    <3>2. QED BY <1>2, <2>2, <3>1
  <2>7. CASE FlushEnter \/ FlushSleep \/ FlushDone \/ SinkEmpty \/ DecIn \/ Stamp \/ Leave
               \/ CloseEnter \/ CloseFlush \/ CloseJoin
    <3>1. UNCHANGED <<q, hand>>
      BY <2>7 DEF FlushEnter, FlushSleep, FlushDone, SinkEmpty, DecIn, Stamp, Leave,
           CloseEnter, CloseFlush, CloseJoin, CloseKeeps, frameVars
    <3>2. QED BY <1>4, <2>1, <3>1
  <2>8. QED BY <1>7, <2>3, <2>4, <2>5, <2>6, <2>7 DEF Engine
<1>8. CASE App \/ SpuriousWakeup \/ UNCHANGED vars
  <2>1. UNCHANGED <<q, hand, shown>>
    BY <1>8 DEF App, SetPaused, SeekStart, SeekFlush, SeekOne, SeekArm, SeekEnd, Stop,
         AppKeeps, SpuriousWakeup, frameVars, vars
  <2>2. QED BY <1>4, <2>1
<1>9. QED BY <1>5, <1>6, <1>7, <1>8 DEF Next

LEMMA CycleInit ==
  ASSUME Init PROVE Cycle!Init
<1>1. PlaceInv
  BY PlaceInit
<1>2. {"decode", "disp", "venc", "get", "dec", "out"} = Queues
  BY DEF Queues
<1>3. /\ q["get"] = [f \in Frames |-> f] /\ q["decode"] = <<>> /\ q["disp"] = <<>> /\ shown = 0
  BY <1>2 DEF Init
<1>4. ASSUME NEW f \in Frames PROVE Place[f] = "display"
  <2>1. Has(q["get"], f) /\ ~Has(q["decode"], f) /\ ~Has(q["disp"], f)
    BY <1>3 DEF Has
  <2>2. QED BY <2>1, PlaceIs
<1>5. Place = [f \in Frames |-> Place[f]]
  BY DEF Place
<1>6. QED BY <1>3, <1>4, <1>5 DEF Cycle!Init

(* The asynchronous player does what FrameCycle says: one cycle for each   *)
(* frame, one party at a time, and pictures that follow each other; for    *)
(* any number of frames, buffers, inputs and seeks.                        *)
THEOREM Refinement == Spec => CycleSpec
<1>1. Init => Cycle!Init
  BY CycleInit
<1>2. PlaceInv /\ BufferInv /\ OrderInv /\ [Next]_vars => [Cycle!Next]_<<Place, shown>>
  BY CycleStep
<1>3. QED BY <1>1, <1>2, OrderInvariant, PTL DEF Spec, CycleSpec, Cycle!Spec
====
