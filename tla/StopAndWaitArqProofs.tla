------------------------ MODULE StopAndWaitArqProofs ------------------------
(***************************************************************************)
(* Theorems about StopAndWaitArq, for every value of its constants and      *)
(* with both nodes talking at once.                                         *)
(*                                                                          *)
(* With acknowledgements (TwoWayInv): a node has at most one fragment x     *)
(* outstanding, all data of it on the air is of x or x - 1, all             *)
(* acknowledgements back are of the same two, and neither link carries      *)
(* something of x - 1 behind something of x.  The frames of the other       *)
(* direction, between these, change nothing of that.                        *)
(*                                                                          *)
(* Without (NoAckInv): while nothing was lost, a link holds the fragments   *)
(* that have not been processed yet, numbered one after the other, so no    *)
(* frame has the number of the frame before it.                             *)
(***************************************************************************)
EXTENDS StopAndWaitArq, SequenceTheorems, TLAPS

-----------------------------------------------------------------------------
(* Lemmas about the operators. *)

\* Each node has a peer, which is the other node.
LEMMA PeerIsNode == \A n \in Node : Peer(n) \in Node /\ Peer(n) # n
BY NodeAssumption DEF Peer

\* A finite tuple given by its elements is a sequence.
LEMMA SeqByElements ==
    ASSUME NEW S, NEW k \in Nat, NEW f \in [1..k -> S]
    PROVE  f \in Seq(S) /\ Len(f) = k
BY SeqDef

\* Both kinds of frames are frames.
LEMMA FrameTypes ==
    /\ \A s \in SeqNum : AckFrame(s) \in Frame
    /\ \A s \in SeqNum, i \in Nat, b \in FragBits : DataFrame(s, i, b) \in Frame
    /\ NoFrame \in Frame
BY SeqAssumption DEF AckFrame, DataFrame, NoFrame, Frame, SeqNum, FragBits

\* A message of k fragments becomes k data frames, numbered one after the other.
LEMMA FragmentsTyped ==
    ASSUME NEW n \in Node, NEW k \in 1 .. MaxMtus,
           txSeq[n] \in SeqNum, offered[n] \in Nat
    PROVE  /\ Fragments(n, k) \in Seq(Frame)
           /\ Len(Fragments(n, k)) = k
           /\ \A i \in 1 .. k : Fragments(n, k)[i] =
                DataFrame(Wrap(txSeq[n] + i - 1), offered[n] + i, FragBit(i, k))
           /\ Wrap(txSeq[n] + k) \in SeqNum
<1>1. \A i \in 1 .. k : Wrap(txSeq[n] + i - 1) \in SeqNum
  BY SeqAssumption, MtuAssumption DEF Wrap, SeqNum
<1>2. \A i \in 1 .. k : FragBit(i, k) \in FragBits
  BY DEF FragBit, FragBits
<1>3. \A i \in 1 .. k : offered[n] + i \in Nat
  OBVIOUS
<1>4. Fragments(n, k) \in [1 .. k -> Frame]
  BY <1>1, <1>2, <1>3, FrameTypes DEF Fragments
<1>5. k \in Nat
  BY MtuAssumption
<1>6. Fragments(n, k) \in Seq(Frame) /\ Len(Fragments(n, k)) = k
  BY <1>4, <1>5, SeqByElements
<1>7. Wrap(txSeq[n] + k) \in SeqNum
  BY SeqAssumption, MtuAssumption DEF Wrap, SeqNum
<1>8. \A i \in 1 .. k : Fragments(n, k)[i] =
        DataFrame(Wrap(txSeq[n] + i - 1), offered[n] + i, FragBit(i, k))
  BY DEF Fragments
<1> QED BY <1>6, <1>7, <1>8

\* A frame joins a link or is lost.
LEMMA OnAirTyped ==
    ASSUME NEW l \in Seq(Frame), NEW f \in Frame
    PROVE  OnAir(l, f) \in Seq(Frame)
BY AppendProperties DEF OnAir

-----------------------------------------------------------------------------
(* Type correctness. *)

\* What the sending half of every application action preserves.
LEMMA SubmitTyped ==
    ASSUME TypeOK, NEW n \in Node, NEW k \in 1 .. MaxMtus, Submit(n, k)
    PROVE  /\ useAck' \in AckModes
           /\ txSeq' \in [Node -> SeqNum]
           /\ offered' \in [Node -> Nat]
           /\ submitted' \in [Node -> Seq(Seq(Nat))]
           /\ lastSeq' \in [Node -> SeqNum \union {-1}]
           /\ packetBuffer' \in [Node -> Seq(Nat)]
           /\ arrived' \in [Node -> SUBSET Nat]
           /\ accepted' \in [Node -> Seq(Nat)]
           /\ delivered' \in [Node -> Seq(Seq(Nat))]
<1>1. txSeq[n] \in SeqNum /\ offered[n] \in Nat /\ k \in Nat
  BY MtuAssumption DEF TypeOK
<1>2. Wrap(txSeq[n] + k) \in SeqNum
  BY <1>1, FragmentsTyped
<1>3. [i \in 1 .. k |-> offered[n] + i] \in Seq(Nat)
  <2>1. [i \in 1 .. k |-> offered[n] + i] \in [1 .. k -> Nat]
    BY <1>1
  <2> QED BY <2>1, <1>1, SeqByElements
<1>4. Append(submitted[n], [i \in 1 .. k |-> offered[n] + i]) \in Seq(Seq(Nat))
  BY <1>3, AppendProperties DEF TypeOK
<1> QED BY <1>1, <1>2, <1>4 DEF TypeOK, Submit

\* The queue a node sends from when a message comes in.
LEMMA QueueTyped ==
    ASSUME TypeOK, NEW n \in Node, NEW k \in 1 .. MaxMtus
    PROVE  LET all == appQueue[n] \o Fragments(n, k) IN
           /\ all \in Seq(Frame)
           /\ Len(all) = Len(appQueue[n]) + k
           /\ all # <<>>
           /\ Head(all) \in Frame
           /\ Tail(all) \in Seq(Frame)
<1>1. txSeq[n] \in SeqNum /\ offered[n] \in Nat /\ appQueue[n] \in Seq(Frame)
  BY DEF TypeOK
<1>2. Fragments(n, k) \in Seq(Frame) /\ Len(Fragments(n, k)) = k
  BY <1>1, FragmentsTyped
<1> DEFINE all == appQueue[n] \o Fragments(n, k)
<1>3. all \in Seq(Frame) /\ Len(all) = Len(appQueue[n]) + k
  BY <1>1, <1>2, ConcatProperties
<1>4. all # <<>>
  BY <1>1, <1>3
<1> HIDE DEF all
<1>5. Head(all) \in Frame /\ Tail(all) \in Seq(Frame)
  BY <1>3, <1>4, HeadTailProperties
<1> QED BY <1>3, <1>4, <1>5 DEF all

\* Sending the head of a queue of frames keeps the sender well typed.
LEMMA SendHeadTyped ==
    ASSUME TypeOK, NEW n \in Node, NEW q, SendHead(n, q),
           Head(q) \in Frame, Tail(q) \in Seq(Frame)
    PROVE  /\ state' \in [Node -> {"idle", "wait"}]
           /\ appQueue' \in [Node -> Seq(Frame)]
           /\ lastTx' \in [Node -> Frame]
           /\ currSeq' \in [Node -> SeqNum]
BY DEF TypeOK, SendHead, Frame

\* A transmission keeps the radio well typed.
LEMMA TransmitTyped ==
    ASSUME TypeOK, NEW n \in Node, NEW f \in Frame, Transmit(n, f)
    PROVE  link' \in [Node -> Seq(Frame)] /\ lost' \in [Node -> BOOLEAN]
<1>1. link[Peer(n)] \in Seq(Frame)
  BY PeerIsNode DEF TypeOK
<1>2. OnAir(link[Peer(n)], f) \in Seq(Frame)
  BY <1>1, OnAirTyped
<1> QED BY <1>2, PeerIsNode DEF TypeOK, Transmit

\* Every value the blocks and the radio ever hold has its type: sequence
\* numbers stay below SeqMod although tx_seq_num is advanced for ever.
THEOREM TypeCorrect == Spec => []TypeOK
<1>1. Init => TypeOK
  BY FrameTypes, SeqAssumption DEF Init, TypeOK, SeqNum
<1>2. TypeOK /\ [Next]_vars => TypeOK'
  <2> SUFFICES ASSUME TypeOK, [Next]_vars PROVE TypeOK'
    OBVIOUS
  <2>1. ASSUME NEW n \in Node, NEW k \in 1 .. MaxMtus, AppMessageIdle(n, k)
        PROVE  TypeOK'
    <3> DEFINE all == appQueue[n] \o Fragments(n, k)
    <3>1. Head(all) \in Frame /\ Tail(all) \in Seq(Frame)
      BY QueueTyped
    <3>2. Submit(n, k) /\ SendHead(n, all) /\ Transmit(n, Head(all))
      BY <2>1 DEF AppMessageIdle
    <3> HIDE DEF all
    <3> QED BY <3>1, <3>2, SubmitTyped, SendHeadTyped, TransmitTyped DEF TypeOK
  <2>2. ASSUME NEW n \in Node, NEW k \in 1 .. MaxMtus, AppMessageWaiting(n, k)
        PROVE  TypeOK'
    <3>1. appQueue[n] \o Fragments(n, k) \in Seq(Frame)
      BY QueueTyped
    <3>2. appQueue' \in [Node -> Seq(Frame)]
      BY <2>2, <3>1 DEF AppMessageWaiting, TypeOK
    <3>3. Submit(n, k)
      BY <2>2 DEF AppMessageWaiting
    <3>4. link' \in [Node -> Seq(Frame)] /\ lost' \in [Node -> BOOLEAN]
      <4>1. lastTx[n] \in Frame
        BY DEF TypeOK
      <4>2. CASE Transmit(n, lastTx[n])
        BY <4>1, <4>2, TransmitTyped
      <4>3. CASE UNCHANGED <<link, lost>>
        BY <4>3 DEF TypeOK
      <4> QED BY <2>2, <4>2, <4>3 DEF AppMessageWaiting
    <3>5. UNCHANGED <<state, lastTx, currSeq>>
      BY <2>2 DEF AppMessageWaiting
    <3> QED BY <3>2, <3>3, <3>4, <3>5, SubmitTyped DEF TypeOK
  <2>3. ASSUME NEW n \in Node, NEW k \in 1 .. MaxMtus, AppMessageNoAck(n, k)
        PROVE  TypeOK'
    <3> DEFINE all == appQueue[n] \o Fragments(n, k)
               room == LinkCap - Len(link[Peer(n)])
               top == IF k <= room THEN k ELSE room
    <3>1. k \in Nat /\ room \in Int /\ top \in Int /\ top <= k
      <4>1. Len(link[Peer(n)]) \in Nat
        BY PeerIsNode DEF TypeOK
      <4> QED BY <4>1, MtuAssumption, BoundAssumption
    <3>2. all \in Seq(Frame) /\ Len(all) \in Nat /\ k <= Len(all)
      <4>1. Len(appQueue[n]) \in Nat
        BY DEF TypeOK
      <4> QED BY QueueTyped, <4>1, <3>1
    <3>3. /\ Submit(n, k)
          /\ lastTx' = [lastTx EXCEPT ![n] = all[k]]
          /\ currSeq' = [currSeq EXCEPT ![n] = all[k].seq]
          /\ appQueue' = [appQueue EXCEPT ![n] = SubSeq(all, k + 1, Len(all))]
          /\ link' = [link EXCEPT ![Peer(n)] = @ \o SubSeq(all, 1, top)]
          /\ lost' = [lost EXCEPT ![Peer(n)] = @ \/ k > room]
          /\ UNCHANGED state
      BY <2>3 DEF AppMessageNoAck
    <3> HIDE DEF all, room, top
    <3>4. \A i \in 1 .. Len(all) : all[i] \in Frame
      BY <3>2, ElementOfSeq
    <3>5. SubSeq(all, k + 1, Len(all)) \in Seq(Frame)
      BY <3>1, <3>2, <3>4, SubSeqProperties
    <3>6. SubSeq(all, 1, top) \in Seq(Frame)
      BY <3>1, <3>2, <3>4, SubSeqProperties
    <3>7. all[k] \in Frame /\ all[k].seq \in SeqNum
      BY <3>1, <3>2, <3>4 DEF Frame
    <3>8. link[Peer(n)] \o SubSeq(all, 1, top) \in Seq(Frame)
      BY <3>6, PeerIsNode, ConcatProperties DEF TypeOK
    <3>9. link' \in [Node -> Seq(Frame)] /\ lost' \in [Node -> BOOLEAN]
      BY <3>3, <3>8, PeerIsNode DEF TypeOK
    <3>10. /\ lastTx' \in [Node -> Frame]
           /\ currSeq' \in [Node -> SeqNum]
           /\ appQueue' \in [Node -> Seq(Frame)]
           /\ state' \in [Node -> {"idle", "wait"}]
      BY <3>3, <3>5, <3>7 DEF TypeOK
    <3> QED BY <3>3, <3>9, <3>10, SubmitTyped DEF TypeOK
  <2>4. ASSUME NEW n \in Node, AppBeyondBound(n) PROVE TypeOK'
    <3>1. Transmit(n, lastTx[n]) /\ lastTx[n] \in Frame
      BY <2>4 DEF AppBeyondBound, TypeOK
    <3>2. link' \in [Node -> Seq(Frame)] /\ lost' \in [Node -> BOOLEAN]
      BY <3>1, TransmitTyped
    <3> QED BY <2>4, <3>2 DEF AppBeyondBound, TypeOK, blockVars
  <2>5. ASSUME NEW n \in Node, PhyData(n) PROVE TypeOK'
    <3> DEFINE f == Head(link[n])
    <3>1. link[n] \in Seq(Frame) /\ link[n] # <<>>
      BY <2>5 DEF PhyData, TypeOK
    <3>2. f \in Frame /\ Tail(link[n]) \in Seq(Frame)
      BY <3>1, HeadTailProperties
    <3>3. f.seq \in SeqNum /\ f.id \in Nat /\ f.frag \in FragBits
      BY <3>2 DEF Frame
    <3>4. OnAir(link[Peer(n)], AckFrame(f.seq)) \in Seq(Frame)
      BY <3>3, PeerIsNode, FrameTypes, OnAirTyped DEF TypeOK
    <3>5. link' \in [Node -> Seq(Frame)]
      BY <2>5, <3>2, <3>4, PeerIsNode DEF PhyData, TypeOK
    <3>6. lost' \in [Node -> BOOLEAN]
      BY <2>5, PeerIsNode DEF PhyData, TypeOK
    <3>7. lastSeq' \in [Node -> SeqNum \union {-1}] /\ arrived' \in [Node -> SUBSET Nat]
      BY <2>5, <3>3 DEF PhyData, TypeOK
    <3>8. /\ accepted' \in [Node -> Seq(Nat)]
          /\ packetBuffer' \in [Node -> Seq(Nat)]
          /\ delivered' \in [Node -> Seq(Seq(Nat))]
      <4>1. CASE UNCHANGED <<accepted, packetBuffer, delivered>>
        BY <4>1 DEF TypeOK
      <4>2. CASE ProcessFragment(n, f)
        <5>1. /\ Append(accepted[n], f.id) \in Seq(Nat)
              /\ Append(packetBuffer[n], f.id) \in Seq(Nat)
          BY <3>3, AppendProperties DEF TypeOK
        <5>2. /\ Append(delivered[n], <<f.id>>) \in Seq(Seq(Nat))
              /\ Append(delivered[n], Append(packetBuffer[n], f.id)) \in Seq(Seq(Nat))
          BY <3>3, <5>1, AppendProperties DEF TypeOK
        <5> HIDE DEF f
        <5>3. accepted' \in [Node -> Seq(Nat)]
          BY <4>2, <5>1 DEF ProcessFragment, TypeOK
        <5>4. packetBuffer' \in [Node -> Seq(Nat)]
          BY <4>2, <3>3, <5>1 DEF ProcessFragment, TypeOK, FragBits
        <5>5. delivered' \in [Node -> Seq(Seq(Nat))]
          BY <4>2, <3>3, <5>2 DEF ProcessFragment, TypeOK, FragBits
        <5> QED BY <5>3, <5>4, <5>5
      <4> QED BY <2>5, <4>1, <4>2 DEF PhyData
    <3>9. UNCHANGED <<useAck, state, appQueue, lastTx, currSeq, txSeq, submitted, offered>>
      BY <2>5 DEF PhyData
    <3> QED BY <3>5, <3>6, <3>7, <3>8, <3>9 DEF TypeOK
  <2>6. ASSUME NEW n \in Node, PhyAck(n) PROVE TypeOK'
    <3> DEFINE f == Head(link[n])
               rest == [link EXCEPT ![n] = Tail(@)]
    <3>1. link[n] \in Seq(Frame) /\ link[n] # <<>>
      BY <2>6 DEF PhyAck, TypeOK
    <3>2. f \in Frame /\ Tail(link[n]) \in Seq(Frame)
      BY <3>1, HeadTailProperties
    <3>3. rest \in [Node -> Seq(Frame)] /\ f.seq \in SeqNum
      BY <3>2 DEF Frame, TypeOK
    <3>4. /\ lastSeq' \in [Node -> SeqNum \union {-1}]
          /\ UNCHANGED <<useAck, txSeq, packetBuffer, submitted, offered, arrived,
                         accepted, delivered>>
      BY <2>6, <3>3 DEF PhyAck, TypeOK
    <3>5. CASE AckMatches(n, f) /\ MoreToSend(n)
      <4>1. /\ SendHead(n, appQueue[n])
            /\ link' = [rest EXCEPT ![Peer(n)] = OnAir(@, Head(appQueue[n]))]
            /\ lost' = [lost EXCEPT ![Peer(n)] = @ \/ Len(link[Peer(n)]) >= LinkCap]
        BY <2>6, <3>5 DEF PhyAck
      <4>2. Head(appQueue[n]) \in Frame /\ Tail(appQueue[n]) \in Seq(Frame)
        BY <3>5, HeadTailProperties DEF MoreToSend, TypeOK
      <4>3. OnAir(rest[Peer(n)], Head(appQueue[n])) \in Seq(Frame)
        BY <3>3, <4>2, PeerIsNode, OnAirTyped
      <4> HIDE DEF rest, f
      <4>4. link' \in [Node -> Seq(Frame)]
        BY <4>1, <4>3, <3>3
      <4>5. lost' \in [Node -> BOOLEAN]
        BY <4>1, PeerIsNode DEF TypeOK
      <4> QED BY <4>1, <4>2, <4>4, <4>5, <3>4, SendHeadTyped DEF TypeOK
    <3>6. CASE ~(AckMatches(n, f) /\ MoreToSend(n))
      <4>1. /\ state' = [state EXCEPT ![n] = IF AckMatches(n, f) THEN "idle" ELSE @]
            /\ link' = rest
            /\ UNCHANGED <<appQueue, lastTx, currSeq, lost>>
        BY <2>6, <3>6 DEF PhyAck
      <4> HIDE DEF rest, f
      <4> QED BY <4>1, <3>3, <3>4 DEF TypeOK
    <3> QED BY <3>5, <3>6
  <2>7. ASSUME NEW n \in Node, Lose(n) PROVE TypeOK'
    <3>1. Tail(link[n]) \in Seq(Frame)
      BY <2>7, HeadTailProperties DEF Lose, TypeOK
    <3> QED BY <2>7, <3>1 DEF Lose, TypeOK, blockVars
  <2>8. CASE UNCHANGED vars
    BY <2>8 DEF TypeOK, vars, blockVars, history
  <2> QED BY <2>1, <2>2, <2>3, <2>4, <2>5, <2>6, <2>7, <2>8
          DEF Next, AppMessage, PhyMessage
<1> QED BY <1>1, <1>2, PTL DEF Spec

-----------------------------------------------------------------------------
(* Sequence numbers. *)

\* The sequence number after x.
Advance(x) == Wrap(x + 1)

\* The numbers of q go up by one from e, and t is the number after the last.
Chain(q, e, t) ==
    /\ q = <<>> => t = e
    /\ q # <<>> => q[1].seq = e /\ t = Advance(q[Len(q)].seq)
    /\ \A j \in 1 .. Len(q) - 1 : q[j + 1].seq = Advance(q[j].seq)

\* Neighbouring sequence numbers differ, and Advance is a permutation.
LEMMA AdvanceProperties ==
    /\ \A x \in SeqNum : Advance(x) \in SeqNum /\ Advance(x) # x
    /\ \A x, y \in SeqNum : Advance(x) = Advance(y) => x = y
BY SeqAssumption DEF Advance, Wrap, SeqNum

\* The fragments of one message are numbered on from tx_seq_num.
LEMMA ChainFragments ==
    ASSUME NEW n \in Node, NEW k \in 1 .. MaxMtus,
           txSeq[n] \in SeqNum, offered[n] \in Nat
    PROVE  Chain(Fragments(n, k), txSeq[n], Wrap(txSeq[n] + k))
<1> DEFINE F == Fragments(n, k)
<1>a. k \in Nat /\ k >= 1 /\ k <= SeqMod
  BY MtuAssumption, SeqAssumption
<1>b. F \in Seq(Frame) /\ Len(F) = k
  BY FragmentsTyped
<1>c. \A i \in 1 .. k : F[i] =
        DataFrame(Wrap(txSeq[n] + i - 1), offered[n] + i, FragBit(i, k))
  BY FragmentsTyped
<1> HIDE DEF F
<1>1. F \in Seq(Frame) /\ Len(F) = k /\ k \in Nat /\ k >= 1 /\ k <= SeqMod
  BY <1>a, <1>b
<1>2. \A i \in 1 .. k : F[i].seq = Wrap(txSeq[n] + i - 1)
  BY <1>1, <1>c DEF DataFrame
<1>3. F # <<>>
  BY <1>1
<1>4. F[1].seq = txSeq[n]
  BY <1>1, <1>2, SeqAssumption DEF Wrap, SeqNum
<1>5. Wrap(txSeq[n] + k) = Advance(F[k].seq)
  BY <1>1, <1>2, SeqAssumption DEF Wrap, SeqNum, Advance
<1>6. ASSUME NEW j \in 1 .. k - 1 PROVE F[j + 1].seq = Advance(F[j].seq)
  <2>1. F[j].seq = Wrap(txSeq[n] + j - 1) /\ F[j + 1].seq = Wrap(txSeq[n] + (j + 1) - 1)
    BY <1>1, <1>2
  <2> QED BY <2>1, <1>1, SeqAssumption DEF Wrap, SeqNum, Advance
<1>7. Chain(F, txSeq[n], Wrap(txSeq[n] + k))
  BY <1>1, <1>3, <1>4, <1>5, <1>6 DEF Chain
<1> QED BY <1>7 DEF F

\* Two chains that meet make one.
LEMMA ChainConcat ==
    ASSUME NEW q \in Seq(Frame), NEW p \in Seq(Frame), NEW e, NEW t, NEW u,
           Chain(q, e, t), Chain(p, t, u)
    PROVE  Chain(q \o p, e, u)
<1> DEFINE c == q \o p
<1>1. /\ c \in Seq(Frame) /\ Len(c) = Len(q) + Len(p)
      /\ \A i \in 1 .. Len(q) + Len(p) :
            c[i] = IF i <= Len(q) THEN q[i] ELSE p[i - Len(q)]
      /\ Len(q) \in Nat /\ Len(p) \in Nat
  BY ConcatProperties
<1> HIDE DEF c
<1>2. c = <<>> => u = e
  BY <1>1 DEF Chain
<1>3. ASSUME c # <<>> PROVE c[1].seq = e /\ u = Advance(c[Len(c)].seq)
  <2>1. CASE q = <<>>
    BY <1>1, <1>3, <2>1 DEF Chain
  <2>2. CASE q # <<>> /\ p = <<>>
    BY <1>1, <2>2 DEF Chain
  <2>3. CASE q # <<>> /\ p # <<>>
    <3>1. Len(q) >= 1 /\ Len(p) >= 1
      BY <1>1, <2>3, EmptySeq
    <3>2. c[1] = q[1]
      BY <1>1, <3>1
    <3>3. c[Len(c)] = p[Len(p)]
      BY <1>1, <3>1
    <3>4. q[1].seq = e /\ u = Advance(p[Len(p)].seq)
      BY <2>3 DEF Chain
    <3> QED BY <3>2, <3>3, <3>4
  <2> QED BY <2>1, <2>2, <2>3
<1>4. ASSUME NEW j \in 1 .. Len(c) - 1 PROVE c[j + 1].seq = Advance(c[j].seq)
  <2>1. CASE j < Len(q)
    <3>1. c[j] = q[j] /\ c[j + 1] = q[j + 1] /\ j \in 1 .. Len(q) - 1
      BY <1>1, <2>1
    <3> QED BY <3>1 DEF Chain
  <2>2. CASE j = Len(q)
    <3>1. Len(q) >= 1 /\ Len(p) >= 1
      BY <1>1, <2>2
    <3>2. q # <<>> /\ p # <<>>
      BY <3>1, EmptySeq
    <3>3. j <= Len(q) /\ ~(j + 1 <= Len(q)) /\ (j + 1) - Len(q) = 1
      BY <1>1, <2>2, <3>1
    <3>4. j \in 1 .. Len(q) + Len(p) /\ j + 1 \in 1 .. Len(q) + Len(p)
      BY <1>1, <2>2, <3>1
    <3>5. c[j] = q[Len(q)] /\ c[j + 1] = p[1]
      BY <1>1, <2>2, <3>3, <3>4
    <3> QED BY <3>2, <3>5, <2>2 DEF Chain
  <2>3. CASE j > Len(q)
    <3>1. c[j] = p[j - Len(q)] /\ c[j + 1] = p[j - Len(q) + 1]
      BY <1>1, <2>3
    <3>2. j - Len(q) \in 1 .. Len(p) - 1
      BY <1>1, <2>3
    <3> QED BY <3>1, <3>2 DEF Chain
  <2> QED BY <1>1, <2>1, <2>2, <2>3
<1> QED BY <1>2, <1>3, <1>4 DEF Chain, c

\* What follows the head of a chain is a chain.
LEMMA ChainTail ==
    ASSUME NEW q \in Seq(Frame), q # <<>>, NEW e, NEW t, Chain(q, e, t)
    PROVE  Head(q).seq = e /\ Chain(Tail(q), Advance(e), t)
<1> DEFINE p == Tail(q)
<1>1. /\ p \in Seq(Frame) /\ Len(p) = Len(q) - 1
      /\ \A i \in 1 .. Len(p) : p[i] = q[i + 1]
      /\ Len(q) \in Nat /\ Len(q) >= 1 /\ Head(q) = q[1]
  BY HeadTailProperties
<1> HIDE DEF p
<1>2. ASSUME p = <<>> PROVE t = Advance(e)
  <2>1. Len(p) = 0
    BY <1>2
  <2>2. Len(q) = 1
    BY <1>1, <2>1
  <2>3. q # <<>> /\ q[1].seq = e
    BY DEF Chain
  <2> QED BY <2>2, <2>3 DEF Chain
<1>3. p # <<>> => p[1].seq = Advance(e) /\ t = Advance(p[Len(p)].seq)
  BY <1>1 DEF Chain
<1>4. ASSUME NEW j \in 1 .. Len(p) - 1 PROVE p[j + 1].seq = Advance(p[j].seq)
  <2>1. p[j] = q[j + 1] /\ p[j + 1] = q[j + 1 + 1] /\ j + 1 \in 1 .. Len(q) - 1
    BY <1>1
  <2> QED BY <2>1 DEF Chain
<1> QED BY <1>1, <1>2, <1>3, <1>4 DEF Chain, p

-----------------------------------------------------------------------------
(* The sender. *)

\* The number of the fragment s sent last, 0 before the first.
Cur(s) == lastTx[s].id

\* The sequence number of the fragment after it.
Expected(s) == IF Cur(s) = 0 THEN 0 ELSE Advance(lastTx[s].seq)

\* The queue holds the fragments after the outstanding one, in order.
SenderInv(s) ==
    /\ state[s] = "idle" => appQueue[s] = <<>>
    /\ Cur(s) = 0 => state[s] = "idle"
    /\ Cur(s) > 0 => currSeq[s] = lastTx[s].seq /\ lastTx[s].type = "data"
    /\ offered[s] = Cur(s) + Len(appQueue[s])
    /\ \A j \in 1 .. Len(appQueue[s]) :
          appQueue[s][j].id = Cur(s) + j /\ appQueue[s][j].type = "data"
    /\ Chain(appQueue[s], Expected(s), txSeq[s])

\* The types of one node's state.
LEMMA NodeTypes ==
    ASSUME TypeOK, NEW n \in Node
    PROVE  /\ lastTx[n] \in Frame /\ lastTx[n].id \in Nat /\ lastTx[n].seq \in SeqNum
           /\ link[n] \in Seq(Frame) /\ Len(link[n]) \in Nat
           /\ \A i \in 1 .. Len(link[n]) : /\ link[n][i] \in Frame
                                          /\ link[n][i].id \in Nat
                                          /\ link[n][i].seq \in SeqNum
           /\ appQueue[n] \in Seq(Frame) /\ Len(appQueue[n]) \in Nat
           /\ accepted[n] \in Seq(Nat) /\ Len(accepted[n]) \in Nat
           /\ offered[n] \in Nat /\ txSeq[n] \in SeqNum /\ currSeq[n] \in SeqNum
           /\ state[n] \in {"idle", "wait"}
<1>1. \A f \in Frame : f.id \in Nat /\ f.seq \in SeqNum
  BY DEF Frame
<1>2. link[n] \in Seq(Frame) /\ lastTx[n] \in Frame
  BY DEF TypeOK
<1>3. \A i \in 1 .. Len(link[n]) : link[n][i] \in Frame
  BY <1>2, ElementOfSeq
<1> QED BY <1>1, <1>2, <1>3 DEF TypeOK

\* The queue of the fragments after cur, extended by a new message.
LEMMA QueueExtended ==
    ASSUME TypeOK, NEW s \in Node, SenderInv(s), NEW k \in 1 .. MaxMtus
    PROVE  LET all == appQueue[s] \o Fragments(s, k) IN
           /\ all \in Seq(Frame) /\ Len(all) = Len(appQueue[s]) + k /\ all # <<>>
           /\ \A j \in 1 .. Len(all) : all[j].id = Cur(s) + j /\ all[j].type = "data"
           /\ Chain(all, Expected(s), Wrap(txSeq[s] + k))
<1> DEFINE q == appQueue[s]
           F == Fragments(s, k)
           all == q \o F
<1>1. /\ q \in Seq(Frame) /\ Len(q) \in Nat /\ Cur(s) \in Nat
      /\ offered[s] \in Nat /\ txSeq[s] \in SeqNum
  BY NodeTypes DEF Cur
<1>2. /\ \A j \in 1 .. Len(q) : q[j].id = Cur(s) + j /\ q[j].type = "data"
      /\ Chain(q, Expected(s), txSeq[s])
      /\ offered[s] = Cur(s) + Len(q)
  BY DEF SenderInv
<1>3. F \in Seq(Frame) /\ Len(F) = k
  BY <1>1, FragmentsTyped
<1>4. \A i \in 1 .. k : F[i] =
        DataFrame(Wrap(txSeq[s] + i - 1), offered[s] + i, FragBit(i, k))
  BY <1>1, FragmentsTyped
<1>5. k \in Nat /\ k >= 1
  BY MtuAssumption
<1>6. Chain(F, txSeq[s], Wrap(txSeq[s] + k))
  BY <1>1, ChainFragments
<1> HIDE DEF F, q
<1>7. \A i \in 1 .. k : F[i].id = offered[s] + i /\ F[i].type = "data"
  <2>1. \A x, i, b : DataFrame(x, i, b).id = i /\ DataFrame(x, i, b).type = "data"
    BY DEF DataFrame
  <2> QED BY <1>4, <2>1
<1>8. /\ all \in Seq(Frame) /\ Len(all) = Len(q) + k
      /\ \A i \in 1 .. Len(q) + k :
            all[i] = IF i <= Len(q) THEN q[i] ELSE F[i - Len(q)]
  BY <1>1, <1>3, ConcatProperties
<1>9. Chain(all, Expected(s), Wrap(txSeq[s] + k))
  BY <1>1, <1>2, <1>3, <1>6, ChainConcat
<1> HIDE DEF all
<1>10. ASSUME NEW j \in 1 .. Len(all)
       PROVE  all[j].id = Cur(s) + j /\ all[j].type = "data"
  <2>1. CASE j <= Len(q)
    BY <1>1, <1>2, <1>5, <1>8, <2>1
  <2>2. CASE ~(j <= Len(q))
    <3>1. all[j] = F[j - Len(q)] /\ j - Len(q) \in 1 .. k
      BY <1>1, <1>5, <1>8, <2>2
    <3> QED BY <1>1, <1>2, <1>5, <1>7, <1>8, <3>1
  <2> QED BY <2>1, <2>2
<1>11. all # <<>>
  BY <1>1, <1>5, <1>8
<1> QED BY <1>8, <1>9, <1>10, <1>11 DEF all, q, F

\* The head of the queue becomes the outstanding fragment.
LEMMA HeadBecomesCur ==
    ASSUME TypeOK, NEW s \in Node,
           NEW q \in Seq(Frame), q # <<>>, NEW t,
           \A j \in 1 .. Len(q) : q[j].id = Cur(s) + j /\ q[j].type = "data",
           Chain(q, Expected(s), t),
           SendHead(s, q), txSeq'[s] = t, offered'[s] = Cur(s) + Len(q)
    PROVE  /\ SenderInv(s)'
           /\ Head(q) \in Frame /\ Head(q).type = "data"
           /\ Head(q).id = Cur(s) + 1 /\ Head(q).seq = Expected(s)
           /\ lastTx'[s] = Head(q) /\ state'[s] = "wait"
<1> DEFINE p == Tail(q)
           h == Head(q)
<1>1. /\ p \in Seq(Frame) /\ Len(p) = Len(q) - 1 /\ h \in Frame /\ h = q[1]
      /\ \A i \in 1 .. Len(p) : p[i] = q[i + 1]
      /\ Len(q) \in Nat /\ Len(q) >= 1 /\ Cur(s) \in Nat
  BY HeadTailProperties, NodeTypes DEF Cur
<1>2. h.seq = Expected(s) /\ Chain(p, Advance(Expected(s)), t)
  BY ChainTail
<1>3. h.type = "data" /\ h.id = Cur(s) + 1
  BY <1>1
<1>4. /\ lastTx'[s] = h /\ state'[s] = "wait" /\ currSeq'[s] = h.seq /\ appQueue'[s] = p
  BY DEF SendHead, TypeOK
<1> HIDE DEF p, h
<1>5. \A j \in 1 .. Len(p) : p[j].id = h.id + j /\ p[j].type = "data"
  <2> SUFFICES ASSUME NEW j \in 1 .. Len(p)
               PROVE  p[j].id = h.id + j /\ p[j].type = "data"
    OBVIOUS
  <2>1. p[j] = q[j + 1] /\ j + 1 \in 1 .. Len(q)
    BY <1>1
  <2> QED BY <1>1, <1>3, <2>1
<1>6. offered'[s] = h.id + Len(p)
  BY <1>1, <1>3
<1>7. h.id > 0 /\ h.id # 0
  BY <1>1, <1>3
<1>8. Chain(appQueue'[s], Advance(lastTx'[s].seq), txSeq'[s])
  BY <1>2, <1>4
<1>9. SenderInv(s)'
  BY <1>3, <1>4, <1>5, <1>6, <1>7, <1>8 DEF SenderInv, Cur, Expected, Chain
<1> QED BY <1>1, <1>2, <1>3, <1>4, <1>9 DEF h

-----------------------------------------------------------------------------
(* One direction of the traffic between two talking nodes: data towards the *)
(* receiver on link d, acknowledgements towards the sender on link a, among  *)
(* the frames of the other direction. *)

\* Fragment x with sequence number c is the last one sent; w says whether the
\* sender waits for its acknowledgement and A what has arrived.  Data is of x or
\* x - 1 and acknowledgements are of the same two, those of x behind the others;
\* an acknowledgement of x is preceded by its arrival, and by all data of x - 1.
Flight(d, a, x, c, w, A) ==
    /\ \A i \in 1 .. Len(d) : d[i].type = "data" =>
          /\ x > 0 /\ d[i].id >= 1
          /\ \/ d[i].id = x /\ d[i].seq = c
             \/ w /\ d[i].id = x - 1 /\ Advance(d[i].seq) = c
          /\ d[i].id = x => \A j \in i .. Len(d) : d[j].type = "data" => d[j].id = x
    /\ \A i \in 1 .. Len(a) : a[i].type = "ack" =>
          /\ x > 0
          /\ \/ a[i].seq = c
             \/ w /\ Advance(a[i].seq) = c
          /\ a[i].seq = c =>
                /\ x \in A
                /\ \A j \in i .. Len(a) : a[j].type = "ack" => a[j].seq = c
                /\ \A j \in 1 .. Len(d) : d[j].type = "data" => d[j].id = x
    /\ \A i \in 1 .. x : i < x \/ ~w => i \in A

\* What a link is without its head.
LEMMA LinkTail ==
    ASSUME NEW q \in Seq(Frame), q # <<>>
    PROVE  /\ Head(q) \in Frame /\ Head(q) = q[1] /\ 1 \in 1 .. Len(q)
           /\ Tail(q) \in Seq(Frame) /\ Len(Tail(q)) = Len(q) - 1 /\ Len(q) \in Nat
           /\ \A i \in 1 .. Len(Tail(q)) : Tail(q)[i] = q[i + 1] /\ i + 1 \in 1 .. Len(q)
<1>1. /\ Head(q) \in Frame /\ Head(q) = q[1] /\ Len(q) \in Nat /\ Len(q) >= 1
      /\ Tail(q) \in Seq(Frame) /\ Len(Tail(q)) = Len(q) - 1
      /\ \A i \in 1 .. Len(Tail(q)) : Tail(q)[i] = q[i + 1]
  BY HeadTailProperties
<1> QED BY <1>1

\* What a link is after a transmission.
LEMMA LinkJoined ==
    ASSUME NEW q \in Seq(Frame), NEW f \in Frame
    PROVE  /\ OnAir(q, f) \in Seq(Frame) /\ Len(q) \in Nat /\ Len(OnAir(q, f)) \in Nat
           /\ \/ OnAir(q, f) = q
              \/ /\ Len(OnAir(q, f)) = Len(q) + 1 /\ OnAir(q, f)[Len(q) + 1] = f
                 /\ \A i \in 1 .. Len(q) : OnAir(q, f)[i] = q[i]
BY AppendProperties DEF OnAir

\* A data frame leaves the link.
LEMMA FlightDataLeaves ==
    ASSUME NEW d \in Seq(Frame), NEW a \in Seq(Frame), NEW x \in Nat, NEW c, NEW w, NEW A,
           Flight(d, a, x, c, w, A), d # <<>>
    PROVE  Flight(Tail(d), a, x, c, w, A)
<1> DEFINE t == Tail(d)
<1>1. /\ Len(t) = Len(d) - 1 /\ Len(d) \in Nat
      /\ \A i \in 1 .. Len(t) : t[i] = d[i + 1] /\ i + 1 \in 1 .. Len(d)
  BY LinkTail
<1> HIDE DEF t
<1>2. ASSUME NEW i \in 1 .. Len(t), t[i].type = "data"
      PROVE  /\ x > 0 /\ t[i].id >= 1
             /\ \/ t[i].id = x /\ t[i].seq = c
                \/ w /\ t[i].id = x - 1 /\ Advance(t[i].seq) = c
             /\ t[i].id = x => \A j \in i .. Len(t) : t[j].type = "data" => t[j].id = x
  <2> DEFINE p == i + 1
  <2>1. p \in 1 .. Len(d) /\ t[i] = d[p]
    BY <1>1
  <2>2. \A j \in i .. Len(t) : j \in 1 .. Len(t) /\ j + 1 \in p .. Len(d)
    BY <1>1
  <2> HIDE DEF p
  <2>3. d[p].id = x => \A j \in p .. Len(d) : d[j].type = "data" => d[j].id = x
    BY <1>2, <2>1 DEF Flight
  <2> QED BY <1>1, <1>2, <2>1, <2>2, <2>3 DEF Flight
<1>3. (\A j \in 1 .. Len(d) : d[j].type = "data" => d[j].id = x)
      => \A i \in 1 .. Len(t) : t[i].type = "data" => t[i].id = x
  BY <1>1
<1> QED BY <1>2, <1>3 DEF Flight, t

\* An acknowledgement leaves the link.
LEMMA FlightAckLeaves ==
    ASSUME NEW d \in Seq(Frame), NEW a \in Seq(Frame), NEW x \in Nat, NEW c, NEW w, NEW A,
           Flight(d, a, x, c, w, A), a # <<>>
    PROVE  Flight(d, Tail(a), x, c, w, A)
<1> DEFINE t == Tail(a)
<1>1. /\ Len(t) = Len(a) - 1 /\ Len(a) \in Nat
      /\ \A i \in 1 .. Len(t) : t[i] = a[i + 1] /\ i + 1 \in 1 .. Len(a)
  BY LinkTail
<1> HIDE DEF t
<1>2. ASSUME NEW i \in 1 .. Len(t), t[i].type = "ack"
      PROVE  /\ x > 0
             /\ \/ t[i].seq = c
                \/ w /\ Advance(t[i].seq) = c
             /\ t[i].seq = c =>
                   /\ x \in A
                   /\ \A j \in i .. Len(t) : t[j].type = "ack" => t[j].seq = c
                   /\ \A j \in 1 .. Len(d) : d[j].type = "data" => d[j].id = x
  <2> DEFINE p == i + 1
  <2>1. p \in 1 .. Len(a) /\ t[i] = a[p]
    BY <1>1
  <2>2. \A j \in i .. Len(t) : j \in 1 .. Len(t) /\ j + 1 \in p .. Len(a)
    BY <1>1
  <2> HIDE DEF p
  <2>3. a[p].seq = c => \A j \in p .. Len(a) : a[j].type = "ack" => a[j].seq = c
    BY <1>2, <2>1 DEF Flight
  <2> QED BY <1>1, <1>2, <2>1, <2>2, <2>3 DEF Flight
<1> QED BY <1>2 DEF Flight, t

\* A frame of the other direction joins one of the links.
LEMMA FlightOther ==
    ASSUME NEW d \in Seq(Frame), NEW a \in Seq(Frame), NEW x \in Nat, NEW c, NEW w, NEW A,
           Flight(d, a, x, c, w, A), NEW f \in Frame
    PROVE  /\ f.type = "ack" => Flight(OnAir(d, f), a, x, c, w, A)
           /\ f.type = "data" => Flight(d, OnAir(a, f), x, c, w, A)
<1>1. ASSUME f.type = "ack" PROVE Flight(OnAir(d, f), a, x, c, w, A)
  <2> DEFINE e == OnAir(d, f)
  <2>1. /\ Len(d) \in Nat /\ Len(e) \in Nat
        /\ \/ e = d
           \/ /\ Len(e) = Len(d) + 1 /\ e[Len(d) + 1] = f
              /\ \A i \in 1 .. Len(d) : e[i] = d[i]
    BY LinkJoined
  <2> HIDE DEF e
  <2>2. \A i \in 1 .. Len(e) : e[i].type = "data" => i \in 1 .. Len(d) /\ e[i] = d[i]
    BY <1>1, <2>1
  <2>3. \A i \in 1 .. Len(e) : \A j \in i .. Len(e) : j \in 1 .. Len(e)
    BY <2>1
  <2>4. \A i \in 1 .. Len(e) : \A j \in i .. Len(e) : j \in 1 .. Len(d) => j \in i .. Len(d)
    BY <2>1
  <2> QED BY <2>2, <2>3, <2>4 DEF Flight, e
<1>2. ASSUME f.type = "data" PROVE Flight(d, OnAir(a, f), x, c, w, A)
  <2> DEFINE e == OnAir(a, f)
  <2>1. /\ Len(a) \in Nat /\ Len(e) \in Nat
        /\ \/ e = a
           \/ /\ Len(e) = Len(a) + 1 /\ e[Len(a) + 1] = f
              /\ \A i \in 1 .. Len(a) : e[i] = a[i]
    BY LinkJoined
  <2> HIDE DEF e
  <2>2. \A i \in 1 .. Len(e) : e[i].type = "ack" => i \in 1 .. Len(a) /\ e[i] = a[i]
    BY <1>2, <2>1
  <2>3. \A i \in 1 .. Len(e) : \A j \in i .. Len(e) : j \in 1 .. Len(e)
    BY <2>1
  <2>4. \A i \in 1 .. Len(e) : \A j \in i .. Len(e) : j \in 1 .. Len(a) => j \in i .. Len(a)
    BY <2>1
  <2> QED BY <2>2, <2>3, <2>4 DEF Flight, e
<1> QED BY <1>1, <1>2

\* The outstanding fragment goes out again.
LEMMA FlightRetransmission ==
    ASSUME NEW d \in Seq(Frame), NEW a \in Seq(Frame), NEW x \in Nat, NEW c, NEW w, NEW A,
           Flight(d, a, x, c, w, A), x > 0,
           NEW f \in Frame, f.type = "data", f.id = x, f.seq = c
    PROVE  Flight(OnAir(d, f), a, x, c, w, A)
<1> DEFINE e == OnAir(d, f)
<1>1. /\ Len(d) \in Nat /\ Len(e) \in Nat
      /\ \/ e = d
         \/ /\ Len(e) = Len(d) + 1 /\ e[Len(d) + 1] = f
            /\ \A i \in 1 .. Len(d) : e[i] = d[i]
  BY LinkJoined
<1> HIDE DEF e
<1>2. \A i \in 1 .. Len(e) : (i \in 1 .. Len(d) /\ e[i] = d[i]) \/ e[i] = f
  BY <1>1
<1>3. \A i \in 1 .. Len(e) : \A j \in i .. Len(e) : j \in 1 .. Len(e)
  BY <1>1
<1>4. \A i \in 1 .. Len(e) : \A j \in i .. Len(e) : j \in 1 .. Len(d) => j \in i .. Len(d)
  BY <1>1
<1>5. \A i \in 1 .. Len(e) : e[i] = f => \A j \in i .. Len(e) : e[j].type = "data" => e[j].id = x
  <2> SUFFICES ASSUME NEW i \in 1 .. Len(e), e[i] = f,
                      NEW j \in i .. Len(e), e[j].type = "data"
               PROVE  e[j].id = x
    OBVIOUS
  <2>1. CASE i = Len(d) + 1
    BY <1>1, <2>1
  <2>2. CASE i \in 1 .. Len(d) /\ d[i] = f
    <3>1. j \in 1 .. Len(e)
      BY <1>3
    <3>2. CASE e[j] = f
      BY <3>2
    <3>3. CASE j \in 1 .. Len(d) /\ e[j] = d[j]
      BY <1>4, <2>2, <3>3 DEF Flight
    <3> QED BY <1>2, <3>1, <3>2, <3>3
  <2> QED BY <1>1, <2>1, <2>2
<1>6. 0 < x /\ 1 <= x
  OBVIOUS
<1>7. ASSUME NEW i \in 1 .. Len(e), e[i].type = "data"
      PROVE  /\ x > 0 /\ e[i].id >= 1
             /\ \/ e[i].id = x /\ e[i].seq = c
                \/ w /\ e[i].id = x - 1 /\ Advance(e[i].seq) = c
             /\ e[i].id = x => \A j \in i .. Len(e) : e[j].type = "data" => e[j].id = x
  <2>1. CASE e[i] = f
    BY <1>5, <1>6, <2>1
  <2>2. CASE i \in 1 .. Len(d) /\ e[i] = d[i]
    <3>1. ASSUME e[i].id = x, NEW j \in i .. Len(e), e[j].type = "data" PROVE e[j].id = x
      <4>1. CASE e[j] = f
        BY <4>1
      <4>2. CASE j \in 1 .. Len(d) /\ e[j] = d[j]
        <5>1. \A k \in i .. Len(d) : d[k].type = "data" => d[k].id = x
          BY <1>7, <2>2, <3>1 DEF Flight
        <5>2. j \in i .. Len(d)
          BY <1>4, <4>2
        <5> QED BY <3>1, <4>2, <5>1, <5>2
      <4> QED BY <1>2, <1>3, <4>1, <4>2
    <3> QED BY <1>7, <2>2, <3>1 DEF Flight
  <2> QED BY <1>2, <2>1, <2>2
<1>8. (\A j \in 1 .. Len(d) : d[j].type = "data" => d[j].id = x)
      => \A j \in 1 .. Len(e) : e[j].type = "data" => e[j].id = x
  BY <1>2
<1> QED BY <1>7, <1>8 DEF Flight, e

\* A data frame arrives and is acknowledged.
LEMMA FlightArrival ==
    ASSUME NEW d \in Seq(Frame), NEW a \in Seq(Frame), NEW x \in Nat, NEW c, NEW w, NEW A,
           Flight(d, a, x, c, w, A), d # <<>>, Head(d).type = "data"
    PROVE  Flight(Tail(d), OnAir(a, AckFrame(Head(d).seq)), x, c, w, A \union {Head(d).id})
<1> DEFINE f == Head(d)
           t == Tail(d)
           g == AckFrame(f.seq)
           e == OnAir(a, g)
           B == A \union {f.id}
<1>1. /\ f \in Frame /\ f = d[1] /\ 1 \in 1 .. Len(d) /\ Len(d) \in Nat
      /\ Len(t) = Len(d) - 1 /\ t \in Seq(Frame)
      /\ \A i \in 1 .. Len(t) : t[i] = d[i + 1] /\ i + 1 \in 1 .. Len(d)
  BY LinkTail
<1>2. f.seq \in SeqNum /\ f.id \in Nat
  BY <1>1 DEF Frame
<1>3. g \in Frame /\ g.type = "ack" /\ g.seq = f.seq
  BY <1>2, FrameTypes DEF AckFrame
<1>4. Flight(t, a, x, c, w, A)
  BY FlightDataLeaves
<1> HIDE DEF f, g, t
<1>5. /\ Len(a) \in Nat /\ Len(e) \in Nat
      /\ \/ e = a
         \/ /\ Len(e) = Len(a) + 1 /\ e[Len(a) + 1] = g
            /\ \A i \in 1 .. Len(a) : e[i] = a[i]
  BY <1>3, LinkJoined
<1>6. /\ x > 0
      /\ \/ f.id = x /\ f.seq = c
         \/ w /\ f.id = x - 1 /\ Advance(f.seq) = c
      /\ f.id = x => \A j \in 1 .. Len(t) : t[j].type = "data" => t[j].id = x
  <2>1. d[1].type = "data" /\ 1 \in 1 .. Len(d)
    BY <1>1 DEF f
  <2>2. ASSUME f.id = x, NEW j \in 1 .. Len(t), t[j].type = "data" PROVE t[j].id = x
    <3>1. j + 1 \in 1 .. Len(d) /\ t[j] = d[j + 1]
      BY <1>1
    <3> QED BY <1>1, <2>1, <2>2, <3>1 DEF Flight
  <2> QED BY <1>1, <2>1, <2>2 DEF Flight
<1>7. f.seq = c => f.id = x
  BY <1>2, <1>6, AdvanceProperties
<1> HIDE DEF e
<1>8. ASSUME NEW i \in 1 .. Len(e), e[i].type = "ack"
      PROVE  /\ x > 0
             /\ \/ e[i].seq = c
                \/ w /\ Advance(e[i].seq) = c
             /\ e[i].seq = c =>
                   /\ x \in B
                   /\ \A j \in i .. Len(e) : e[j].type = "ack" => e[j].seq = c
                   /\ \A j \in 1 .. Len(t) : t[j].type = "data" => t[j].id = x
  <2>1. CASE i \in 1 .. Len(a) /\ e[i] = a[i]
    <3>1. /\ x > 0
          /\ \/ a[i].seq = c
             \/ w /\ Advance(a[i].seq) = c
          /\ a[i].seq = c =>
                /\ x \in A
                /\ \A j \in i .. Len(a) : a[j].type = "ack" => a[j].seq = c
                /\ \A j \in 1 .. Len(d) : d[j].type = "data" => d[j].id = x
                /\ \A j \in 1 .. Len(t) : t[j].type = "data" => t[j].id = x
      BY <1>4, <1>8, <2>1 DEF Flight
    <3>2. ASSUME e[i].seq = c, NEW j \in i .. Len(e), e[j].type = "ack" PROVE e[j].seq = c
      <4>1. CASE j \in i .. Len(a) /\ e[j] = a[j]
        BY <2>1, <3>1, <3>2, <4>1
      <4>2. CASE e[j] = g
        <5>1. f.id = x
          BY <1>1, <2>1, <3>1, <3>2 DEF f
        <5>2. x \in Nat /\ x # x - 1
          OBVIOUS
        <5> QED BY <1>3, <1>6, <4>2, <5>1, <5>2
      <4> QED BY <1>5, <4>1, <4>2
    <3> QED BY <2>1, <3>1, <3>2
  <2>2. CASE e[i] = g /\ i = Len(e)
    <3>1. \A j \in i .. Len(e) : j = i
      BY <1>5, <2>2
    <3> QED BY <1>3, <1>6, <1>7, <2>2, <3>1
  <2>3. (i \in 1 .. Len(a) /\ e[i] = a[i]) \/ (e[i] = g /\ i = Len(e))
    BY <1>5
  <2> QED BY <2>1, <2>2, <2>3
<1>9. \A i \in 1 .. x : i < x \/ ~w => i \in B
  BY DEF Flight
<1>10. Flight(t, e, x, c, w, B)
  BY <1>4, <1>8, <1>9 DEF Flight
<1> QED BY <1>10 DEF f, t, e, g

\* The acknowledgement of the outstanding fragment arrives: all that is still on
\* the air is of this fragment.
LEMMA FlightAcknowledged ==
    ASSUME NEW d \in Seq(Frame), NEW a \in Seq(Frame), NEW x \in Nat, NEW c \in SeqNum,
           NEW w, NEW A, Flight(d, a, x, c, w, A),
           a # <<>>, Head(a).type = "ack", Head(a).seq = c
    PROVE  Flight(d, Tail(a), x, c, FALSE, A)
<1> DEFINE t == Tail(a)
<1>1. /\ Head(a) = a[1] /\ 1 \in 1 .. Len(a) /\ Len(a) \in Nat
      /\ Len(t) = Len(a) - 1
      /\ \A i \in 1 .. Len(t) : t[i] = a[i + 1] /\ i + 1 \in 1 .. Len(a)
  BY LinkTail
<1>2. Flight(d, t, x, c, w, A)
  BY FlightAckLeaves
<1> HIDE DEF t
<1>3. /\ x \in A
      /\ \A j \in 1 .. Len(a) : a[j].type = "ack" => a[j].seq = c
      /\ \A j \in 1 .. Len(d) : d[j].type = "data" => d[j].id = x
  BY <1>1 DEF Flight
<1>4. \A i \in 1 .. Len(t) : t[i].type = "ack" => t[i].seq = c
  BY <1>1, <1>3
<1>5. \A i \in 1 .. Len(d) : d[i].type = "data" => d[i].seq = c
  <2> SUFFICES ASSUME NEW i \in 1 .. Len(d), d[i].type = "data" PROVE d[i].seq = c
    OBVIOUS
  <2>1. d[i].id = x /\ x # x - 1
    BY <1>3
  <2> QED BY <2>1 DEF Flight
<1>6. \A i \in 1 .. x : i \in A
  <2> SUFFICES ASSUME NEW i \in 1 .. x PROVE i \in A
    OBVIOUS
  <2>1. i < x \/ i = x
    OBVIOUS
  <2> QED BY <1>3, <2>1 DEF Flight
<1>7. Flight(d, t, x, c, FALSE, A)
  BY <1>2, <1>3, <1>4, <1>5, <1>6 DEF Flight
<1> QED BY <1>7 DEF t

\* The next fragment goes out when all that is on the air is of its predecessor.
LEMMA FlightNext ==
    ASSUME NEW d \in Seq(Frame), NEW a \in Seq(Frame), NEW x \in Nat, NEW c \in SeqNum, NEW A,
           Flight(d, a, x, c, FALSE, A),
           NEW f \in Frame, f.type = "data", f.id = x + 1,
           x > 0 => f.seq = Advance(c)
    PROVE  Flight(OnAir(d, f), a, x + 1, f.seq, TRUE, A)
<1> DEFINE e == OnAir(d, f)
           y == x + 1
           v == f.seq
<1>1. /\ Len(d) \in Nat /\ Len(e) \in Nat
      /\ \/ e = d
         \/ /\ Len(e) = Len(d) + 1 /\ e[Len(d) + 1] = f
            /\ \A i \in 1 .. Len(d) : e[i] = d[i]
  BY LinkJoined
<1>2. x > 0 => v = Advance(c) /\ v # c
  BY AdvanceProperties
<1>3. y > 0 /\ y # x /\ y - 1 = x /\ y \in Nat /\ f.id = y /\ y >= 1
  OBVIOUS
<1> HIDE DEF e, y, v
<1>4. \A i \in 1 .. Len(d) : d[i].type = "data" =>
         x > 0 /\ d[i].id >= 1 /\ d[i].id = x /\ d[i].seq = c
  BY DEF Flight
<1>5. \A i \in 1 .. Len(e) : (i \in 1 .. Len(d) /\ e[i] = d[i]) \/ (e[i] = f /\ i = Len(e))
  BY <1>1
<1>6. ASSUME NEW i \in 1 .. Len(e), e[i].type = "data"
      PROVE  /\ y > 0 /\ e[i].id >= 1
             /\ \/ e[i].id = y /\ e[i].seq = v
                \/ TRUE /\ e[i].id = y - 1 /\ Advance(e[i].seq) = v
             /\ e[i].id = y => \A j \in i .. Len(e) : e[j].type = "data" => e[j].id = y
  <2>1. CASE i \in 1 .. Len(d) /\ e[i] = d[i]
    BY <1>2, <1>3, <1>4, <1>6, <2>1
  <2>2. CASE e[i] = f /\ i = Len(e)
    <3>1. \A j \in i .. Len(e) : j = i
      BY <1>1, <2>2
    <3> QED BY <1>3, <2>2, <3>1 DEF v
  <2> QED BY <1>5, <2>1, <2>2
<1>7. ASSUME NEW i \in 1 .. Len(a), a[i].type = "ack"
      PROVE  y > 0 /\ a[i].seq # v /\ Advance(a[i].seq) = v
  <2>1. x > 0 /\ a[i].seq = c
    BY <1>7 DEF Flight
  <2> QED BY <1>2, <1>3, <2>1
<1>8. \A i \in 1 .. y : i < y \/ ~TRUE => i \in A
  <2> SUFFICES ASSUME NEW i \in 1 .. y, i < y PROVE i \in A
    OBVIOUS
  <2>1. i \in 1 .. x
    BY <1>3 DEF y
  <2> QED BY <2>1 DEF Flight
<1>9. Flight(e, a, y, v, TRUE, A)
  BY <1>6, <1>7, <1>8 DEF Flight
<1> QED BY <1>9 DEF e, y, v

-----------------------------------------------------------------------------
(* Both nodes talk and the frames of the two directions share the links: an *)
(* acknowledged fragment has arrived.                                        *)

\* What s has sent, and what comes back to it.
FlightInv(s) ==
    Flight(link[Peer(s)], link[s], Cur(s), lastTx[s].seq, state[s] = "wait",
           arrived[Peer(s)])

\* The inductive invariant of the block with acknowledgements.
TalkInv == \A n \in Node : SenderInv(n) /\ FlightInv(n)

TwoWayInv == TypeOK /\ (useAck => TalkInv)

\* The two nodes are the peers of each other.
LEMMA TwoNodes ==
    ASSUME NEW n \in Node
    PROVE  /\ Peer(n) \in Node /\ Peer(n) # n /\ Peer(Peer(n)) = n
           /\ \A m \in Node : m = n \/ m = Peer(n)
BY PeerIsNode, NodeAssumption

\* A node that sends nothing new remains as it is.
LEMMA SenderKept ==
    ASSUME NEW s \in Node, SenderInv(s),
           state'[s] = state[s], appQueue'[s] = appQueue[s], lastTx'[s] = lastTx[s],
           currSeq'[s] = currSeq[s], txSeq'[s] = txSeq[s], offered'[s] = offered[s]
    PROVE  SenderInv(s)'
BY DEF SenderInv, Cur, Expected

\* What the two directions say of the links, of n and of its peer r.
LEMMA Directions ==
    ASSUME TypeOK, TalkInv, NEW n \in Node, NEW r, r = Peer(n)
    PROVE  /\ n \in Node /\ r \in Node /\ r # n /\ Peer(r) = n
           /\ link[n] \in Seq(Frame) /\ link[r] \in Seq(Frame)
           /\ Cur(n) \in Nat /\ Cur(r) \in Nat
           /\ lastTx[n].seq \in SeqNum /\ lastTx[r].seq \in SeqNum
           /\ lastTx[n] \in Frame /\ lastTx[r] \in Frame
           /\ SenderInv(n) /\ SenderInv(r)
           /\ Flight(link[r], link[n], Cur(n), lastTx[n].seq, state[n] = "wait", arrived[r])
           /\ Flight(link[n], link[r], Cur(r), lastTx[r].seq, state[r] = "wait", arrived[n])
<1>1. n \in Node /\ r \in Node /\ r # n /\ Peer(r) = n
  BY TwoNodes
<1>2. /\ link[n] \in Seq(Frame) /\ link[r] \in Seq(Frame)
      /\ Cur(n) \in Nat /\ Cur(r) \in Nat
      /\ lastTx[n].seq \in SeqNum /\ lastTx[r].seq \in SeqNum
      /\ lastTx[n] \in Frame /\ lastTx[r] \in Frame
  BY <1>1, NodeTypes DEF Cur
<1> QED BY <1>1, <1>2 DEF TalkInv, FlightInv

\* The two directions after a step.
LEMMA DirectionsTogether ==
    ASSUME NEW n \in Node, NEW r, r = Peer(n), SenderInv(n)', SenderInv(r)',
           Flight(link'[r], link'[n], lastTx'[n].id, lastTx'[n].seq,
                  state'[n] = "wait", arrived'[r]),
           Flight(link'[n], link'[r], lastTx'[r].id, lastTx'[r].seq,
                  state'[r] = "wait", arrived'[n])
    PROVE  TalkInv'
<1>1. Peer(n) = r /\ Peer(r) = n /\ \A m \in Node : m = n \/ m = r
  BY TwoNodes
<1>2. FlightInv(n)' /\ FlightInv(r)'
  BY <1>1 DEF FlightInv, Cur
<1> QED BY <1>1, <1>2 DEF TalkInv

\* The invariant holds initially.
LEMMA TwoWayInit ==
    ASSUME Init
    PROVE  TwoWayInv
<1>1. TypeOK
  BY FrameTypes, SeqAssumption DEF Init, TypeOK, SeqNum
<1>2. \A n \in Node : /\ state[n] = "idle" /\ appQueue[n] = <<>> /\ lastTx[n].id = 0
                      /\ link[n] = <<>> /\ offered[n] = 0 /\ txSeq[n] = 0
  BY DEF Init, NoFrame, AckFrame
<1>3. ASSUME NEW n \in Node PROVE SenderInv(n) /\ FlightInv(n)
  <2>1. SenderInv(n)
    BY <1>2 DEF SenderInv, Chain, Expected, Cur
  <2>2. link[Peer(n)] = <<>> /\ link[n] = <<>> /\ Cur(n) = 0
    BY <1>2, TwoNodes DEF Cur
  <2>3. FlightInv(n)
    BY <2>2 DEF FlightInv, Flight
  <2> QED BY <2>1, <2>3
<1> QED BY <1>1, <1>3 DEF TwoWayInv, TalkInv

\* A message of an idle node: its first fragment goes out.
LEMMA TwoWayIdle ==
    ASSUME TypeOK, TalkInv, NEW n \in Node, NEW k \in 1 .. MaxMtus, AppMessageIdle(n, k)
    PROVE  TalkInv'
<1>1. PICK r : r = Peer(n)
  OBVIOUS
<1>2. /\ n \in Node /\ r \in Node /\ r # n /\ Peer(r) = n
      /\ link[n] \in Seq(Frame) /\ link[r] \in Seq(Frame)
      /\ Cur(n) \in Nat /\ Cur(r) \in Nat
      /\ lastTx[n].seq \in SeqNum /\ lastTx[r].seq \in SeqNum
      /\ SenderInv(n) /\ SenderInv(r)
      /\ Flight(link[r], link[n], Cur(n), lastTx[n].seq, state[n] = "wait", arrived[r])
      /\ Flight(link[n], link[r], Cur(r), lastTx[r].seq, state[r] = "wait", arrived[n])
  BY <1>1, Directions
<1> DEFINE all == appQueue[n] \o Fragments(n, k)
           t == Wrap(txSeq[n] + k)
<1>3. /\ all \in Seq(Frame) /\ Len(all) = Len(appQueue[n]) + k /\ all # <<>>
      /\ \A j \in 1 .. Len(all) : all[j].id = Cur(n) + j /\ all[j].type = "data"
      /\ Chain(all, Expected(n), t)
  BY <1>2, QueueExtended
<1>4. /\ state[n] = "idle" /\ Submit(n, k) /\ SendHead(n, all)
      /\ link' = [link EXCEPT ![r] = OnAir(@, Head(all))]
  BY <1>1 DEF AppMessageIdle, Transmit
<1>5. /\ txSeq'[n] = t /\ offered'[n] = offered[n] + k
      /\ txSeq'[r] = txSeq[r] /\ offered'[r] = offered[r] /\ arrived' = arrived
  BY <1>2, <1>4 DEF Submit, TypeOK
<1> HIDE DEF all, t
<1>6. Len(appQueue[n]) \in Nat /\ k \in Nat /\ offered[n] = Cur(n) + Len(appQueue[n])
  BY <1>2, NodeTypes, MtuAssumption DEF SenderInv
<1>7. offered'[n] = Cur(n) + Len(all)
  BY <1>2, <1>3, <1>5, <1>6
<1>8. /\ SenderInv(n)'
      /\ Head(all) \in Frame /\ Head(all).type = "data"
      /\ Head(all).id = Cur(n) + 1 /\ Head(all).seq = Expected(n)
      /\ lastTx'[n] = Head(all) /\ state'[n] = "wait"
  BY <1>3, <1>4, <1>5, <1>7, HeadBecomesCur
<1>9. /\ link'[r] = OnAir(link[r], Head(all)) /\ link'[n] = link[n]
      /\ state'[r] = state[r] /\ appQueue'[r] = appQueue[r] /\ lastTx'[r] = lastTx[r]
      /\ currSeq'[r] = currSeq[r]
  BY <1>2, <1>4 DEF TypeOK, SendHead
<1>10. SenderInv(r)'
  BY <1>2, <1>5, <1>9, SenderKept
<1>11. Flight(link'[r], link'[n], lastTx'[n].id, lastTx'[n].seq, state'[n] = "wait", arrived'[r])
  <2>1. Flight(link[r], link[n], Cur(n), lastTx[n].seq, FALSE, arrived[r])
    BY <1>2, <1>4
  <2>2. Cur(n) > 0 => Head(all).seq = Advance(lastTx[n].seq)
    BY <1>2, <1>8 DEF Expected
  <2>3. Flight(OnAir(link[r], Head(all)), link[n], Cur(n) + 1, Head(all).seq, TRUE, arrived[r])
    BY <1>2, <1>8, <2>1, <2>2, FlightNext
  <2> QED BY <1>5, <1>8, <1>9, <2>3
<1>12. Flight(link'[n], link'[r], lastTx'[r].id, lastTx'[r].seq, state'[r] = "wait", arrived'[n])
  <2>1. Flight(link[n], OnAir(link[r], Head(all)), Cur(r), lastTx[r].seq, state[r] = "wait",
               arrived[n])
    BY <1>2, <1>8, FlightOther
  <2> QED BY <1>5, <1>9, <2>1 DEF Cur
<1> QED BY <1>1, <1>8, <1>10, <1>11, <1>12, DirectionsTogether

\* The outstanding fragment goes out again, or nothing does.
LEMMA TwoWayRetransmission ==
    ASSUME TypeOK, TalkInv, NEW n \in Node, NEW r, r = Peer(n), state[n] = "wait",
           link'[n] = link[n],
           link'[r] = link[r] \/ link'[r] = OnAir(link[r], lastTx[n]),
           UNCHANGED <<state, lastTx, arrived>>, SenderInv(n)', SenderInv(r)'
    PROVE  TalkInv'
<1>1. /\ n \in Node /\ r \in Node
      /\ link[n] \in Seq(Frame) /\ link[r] \in Seq(Frame)
      /\ Cur(n) \in Nat /\ Cur(r) \in Nat
      /\ lastTx[n] \in Frame
      /\ SenderInv(n)
      /\ Flight(link[r], link[n], Cur(n), lastTx[n].seq, state[n] = "wait", arrived[r])
      /\ Flight(link[n], link[r], Cur(r), lastTx[r].seq, state[r] = "wait", arrived[n])
  BY Directions
<1>2. Cur(n) > 0 /\ lastTx[n].type = "data" /\ lastTx[n].id = Cur(n)
  <2>1. SenderInv(n) /\ Cur(n) \in Nat
    BY <1>1
  <2>2. Cur(n) # 0
    BY <2>1 DEF SenderInv
  <2>3. Cur(n) > 0
    BY <2>1, <2>2
  <2> QED BY <2>1, <2>3 DEF SenderInv, Cur
<1>3. Flight(OnAir(link[r], lastTx[n]), link[n], Cur(n), lastTx[n].seq, state[n] = "wait",
             arrived[r])
  BY <1>1, <1>2, FlightRetransmission
<1>4. Flight(link[n], OnAir(link[r], lastTx[n]), Cur(r), lastTx[r].seq, state[r] = "wait",
             arrived[n])
  BY <1>1, <1>2, FlightOther
<1>5. Flight(link'[r], link'[n], lastTx'[n].id, lastTx'[n].seq, state'[n] = "wait", arrived'[r])
  BY <1>1, <1>3 DEF Cur
<1>6. Flight(link'[n], link'[r], lastTx'[r].id, lastTx'[r].seq, state'[r] = "wait", arrived'[n])
  BY <1>1, <1>4 DEF Cur
<1> QED BY <1>5, <1>6, DirectionsTogether

\* A message of a waiting node is queued.
LEMMA TwoWayWaiting ==
    ASSUME TypeOK, TalkInv, NEW n \in Node, NEW k \in 1 .. MaxMtus, AppMessageWaiting(n, k)
    PROVE  TalkInv'
<1>1. PICK r : r = Peer(n)
  OBVIOUS
<1>2. /\ n \in Node /\ r \in Node /\ r # n
      /\ Cur(n) \in Nat /\ SenderInv(n) /\ SenderInv(r)
  BY <1>1, Directions
<1> DEFINE all == appQueue[n] \o Fragments(n, k)
<1>3. /\ all \in Seq(Frame) /\ Len(all) = Len(appQueue[n]) + k
      /\ \A j \in 1 .. Len(all) : all[j].id = Cur(n) + j /\ all[j].type = "data"
      /\ Chain(all, Expected(n), Wrap(txSeq[n] + k))
  BY <1>2, QueueExtended
<1>4. /\ state[n] = "wait" /\ Submit(n, k)
      /\ appQueue' = [appQueue EXCEPT ![n] = all]
      /\ \/ link' = [link EXCEPT ![r] = OnAir(@, lastTx[n])]
         \/ link' = link
      /\ UNCHANGED <<state, lastTx, currSeq>>
  BY <1>1 DEF AppMessageWaiting, Transmit
<1>5. /\ txSeq'[n] = Wrap(txSeq[n] + k) /\ offered'[n] = offered[n] + k
      /\ txSeq'[r] = txSeq[r] /\ offered'[r] = offered[r] /\ arrived' = arrived
  BY <1>2, <1>4 DEF Submit, TypeOK
<1> HIDE DEF all
<1>6. Len(appQueue[n]) \in Nat /\ k \in Nat /\ offered[n] = Cur(n) + Len(appQueue[n])
  BY <1>2, NodeTypes, MtuAssumption DEF SenderInv
<1>7. offered'[n] = Cur(n) + Len(all)
  BY <1>2, <1>3, <1>5, <1>6
<1>8. appQueue'[n] = all /\ appQueue'[r] = appQueue[r]
  BY <1>2, <1>4 DEF TypeOK
<1>9. SenderInv(n)'
  BY <1>2, <1>3, <1>4, <1>5, <1>7, <1>8 DEF SenderInv, Cur, Expected
<1>10. SenderInv(r)'
  BY <1>2, <1>4, <1>5, <1>8, SenderKept
<1>11. link'[n] = link[n] /\ (link'[r] = link[r] \/ link'[r] = OnAir(link[r], lastTx[n]))
  BY <1>2, <1>4 DEF TypeOK
<1> QED BY <1>1, <1>4, <1>5, <1>9, <1>10, <1>11, TwoWayRetransmission

\* A message beyond the bound looks at the timeout.
LEMMA TwoWayBeyond ==
    ASSUME TypeOK, TalkInv, NEW n \in Node, AppBeyondBound(n)
    PROVE  TalkInv'
<1>1. PICK r : r = Peer(n)
  OBVIOUS
<1>2. n \in Node /\ r \in Node /\ r # n /\ SenderInv(n) /\ SenderInv(r)
  BY <1>1, Directions
<1>3. /\ state[n] = "wait"
      /\ link' = [link EXCEPT ![r] = OnAir(@, lastTx[n])]
      /\ UNCHANGED <<state, appQueue, lastTx, currSeq, txSeq, offered, arrived>>
  BY <1>1 DEF AppBeyondBound, Transmit, blockVars
<1>4. link'[n] = link[n] /\ link'[r] = OnAir(link[r], lastTx[n])
  BY <1>2, <1>3 DEF TypeOK
<1>5. SenderInv(n)' /\ SenderInv(r)'
  BY <1>2, <1>3, SenderKept
<1> QED BY <1>1, <1>3, <1>4, <1>5, TwoWayRetransmission

\* Data arrives and is acknowledged.
LEMMA TwoWayData ==
    ASSUME TypeOK, TalkInv, useAck, NEW n \in Node, PhyData(n)
    PROVE  TalkInv'
<1>1. PICK r : r = Peer(n)
  OBVIOUS
<1>2. /\ n \in Node /\ r \in Node /\ r # n
      /\ link[n] \in Seq(Frame) /\ link[r] \in Seq(Frame)
      /\ Cur(n) \in Nat /\ Cur(r) \in Nat
      /\ SenderInv(n) /\ SenderInv(r)
      /\ Flight(link[r], link[n], Cur(n), lastTx[n].seq, state[n] = "wait", arrived[r])
      /\ Flight(link[n], link[r], Cur(r), lastTx[r].seq, state[r] = "wait", arrived[n])
  BY <1>1, Directions
<1> DEFINE f == Head(link[n])
           g == AckFrame(f.seq)
<1>3. /\ link[n] # <<>> /\ f.type = "data"
      /\ arrived' = [arrived EXCEPT ![n] = @ \union {f.id}]
      /\ link' = [link EXCEPT ![n] = Tail(@), ![r] = OnAir(@, g)]
      /\ UNCHANGED <<state, appQueue, lastTx, currSeq, txSeq, offered>>
  BY <1>1 DEF PhyData
<1>4. g \in Frame /\ g.type = "ack" /\ Tail(link[n]) \in Seq(Frame)
  <2>1. f \in Frame /\ Tail(link[n]) \in Seq(Frame)
    BY <1>2, <1>3, HeadTailProperties
  <2> QED BY <2>1, FrameTypes DEF Frame, AckFrame
<1>5. /\ link'[n] = Tail(link[n]) /\ link'[r] = OnAir(link[r], g)
      /\ arrived'[n] = arrived[n] \union {f.id} /\ arrived'[r] = arrived[r]
  BY <1>2, <1>3 DEF TypeOK
<1>6. Flight(link'[n], link'[r], lastTx'[r].id, lastTx'[r].seq, state'[r] = "wait", arrived'[n])
  <2>1. Flight(Tail(link[n]), OnAir(link[r], g), Cur(r), lastTx[r].seq, state[r] = "wait",
               arrived[n] \union {f.id})
    BY <1>2, <1>3, FlightArrival
  <2> QED BY <1>3, <1>5, <2>1 DEF Cur
<1>7. Flight(link'[r], link'[n], lastTx'[n].id, lastTx'[n].seq, state'[n] = "wait", arrived'[r])
  <2>1. Flight(link[r], Tail(link[n]), Cur(n), lastTx[n].seq, state[n] = "wait", arrived[r])
    BY <1>2, <1>3, FlightAckLeaves
  <2>2. Flight(OnAir(link[r], g), Tail(link[n]), Cur(n), lastTx[n].seq, state[n] = "wait",
               arrived[r])
    BY <1>2, <1>4, <2>1, FlightOther
  <2> QED BY <1>3, <1>5, <2>2 DEF Cur
<1>8. SenderInv(n)' /\ SenderInv(r)'
  BY <1>2, <1>3, SenderKept
<1> QED BY <1>1, <1>6, <1>7, <1>8, DirectionsTogether

\* An acknowledgement arrives: an old one, or that of the outstanding fragment.
LEMMA TwoWayAck ==
    ASSUME TypeOK, TalkInv, NEW n \in Node, PhyAck(n)
    PROVE  TalkInv'
<1>1. PICK r : r = Peer(n)
  OBVIOUS
<1>2. /\ n \in Node /\ r \in Node /\ r # n
      /\ link[n] \in Seq(Frame) /\ link[r] \in Seq(Frame)
      /\ Cur(n) \in Nat /\ Cur(r) \in Nat
      /\ lastTx[n].seq \in SeqNum
      /\ SenderInv(n) /\ SenderInv(r)
      /\ Flight(link[r], link[n], Cur(n), lastTx[n].seq, state[n] = "wait", arrived[r])
      /\ Flight(link[n], link[r], Cur(r), lastTx[r].seq, state[r] = "wait", arrived[n])
  BY <1>1, Directions
<1> DEFINE f == Head(link[n])
           rest == [link EXCEPT ![n] = Tail(@)]
<1>3. /\ link[n] # <<>> /\ f.type = "ack"
      /\ UNCHANGED <<txSeq, offered, arrived>>
      /\ IF f.seq = currSeq[n] /\ appQueue[n] # <<>>
         THEN /\ SendHead(n, appQueue[n])
              /\ link' = [rest EXCEPT ![r] = OnAir(@, Head(appQueue[n]))]
         ELSE /\ state' = [state EXCEPT ![n] =
                              IF f.seq = currSeq[n] THEN "idle" ELSE @]
              /\ link' = rest
              /\ UNCHANGED <<appQueue, lastTx, currSeq>>
  BY <1>1 DEF PhyAck, AckMatches, MoreToSend
<1>4. Cur(n) > 0 /\ currSeq[n] = lastTx[n].seq /\ lastTx[n].type = "data"
  <2>1. f = link[n][1] /\ 1 \in 1 .. Len(link[n])
    BY <1>2, <1>3, LinkTail
  <2>2. Cur(n) > 0
    BY <1>2, <1>3, <2>1 DEF Flight
  <2> QED BY <1>2, <2>2 DEF SenderInv
<1>5. /\ rest[n] = Tail(link[n]) /\ rest[r] = link[r] /\ rest \in [Node -> Seq(Frame)]
      /\ Tail(link[n]) \in Seq(Frame)
  BY <1>2, <1>3, HeadTailProperties DEF TypeOK
<1> HIDE DEF rest
<1>6. /\ Flight(link[r], Tail(link[n]), Cur(n), lastTx[n].seq, state[n] = "wait", arrived[r])
      /\ Flight(Tail(link[n]), link[r], Cur(r), lastTx[r].seq, state[r] = "wait", arrived[n])
  BY <1>2, <1>3, FlightAckLeaves, FlightDataLeaves
<1>7. f.seq = currSeq[n] =>
        Flight(link[r], Tail(link[n]), Cur(n), lastTx[n].seq, FALSE, arrived[r])
  BY <1>2, <1>3, <1>4, FlightAcknowledged
<1>8. CASE f.seq = currSeq[n] /\ appQueue[n] # <<>>
  <2> DEFINE h == Head(appQueue[n])
  <2>1. SendHead(n, appQueue[n]) /\ link' = [rest EXCEPT ![r] = OnAir(@, h)]
    BY <1>3, <1>8
  <2>2. /\ appQueue[n] \in Seq(Frame) /\ Len(appQueue[n]) \in Nat
        /\ \A j \in 1 .. Len(appQueue[n]) :
              appQueue[n][j].id = Cur(n) + j /\ appQueue[n][j].type = "data"
        /\ Chain(appQueue[n], Expected(n), txSeq[n])
        /\ txSeq'[n] = txSeq[n] /\ offered'[n] = Cur(n) + Len(appQueue[n])
    BY <1>2, <1>3, NodeTypes DEF SenderInv
  <2>3. /\ SenderInv(n)'
        /\ h \in Frame /\ h.type = "data" /\ h.id = Cur(n) + 1 /\ h.seq = Expected(n)
        /\ lastTx'[n] = h /\ state'[n] = "wait"
    BY <1>8, <2>1, <2>2, HeadBecomesCur
  <2> HIDE DEF h
  <2>4. link'[r] = OnAir(link[r], h) /\ link'[n] = Tail(link[n])
    BY <1>2, <1>5, <2>1
  <2>5. /\ state'[r] = state[r] /\ appQueue'[r] = appQueue[r] /\ lastTx'[r] = lastTx[r]
        /\ currSeq'[r] = currSeq[r]
    BY <1>2, <2>1 DEF TypeOK, SendHead
  <2>6. SenderInv(r)'
    BY <1>2, <1>3, <2>5, SenderKept
  <2>7. Flight(link'[r], link'[n], lastTx'[n].id, lastTx'[n].seq, state'[n] = "wait", arrived'[r])
    <3>1. h.seq = Advance(lastTx[n].seq)
      BY <1>2, <1>4, <2>3 DEF Expected
    <3>2. Flight(OnAir(link[r], h), Tail(link[n]), Cur(n) + 1, h.seq, TRUE, arrived[r])
      BY <1>2, <1>5, <1>7, <1>8, <2>3, <3>1, FlightNext
    <3> QED BY <1>3, <2>3, <2>4, <3>2
  <2>8. Flight(link'[n], link'[r], lastTx'[r].id, lastTx'[r].seq, state'[r] = "wait", arrived'[n])
    <3>1. Flight(Tail(link[n]), OnAir(link[r], h), Cur(r), lastTx[r].seq, state[r] = "wait",
                 arrived[n])
      BY <1>2, <1>5, <1>6, <2>3, FlightOther
    <3> QED BY <1>3, <2>4, <2>5, <3>1 DEF Cur
  <2> QED BY <1>1, <2>3, <2>6, <2>7, <2>8, DirectionsTogether
<1>9. CASE ~(f.seq = currSeq[n] /\ appQueue[n] # <<>>)
  <2>1. /\ state' = [state EXCEPT ![n] = IF f.seq = currSeq[n] THEN "idle" ELSE @]
        /\ link' = rest
        /\ UNCHANGED <<appQueue, lastTx, currSeq, txSeq, offered, arrived>>
    BY <1>3, <1>9
  <2>2. /\ state'[r] = state[r]
        /\ \/ state'[n] = state[n]
           \/ state'[n] = "idle" /\ f.seq = currSeq[n] /\ appQueue[n] = <<>>
    BY <1>2, <1>9, <2>1 DEF TypeOK
  <2>3. SenderInv(r)'
    BY <1>2, <2>1, <2>2, SenderKept
  <2>4. SenderInv(n)'
    BY <1>2, <1>4, <2>1, <2>2 DEF SenderInv, Cur, Expected
  <2>5. Flight(link'[r], link'[n], lastTx'[n].id, lastTx'[n].seq, state'[n] = "wait", arrived'[r])
    BY <1>5, <1>6, <1>7, <2>1, <2>2 DEF Cur
  <2>6. Flight(link'[n], link'[r], lastTx'[r].id, lastTx'[r].seq, state'[r] = "wait", arrived'[n])
    BY <1>5, <1>6, <2>1, <2>2 DEF Cur
  <2> QED BY <1>1, <2>3, <2>4, <2>5, <2>6, DirectionsTogether
<1> QED BY <1>8, <1>9

\* The radio loses a frame.
LEMMA TwoWayLose ==
    ASSUME TypeOK, TalkInv, NEW n \in Node, Lose(n)
    PROVE  TalkInv'
<1>1. PICK r : r = Peer(n)
  OBVIOUS
<1>2. /\ n \in Node /\ r \in Node /\ r # n
      /\ link[n] \in Seq(Frame) /\ link[r] \in Seq(Frame)
      /\ Cur(n) \in Nat /\ Cur(r) \in Nat
      /\ SenderInv(n) /\ SenderInv(r)
      /\ Flight(link[r], link[n], Cur(n), lastTx[n].seq, state[n] = "wait", arrived[r])
      /\ Flight(link[n], link[r], Cur(r), lastTx[r].seq, state[r] = "wait", arrived[n])
  BY <1>1, Directions
<1>3. /\ link[n] # <<>> /\ link' = [link EXCEPT ![n] = Tail(@)]
      /\ UNCHANGED <<state, appQueue, lastTx, currSeq, txSeq, offered, arrived>>
  BY DEF Lose, blockVars
<1>4. link'[n] = Tail(link[n]) /\ link'[r] = link[r]
  BY <1>2, <1>3 DEF TypeOK
<1>5. /\ Flight(link[r], Tail(link[n]), Cur(n), lastTx[n].seq, state[n] = "wait", arrived[r])
      /\ Flight(Tail(link[n]), link[r], Cur(r), lastTx[r].seq, state[r] = "wait", arrived[n])
  BY <1>2, <1>3, FlightAckLeaves, FlightDataLeaves
<1>6. SenderInv(n)' /\ SenderInv(r)'
  BY <1>2, <1>3, SenderKept
<1>7. Flight(link'[r], link'[n], lastTx'[n].id, lastTx'[n].seq, state'[n] = "wait", arrived'[r])
  BY <1>3, <1>4, <1>5 DEF Cur
<1>8. Flight(link'[n], link'[r], lastTx'[r].id, lastTx'[r].seq, state'[r] = "wait", arrived'[n])
  BY <1>3, <1>4, <1>5 DEF Cur
<1> QED BY <1>1, <1>6, <1>7, <1>8, DirectionsTogether

\* useAck is a parameter of the block.
LEMMA ParameterKept == ASSUME [Next]_vars PROVE useAck' = useAck
<1>1. ASSUME NEW n \in Node, AppMessage(n) PROVE useAck' = useAck
  BY <1>1 DEF AppMessage, AppMessageIdle, AppMessageWaiting, AppMessageNoAck, Submit
<1>2. ASSUME NEW n \in Node, AppBeyondBound(n) \/ Lose(n) PROVE useAck' = useAck
  BY <1>2 DEF AppBeyondBound, Lose, blockVars
<1>3. ASSUME NEW n \in Node, PhyMessage(n) PROVE useAck' = useAck
  BY <1>3 DEF PhyMessage, PhyData, PhyAck
<1>4. CASE UNCHANGED vars
  BY <1>4 DEF vars, blockVars
<1> QED BY <1>1, <1>2, <1>3, <1>4 DEF Next

\* TwoWayInv is inductive.
LEMMA TwoWayStep ==
    ASSUME TwoWayInv, TypeOK', [Next]_vars
    PROVE  TwoWayInv'
<1> SUFFICES ASSUME useAck PROVE TalkInv'
  BY ParameterKept DEF TwoWayInv
<1>1. TypeOK /\ TalkInv
  BY DEF TwoWayInv
<1>2. ASSUME NEW n \in Node, AppMessage(n) PROVE TalkInv'
  BY <1>1, <1>2, TwoWayIdle, TwoWayWaiting DEF AppMessage, AppMessageNoAck
<1>3. ASSUME NEW n \in Node, AppBeyondBound(n) PROVE TalkInv'
  BY <1>1, <1>3, TwoWayBeyond
<1>4. ASSUME NEW n \in Node, PhyMessage(n) PROVE TalkInv'
  BY <1>1, <1>4, TwoWayData, TwoWayAck DEF PhyMessage
<1>5. ASSUME NEW n \in Node, Lose(n) PROVE TalkInv'
  BY <1>1, <1>5, TwoWayLose
<1>6. CASE UNCHANGED vars
  <2>1. UNCHANGED <<state, appQueue, lastTx, currSeq, txSeq, offered, arrived, link>>
    BY <1>6 DEF vars, blockVars, history
  <2>2. \A n \in Node : SenderInv(n)'
    BY <1>1, <2>1, SenderKept DEF TalkInv
  <2>3. \A n \in Node : FlightInv(n)'
    BY <1>1, <2>1 DEF TalkInv, FlightInv, Cur
  <2> QED BY <2>2, <2>3 DEF TalkInv
<1> QED BY <1>2, <1>3, <1>4, <1>5, <1>6 DEF Next

\* An acknowledged fragment has arrived, in both directions at once, however
\* many sequence numbers there are and whatever the radio loses.
THEOREM AcknowledgedArrived == Spec => []AckedHasArrived
<1>1. Init => TwoWayInv
  BY TwoWayInit
<1>2. TwoWayInv /\ TypeOK' /\ [Next]_vars => TwoWayInv'
  BY TwoWayStep
<1>3. TwoWayInv => AckedHasArrived
  <2> SUFFICES ASSUME TwoWayInv, useAck, NEW n \in Node, NEW i \in Finished(n)
               PROVE  i \in arrived[Peer(n)]
    BY DEF AckedHasArrived
  <2>1. lastTx[n].id \in Nat
    BY NodeTypes DEF TwoWayInv
  <2>2. i \in 1 .. lastTx[n].id /\ (i < lastTx[n].id \/ ~(state[n] = "wait"))
    BY <2>1 DEF Finished
  <2>3. FlightInv(n)
    BY DEF TwoWayInv, TalkInv
  <2> QED BY <2>2, <2>3 DEF FlightInv, Flight, Cur
<1> QED BY <1>1, <1>2, <1>3, TypeCorrect, PTL DEF Spec

-----------------------------------------------------------------------------
(* Messages: the fragments of one node are numbered from 1 on, and a message
   is a run of them. *)

\* The number of the last fragment of message m.
LastOf(m) == m[1] + Len(m) - 1

\* S cuts the fragments 1 .. t into messages.
Messages(S, t) ==
    /\ \A j \in 1 .. Len(S) : /\ Len(S[j]) >= 1 /\ S[j][1] >= 1
                              /\ \A i \in 1 .. Len(S[j]) : S[j][i] = S[j][1] + i - 1
                              /\ LastOf(S[j]) <= t
    /\ \A i, j \in 1 .. Len(S) : i < j => LastOf(S[i]) < S[j][1]
    /\ \A j \in 1 .. Len(S) - 1 : S[j + 1][1] = LastOf(S[j]) + 1
    /\ S = <<>> => t = 0
    /\ S # <<>> => S[1][1] = 1 /\ LastOf(S[Len(S)]) = t

\* The fragment bits of f say where it stands in its message.
Marked(S, f) ==
    \E j \in 1 .. Len(S) :
        /\ f.id \in S[j][1] .. LastOf(S[j])
        /\ f.frag = FragBit(f.id - S[j][1] + 1, Len(S[j]))

\* The last fragment of the first d messages.
Done(S, d) == IF d = 0 THEN 0 ELSE LastOf(S[d])

\* Of the n fragments processed, the complete messages were delivered, and the
\* packet buffer holds the beginning of the next message.
Reassembled(S, dl, pb, n) ==
    /\ Len(dl) <= Len(S)
    /\ \A i \in 1 .. Len(dl) : dl[i] = S[i]
    /\ n = Done(S, Len(dl)) + Len(pb)
    /\ \A i \in 1 .. Len(pb) : pb[i] = Done(S, Len(dl)) + i
    /\ pb # <<>> => Len(dl) < Len(S) /\ Len(pb) < Len(S[Len(dl) + 1])

\* What the elements of sequences of messages are.
LEMMA MessageTypes ==
    ASSUME NEW S \in Seq(Seq(Nat))
    PROVE  /\ Len(S) \in Nat /\ (S # <<>> => Len(S) >= 1)
           /\ \A j \in 1 .. Len(S) :
                /\ S[j] \in Seq(Nat) /\ Len(S[j]) \in Nat
                /\ \A i \in 1 .. Len(S[j]) : S[j][i] \in Nat
<1>1. Len(S) \in Nat /\ (S # <<>> => Len(S) >= 1)
  BY EmptySeq
<1>2. \A j \in 1 .. Len(S) : S[j] \in Seq(Nat)
  BY ElementOfSeq
<1> QED BY <1>1, <1>2, ElementOfSeq

\* The numbers of a message that is one of Messages(S, t).
LEMMA MessageNumbers ==
    ASSUME NEW S \in Seq(Seq(Nat)), NEW t \in Nat, Messages(S, t), NEW j \in 1 .. Len(S)
    PROVE  /\ S[j] \in Seq(Nat) /\ Len(S[j]) \in Nat /\ Len(S[j]) >= 1
           /\ S[j][1] \in Nat /\ S[j][1] >= 1 /\ LastOf(S[j]) \in Nat
           /\ LastOf(S[j]) <= t /\ LastOf(S[j]) = S[j][1] + Len(S[j]) - 1
           /\ \A i \in 1 .. Len(S[j]) : S[j][i] = S[j][1] + i - 1
<1>1. S[j] \in Seq(Nat) /\ Len(S[j]) \in Nat /\ Len(S[j]) >= 1
  BY MessageTypes DEF Messages
<1>2. S[j][1] \in Nat
  BY <1>1, MessageTypes
<1>3. LastOf(S[j]) = S[j][1] + Len(S[j]) - 1
  BY DEF LastOf
<1>4. LastOf(S[j]) \in Nat
  BY <1>1, <1>2, <1>3
<1> QED BY <1>1, <1>2, <1>3, <1>4 DEF Messages

\* A message of the next k fragments joins the others, and its fragments are
\* marked by what add_frag_hdr writes.
LEMMA MessageJoins ==
    ASSUME NEW S \in Seq(Seq(Nat)), NEW t \in Nat, Messages(S, t),
           NEW k \in Nat, k >= 1,
           NEW T, T = Append(S, [i \in 1 .. k |-> t + i])
    PROVE  /\ T \in Seq(Seq(Nat)) /\ Messages(T, t + k)
           /\ \A i \in 1 .. k : \A x : Marked(T, DataFrame(x, t + i, FragBit(i, k)))
<1> DEFINE m == [i \in 1 .. k |-> t + i]
<1>1. m \in Seq(Nat) /\ Len(m) = k /\ \A i \in 1 .. k : m[i] = t + i
  <2>1. m \in [1 .. k -> Nat]
    OBVIOUS
  <2> QED BY <2>1, SeqByElements
<1>2. m[1] = t + 1 /\ LastOf(m) = t + k /\ LastOf(m) \in Nat
  BY <1>1 DEF LastOf
<1>3. T = Append(S, m)
  OBVIOUS
<1> HIDE DEF m
<1>4. /\ T \in Seq(Seq(Nat)) /\ Len(T) = Len(S) + 1 /\ Len(S) \in Nat
      /\ \A j \in 1 .. Len(S) : T[j] = S[j]
      /\ T[Len(S) + 1] = m
  BY <1>1, <1>3, AppendProperties, MessageTypes
<1>5. \A j \in 1 .. Len(T) : (j \in 1 .. Len(S) /\ T[j] = S[j]) \/ (j = Len(S) + 1 /\ T[j] = m)
  BY <1>4
<1>6. \A j \in 1 .. Len(S) : LastOf(S[j]) \in Nat /\ LastOf(S[j]) <= t /\ S[j][1] \in Nat
  BY MessageNumbers
<1>7. Messages(T, t + k)
  <2>1. ASSUME NEW j \in 1 .. Len(T)
        PROVE  /\ Len(T[j]) >= 1 /\ T[j][1] >= 1
               /\ \A i \in 1 .. Len(T[j]) : T[j][i] = T[j][1] + i - 1
               /\ LastOf(T[j]) <= t + k
    <3>1. CASE j \in 1 .. Len(S) /\ T[j] = S[j]
      <4>1. LastOf(S[j]) <= t + k
        BY <1>6, <3>1
      <4> QED BY <3>1, <4>1 DEF Messages
    <3>2. CASE T[j] = m
      <4>1. /\ Len(m) >= 1 /\ m[1] >= 1 /\ LastOf(m) <= t + k
            /\ \A i \in 1 .. Len(m) : m[i] = m[1] + i - 1
        BY <1>1, <1>2
      <4> QED BY <3>2, <4>1
    <3> QED BY <1>5, <3>1, <3>2
  <2>2. ASSUME NEW i \in 1 .. Len(T), NEW j \in 1 .. Len(T), i < j
        PROVE  LastOf(T[i]) < T[j][1]
    <3>1. i \in 1 .. Len(S) /\ T[i] = S[i]
      BY <1>4, <2>2
    <3>2. CASE j \in 1 .. Len(S)
      BY <1>4, <2>2, <3>1, <3>2 DEF Messages
    <3>3. CASE T[j] = m
      <4>1. LastOf(S[i]) < m[1]
        BY <1>2, <1>6, <3>1
      <4> QED BY <3>1, <3>3, <4>1
    <3> QED BY <1>5, <3>2, <3>3
  <2>3. ASSUME NEW j \in 1 .. Len(T) - 1 PROVE T[j + 1][1] = LastOf(T[j]) + 1
    <3>1. j \in 1 .. Len(S) /\ T[j] = S[j]
      BY <1>4
    <3>2. CASE j < Len(S)
      <4>1. j \in 1 .. Len(S) - 1 /\ T[j + 1] = S[j + 1]
        BY <1>4, <3>2
      <4> QED BY <3>1, <4>1 DEF Messages
    <3>3. CASE j = Len(S)
      <4>1. S # <<>> /\ T[j + 1] = m
        BY <1>4, <3>1, <3>3
      <4>2. LastOf(S[Len(S)]) = t
        BY <4>1 DEF Messages
      <4> QED BY <1>2, <3>1, <3>3, <4>1, <4>2
    <3> QED BY <1>4, <3>1, <3>2, <3>3
  <2>4. T # <<>> /\ T[1][1] = 1 /\ LastOf(T[Len(T)]) = t + k
    <3>1. T # <<>> /\ LastOf(T[Len(T)]) = t + k
      <4>1. Len(T) = Len(S) + 1 /\ T[Len(T)] = m /\ Len(T) # 0
        BY <1>4
      <4>2. T # <<>>
        BY <1>4, <4>1, EmptySeq
      <4> QED BY <1>2, <4>1, <4>2
    <3>2. CASE S = <<>>
      <4>1. t = 0 /\ Len(S) = 0
        BY <3>2 DEF Messages
      <4> QED BY <1>2, <1>4, <3>1, <4>1
    <3>3. CASE S # <<>>
      <4>1. 1 \in 1 .. Len(S) /\ T[1] = S[1]
        BY <1>4, <3>3, MessageTypes
      <4> QED BY <3>1, <3>3, <4>1 DEF Messages
    <3> QED BY <3>2, <3>3
  <2> QED BY <2>1, <2>2, <2>3, <2>4 DEF Messages
<1>8. ASSUME NEW i \in 1 .. k, NEW x PROVE Marked(T, DataFrame(x, t + i, FragBit(i, k)))
  <2> DEFINE f == DataFrame(x, t + i, FragBit(i, k))
  <2>1. f.id = t + i /\ f.frag = FragBit(i, k)
    BY DEF DataFrame
  <2> HIDE DEF f
  <2>2. Len(T) \in 1 .. Len(T) /\ T[Len(T)] = m
    BY <1>4
  <2>3. f.id \in m[1] .. LastOf(m) /\ f.id - m[1] + 1 = i
    BY <1>2, <2>1
  <2> QED BY <1>1, <2>1, <2>2, <2>3 DEF Marked, f
<1> QED BY <1>4, <1>7, <1>8

\* A frame that is marked by S is marked when another message has joined S.
LEMMA StillMarked ==
    ASSUME NEW S \in Seq(Seq(Nat)), NEW m \in Seq(Nat), NEW f, Marked(S, f)
    PROVE  Marked(Append(S, m), f)
<1> DEFINE T == Append(S, m)
<1>1. /\ Len(T) = Len(S) + 1 /\ Len(S) \in Nat
      /\ \A j \in 1 .. Len(S) : T[j] = S[j]
  BY AppendProperties
<1> HIDE DEF T
<1>2. PICK j \in 1 .. Len(S) : /\ f.id \in S[j][1] .. LastOf(S[j])
                               /\ f.frag = FragBit(f.id - S[j][1] + 1, Len(S[j]))
  BY DEF Marked
<1>3. j \in 1 .. Len(T) /\ T[j] = S[j]
  BY <1>1
<1>4. Marked(T, f)
  BY <1>2, <1>3 DEF Marked
<1> QED BY <1>4 DEF T

\* A new message changes nothing of what has been reassembled.
LEMMA StillReassembled ==
    ASSUME NEW S \in Seq(Seq(Nat)), NEW m \in Seq(Nat), NEW T, T = Append(S, m),
           NEW dl \in Seq(Seq(Nat)), NEW pb, NEW n, Reassembled(S, dl, pb, n)
    PROVE  Reassembled(T, dl, pb, n)
<1>1. /\ Len(T) = Len(S) + 1 /\ Len(S) \in Nat /\ Len(dl) \in Nat /\ Len(dl) <= Len(S)
      /\ \A j \in 1 .. Len(S) : T[j] = S[j]
  BY AppendProperties DEF Reassembled
<1>2. Done(T, Len(dl)) = Done(S, Len(dl))
  BY <1>1 DEF Done
<1>3. \A i \in 1 .. Len(dl) : dl[i] = T[i]
  BY <1>1 DEF Reassembled
<1>4. ASSUME pb # <<>> PROVE Len(dl) < Len(T) /\ Len(pb) < Len(T[Len(dl) + 1])
  <2>1. Len(dl) < Len(S) /\ Len(pb) < Len(S[Len(dl) + 1])
    BY <1>4 DEF Reassembled
  <2> QED BY <1>1, <2>1
<1>5. Len(dl) <= Len(T)
  BY <1>1
<1> QED BY <1>2, <1>3, <1>4, <1>5 DEF Reassembled

\* The next fragment to be processed belongs to the next message to be
\* delivered, and its place there is behind the packet buffer.
LEMMA PlaceOfNext ==
    ASSUME NEW S \in Seq(Seq(Nat)), NEW t \in Nat, Messages(S, t),
           NEW dl \in Seq(Seq(Nat)), NEW pb \in Seq(Nat), NEW n \in Nat,
           Reassembled(S, dl, pb, n),
           NEW f, f.id = n + 1, Marked(S, f)
    PROVE  LET d == Len(dl) + 1 IN
           /\ d \in 1 .. Len(S) /\ S[d][1] = Done(S, Len(dl)) + 1
           /\ Len(pb) < Len(S[d])
           /\ f.frag = FragBit(Len(pb) + 1, Len(S[d]))
<1> DEFINE d == Len(dl) + 1
           z == Done(S, Len(dl))
<1>1. /\ Len(dl) \in Nat /\ Len(S) \in Nat /\ Len(pb) \in Nat /\ Len(dl) <= Len(S)
      /\ n = z + Len(pb)
      /\ pb # <<>> => Len(dl) < Len(S) /\ Len(pb) < Len(S[d])
      /\ pb # <<>> => Len(pb) # 0
      /\ pb = <<>> => Len(pb) = 0
  BY EmptySeq DEF Reassembled
<1>2. PICK j \in 1 .. Len(S) : /\ f.id \in S[j][1] .. LastOf(S[j])
                               /\ f.frag = FragBit(f.id - S[j][1] + 1, Len(S[j]))
  BY DEF Marked
<1>3. /\ S[j][1] \in Nat /\ LastOf(S[j]) \in Nat /\ LastOf(S[j]) <= t
      /\ S[j][1] <= n + 1 /\ n + 1 <= LastOf(S[j])
  BY <1>2, MessageNumbers
<1>4. z \in Nat /\ (Len(dl) > 0 => z = LastOf(S[Len(dl)]))
  <2>1. CASE Len(dl) = 0
    BY <2>1 DEF Done
  <2>2. CASE Len(dl) > 0
    <3>1. Len(dl) \in 1 .. Len(S)
      BY <1>1, <2>2
    <3> QED BY <3>1, <2>2, MessageNumbers DEF Done
  <2> QED BY <1>1, <2>1, <2>2
<1> HIDE DEF z
<1>5. d \in 1 .. Len(S)
  <2> SUFFICES ASSUME ~(d \in 1 .. Len(S)) PROVE FALSE
    OBVIOUS
  <2>1. Len(dl) = Len(S) /\ Len(S) > 0 /\ pb = <<>>
    BY <1>1
  <2>2. S # <<>>
    BY <2>1, EmptySeq
  <2>3. z = t
    BY <1>4, <2>1, <2>2 DEF Messages
  <2> QED BY <1>1, <1>3, <2>1, <2>3
<1>6. S[d][1] = z + 1
  <2>1. CASE Len(dl) = 0
    <3>1. S # <<>> /\ z = 0 /\ d = 1
      BY <1>5, <2>1, EmptySeq DEF Done, z
    <3> QED BY <3>1 DEF Messages
  <2>2. CASE Len(dl) > 0
    <3>1. Len(dl) \in 1 .. Len(S) - 1
      BY <1>1, <1>5, <2>2
    <3> QED BY <1>4, <2>2, <3>1 DEF Messages
  <2> QED BY <1>1, <2>1, <2>2
<1>7. /\ Len(S[d]) \in Nat /\ Len(S[d]) >= 1 /\ LastOf(S[d]) = S[d][1] + Len(S[d]) - 1
      /\ LastOf(S[d]) \in Nat
  BY <1>5, MessageNumbers
<1>8. Len(pb) < Len(S[d])
  BY <1>1, <1>7
<1>d. d \in Nat
  BY <1>1
<1> HIDE DEF d
<1>9. n + 1 >= S[d][1] /\ n + 1 <= LastOf(S[d])
  <2> DEFINE b == S[d][1]
             e == LastOf(S[d])
             l == Len(S[d])
  <2>1. n = z + Len(pb) /\ z \in Nat /\ Len(pb) \in Nat /\ Len(pb) < l /\ l \in Nat
    BY <1>1, <1>4, <1>7, <1>8
  <2>2. b = z + 1 /\ e = b + l - 1
    BY <1>6, <1>7
  <2> HIDE DEF b, e, l
  <2>3. n + 1 >= b /\ n + 1 <= e
    BY <2>1, <2>2
  <2> QED BY <2>3 DEF b, e
<1>10. j = d
  <2>1. CASE j < d
    <3>1. LastOf(S[j]) < S[d][1]
      BY <1>5, <2>1 DEF Messages
    <3> QED BY <1>3, <1>4, <1>6, <1>9, <3>1
  <2>2. CASE d < j
    <3>1. LastOf(S[d]) < S[j][1]
      BY <1>5, <2>2, Zenon DEF Messages
    <3>2. LastOf(S[d]) \in Nat /\ n + 1 <= LastOf(S[d])
      BY <1>7, <1>9
    <3> QED BY <1>3, <3>1, <3>2
  <2> QED BY <1>1, <1>d, <2>1, <2>2
<1>11. f.frag = FragBit(Len(pb) + 1, Len(S[d]))
  <2>1. f.id - S[d][1] + 1 = Len(pb) + 1
    BY <1>1, <1>4, <1>6
  <2> QED BY <1>2, <1>10, <2>1
<1> QED BY <1>5, <1>6, <1>8, <1>11 DEF z, d

\* When a message is complete it is delivered as it was submitted.
LEMMA MessageCompletes ==
    ASSUME NEW S \in Seq(Seq(Nat)), NEW t \in Nat, Messages(S, t),
           NEW dl \in Seq(Seq(Nat)), NEW pb, NEW n, Reassembled(S, dl, pb, n),
           Len(dl) + 1 \in 1 .. Len(S),
           NEW e, e = LastOf(S[Len(dl) + 1])
    PROVE  Reassembled(S, Append(dl, S[Len(dl) + 1]), <<>>, e)
<1> DEFINE d == Len(dl) + 1
           new == Append(dl, S[d])
<1>1. S[d] \in Seq(Nat) /\ LastOf(S[d]) \in Nat
  BY MessageNumbers
<1>2. /\ Len(new) = d /\ Len(dl) \in Nat
      /\ \A i \in 1 .. Len(dl) : new[i] = dl[i]
      /\ new[d] = S[d]
  BY <1>1, AppendProperties
<1> HIDE DEF new
<1>3. \A i \in 1 .. Len(new) : new[i] = S[i]
  <2>1. \A i \in 1 .. Len(dl) : dl[i] = S[i]
    BY DEF Reassembled
  <2>2. \A i \in 1 .. Len(new) : i \in 1 .. Len(dl) \/ i = d
    BY <1>2
  <2>3. \A i \in 1 .. Len(dl) : new[i] = S[i]
    BY <1>2, <2>1
  <2> QED BY <1>2, <2>2, <2>3, Zenon
<1>4. Done(S, Len(new)) = e
  BY <1>2 DEF Done
<1>5. Len(<<>>) = 0 /\ e = Done(S, Len(new)) + 0
  BY <1>1, <1>4
<1>6. Len(new) <= Len(S)
  BY <1>2
<1> QED BY <1>3, <1>5, <1>6 DEF Reassembled, new

\* process_fragment goes on reassembling: a whole message is delivered at once,
\* a part joins the packet buffer, the last part completes what is there.
LEMMA FragmentJoins ==
    ASSUME NEW S \in Seq(Seq(Nat)), NEW t \in Nat, Messages(S, t),
           NEW dl \in Seq(Seq(Nat)), NEW pb \in Seq(Nat), NEW n \in Nat,
           Reassembled(S, dl, pb, n),
           NEW f, f.id = n + 1, Marked(S, f)
    PROVE  /\ Len(dl) + 1 \in 1 .. Len(S)
           /\ f.frag = "whole" => /\ <<f.id>> = S[Len(dl) + 1]
                                  /\ Reassembled(S, Append(dl, <<f.id>>), pb, n + 1)
           /\ f.frag = "part" => Reassembled(S, dl, Append(pb, f.id), n + 1)
           /\ f.frag = "end" =>
                 /\ Append(pb, f.id) = S[Len(dl) + 1]
                 /\ Reassembled(S, Append(dl, Append(pb, f.id)), <<>>, n + 1)
<1> DEFINE d == Len(dl) + 1
           L == Len(S[d])
           full == Append(pb, f.id)
<1>1. /\ d \in 1 .. Len(S) /\ S[d][1] = Done(S, Len(dl)) + 1 /\ Len(pb) < L
      /\ f.frag = FragBit(Len(pb) + 1, L)
  BY PlaceOfNext
<1>2. /\ S[d] \in Seq(Nat) /\ L \in Nat /\ L >= 1 /\ S[d][1] \in Nat
      /\ LastOf(S[d]) = S[d][1] + L - 1
      /\ \A i \in 1 .. L : S[d][i] = S[d][1] + i - 1
  BY <1>1, MessageNumbers
<1>3. /\ Len(pb) \in Nat /\ n = S[d][1] - 1 + Len(pb) /\ Len(dl) \in Nat
      /\ \A i \in 1 .. Len(pb) : pb[i] = S[d][1] - 1 + i
      /\ Done(S, Len(dl)) = S[d][1] - 1
  <2>1. /\ n = Done(S, Len(dl)) + Len(pb)
        /\ \A i \in 1 .. Len(pb) : pb[i] = Done(S, Len(dl)) + i
    BY DEF Reassembled
  <2>2. Done(S, Len(dl)) = S[d][1] - 1
    <3>1. Done(S, Len(dl)) \in Int
      <4>1. CASE Len(dl) = 0
        BY <4>1 DEF Done
      <4>2. CASE Len(dl) # 0
        <5>1. Len(dl) \in 1 .. Len(S)
          BY <1>1, <4>2
        <5> QED BY <4>2, <5>1, MessageNumbers DEF Done
      <4> QED BY <4>1, <4>2
    <3> QED BY <1>1, <3>1
  <2> QED BY <2>1, <2>2
<1>4. /\ full \in Seq(Nat) /\ Len(full) = Len(pb) + 1
      /\ \A i \in 1 .. Len(pb) : full[i] = pb[i]
      /\ full[Len(pb) + 1] = n + 1
  BY AppendProperties
<1> DEFINE b == S[d][1]
<1>b. b \in Nat /\ n \in Nat /\ LastOf(S[d]) = b + L - 1 /\ n = b - 1 + Len(pb)
      /\ \A i \in 1 .. Len(pb) : pb[i] = b - 1 + i
  BY <1>2, <1>3
<1>c. \A i \in 1 .. L : S[d][i] = b + i - 1
  BY <1>2
<1>e. Done(S, Len(dl)) = b - 1
  BY <1>3
<1> HIDE DEF L, d, full, b
<1>5. \A i \in 1 .. Len(full) : full[i] = b + i - 1
  <2>1. \A i \in 1 .. Len(pb) : full[i] = b + i - 1
    BY <1>b, <1>3, <1>4
  <2>2. full[Len(pb) + 1] = b + (Len(pb) + 1) - 1
    BY <1>b, <1>3, <1>4
  <2>3. \A i \in 1 .. Len(full) : i \in 1 .. Len(pb) \/ i = Len(pb) + 1
    BY <1>3, <1>4
  <2> QED BY <2>1, <2>2, <2>3, Zenon
<1>6. ASSUME L = Len(pb) + 1 PROVE full = S[d] /\ n + 1 = LastOf(S[d])
  <2>1. Len(full) = L /\ \A i \in 1 .. Len(full) : full[i] = S[d][i]
    BY <1>c, <1>4, <1>5, <1>6
  <2>2. full = S[d]
    BY <1>2, <1>4, <2>1, SeqEqual DEF L
  <2>3. n + 1 = LastOf(S[d])
    BY <1>b, <1>2, <1>3, <1>6
  <2> QED BY <2>2, <2>3
<1>7. ASSUME f.frag = "whole"
      PROVE  /\ <<f.id>> = S[d] /\ Reassembled(S, Append(dl, <<f.id>>), pb, n + 1)
  <2>1. L = 1
    BY <1>1, <1>7 DEF FragBit
  <2>2. Len(pb) = 0
    BY <1>1, <1>3, <2>1
  <2>3. pb = <<>>
    BY <2>2, EmptySeq
  <2>4. full = <<f.id>>
    BY <2>3 DEF full
  <2>5. full = S[d] /\ n + 1 = LastOf(S[d])
    BY <1>6, <2>1, <2>2
  <2> QED BY <1>1, <2>3, <2>4, <2>5, MessageCompletes DEF d
<1>8. ASSUME f.frag = "end"
      PROVE  full = S[d] /\ Reassembled(S, Append(dl, full), <<>>, n + 1)
  <2>1. L = Len(pb) + 1
    <3>1. ~(Len(pb) + 1 < L)
      BY <1>1, <1>8 DEF FragBit
    <3> QED BY <1>1, <1>2, <1>3, <3>1
  <2>2. full = S[d] /\ n + 1 = LastOf(S[d])
    BY <1>6, <2>1
  <2> QED BY <1>1, <2>2, MessageCompletes DEF d
<1>9. ASSUME f.frag = "part" PROVE Reassembled(S, dl, full, n + 1)
  <2>1. Len(pb) + 1 < L
    BY <1>1, <1>2, <1>3, <1>9 DEF FragBit
  <2>2. Len(dl) < Len(S) /\ Len(full) < Len(S[Len(dl) + 1])
    <3>1. Len(dl) < Len(S)
      BY <1>1, <1>3 DEF d
    <3> QED BY <3>1, <2>1, <1>4 DEF d, L
  <2>3. n + 1 = Done(S, Len(dl)) + Len(full)
    BY <1>b, <1>e, <1>3, <1>4
  <2>4. \A i \in 1 .. Len(full) : full[i] = Done(S, Len(dl)) + i
    BY <1>b, <1>e, <1>3, <1>4, <1>5
  <2> QED BY <2>2, <2>3, <2>4 DEF Reassembled
<1> QED BY <1>1, <1>7, <1>8, <1>9 DEF d, full

-----------------------------------------------------------------------------
(* Without acknowledgements: every fragment goes out once and at once, so   *)
(* while nothing is lost the link holds what has not been processed yet.    *)

\* The number the next frame must have that r does not take for a duplicate.
NextNumber(r) == IF lastSeq[r] = -1 THEN 0 ELSE Advance(lastSeq[r])

\* The link q holds the last fragments of the t submitted in the messages S,
\* numbered from e on; those before it have been reassembled into dl and pb.
Stream(S, t, q, e, u, dl, pb) ==
    /\ Len(q) <= t
    /\ \A i \in 1 .. Len(q) : q[i].id = t - Len(q) + i /\ Marked(S, q[i])
    /\ Chain(q, e, u)
    /\ Reassembled(S, dl, pb, t - Len(q))

StreamInv(s) ==
    ~lost[Peer(s)] =>
        Stream(submitted[s], offered[s], link[Peer(s)], NextNumber(Peer(s)), txSeq[s],
               delivered[Peer(s)], packetBuffer[Peer(s)])

\* A node never waits or queues, and nothing is acknowledged.
PlainInv(n) ==
    /\ state[n] = "idle" /\ appQueue[n] = <<>>
    /\ \A i \in 1 .. Len(link[n]) : link[n][i].type = "data"
    /\ Messages(submitted[n], offered[n])

\* The inductive invariant of the block without acknowledgements.
StreamsInv == \A n \in Node : PlainInv(n) /\ StreamInv(n)

NoAckInv == TypeOK /\ (~useAck => StreamsInv)

\* The fragments of a new message go out behind the others.
LEMMA StreamGrows ==
    ASSUME TypeOK, NEW n \in Node, NEW k \in 1 .. MaxMtus,
           Messages(submitted[n], offered[n]),
           NEW q \in Seq(Frame), NEW e, NEW dl \in Seq(Seq(Nat)), NEW pb,
           Stream(submitted[n], offered[n], q, e, txSeq[n], dl, pb)
    PROVE  Stream(Append(submitted[n], [i \in 1 .. k |-> offered[n] + i]), offered[n] + k,
                  q \o Fragments(n, k), e, Wrap(txSeq[n] + k), dl, pb)
<1> DEFINE S == submitted[n]
           t == offered[n]
           u == txSeq[n]
           v == Wrap(u + k)
           F == Fragments(n, k)
           T == Append(S, [i \in 1 .. k |-> t + i])
<1>a. /\ k \in Nat /\ k >= 1 /\ S \in Seq(Seq(Nat)) /\ t \in Nat /\ Messages(S, t)
      /\ Stream(S, t, q, e, u, dl, pb)
  BY MtuAssumption DEF TypeOK
<1>b. /\ F \in Seq(Frame) /\ Len(F) = k /\ Chain(F, u, v)
      /\ \A i \in 1 .. k : F[i] = DataFrame(Wrap(u + i - 1), t + i, FragBit(i, k))
  BY FragmentsTyped, ChainFragments DEF TypeOK
<1>c. T = Append(S, [i \in 1 .. k |-> t + i])
  OBVIOUS
<1> HIDE DEF S, t, u, v, F, T
<1> DEFINE m == [i \in 1 .. k |-> t + i]
           c == q \o F
<1>1. m \in Seq(Nat)
  <2>1. m \in [1 .. k -> Nat]
    BY <1>a
  <2> QED BY <1>a, <2>1, SeqByElements
<1>2. T = Append(S, m)
  BY <1>c
<1>3. /\ c \in Seq(Frame) /\ Len(c) = Len(q) + k /\ Len(q) \in Nat /\ Len(q) <= t
      /\ \A i \in 1 .. Len(q) + k : c[i] = IF i <= Len(q) THEN q[i] ELSE F[i - Len(q)]
  <2>1. Len(q) <= t
    BY <1>a DEF Stream
  <2>2. Len(q) \in Nat /\ c \in Seq(Frame) /\ Len(c) = Len(q) + Len(F)
    BY <1>b, ConcatProperties, LenProperties
  <2>3. \A i \in 1 .. Len(q) + Len(F) : c[i] = IF i <= Len(q) THEN q[i] ELSE F[i - Len(q)]
    BY <1>b, ConcatProperties
  <2> QED BY <1>b, <2>1, <2>2, <2>3
<1> HIDE DEF m, c
<1>4. Chain(c, e, v)
  BY <1>a, <1>b, ChainConcat DEF Stream, c
<1>5. (t + k) - Len(c) = t - Len(q) /\ Len(c) <= t + k
  BY <1>a, <1>3
<1>6. Reassembled(T, dl, pb, t - Len(q))
  BY <1>a, <1>1, <1>2, StillReassembled DEF Stream
<1>7. ASSUME NEW i \in 1 .. Len(c)
      PROVE  c[i].id = (t + k) - Len(c) + i /\ Marked(T, c[i])
  <2>1. CASE i <= Len(q)
    <3>1. i \in 1 .. Len(q) /\ c[i] = q[i]
      BY <1>3, <2>1
    <3>2. q[i].id = t - Len(q) + i /\ Marked(S, q[i])
      BY <1>a, <3>1 DEF Stream
    <3>3. Marked(T, q[i])
      BY <1>a, <1>1, <1>2, <3>2, StillMarked
    <3> QED BY <1>5, <3>1, <3>2, <3>3
  <2>2. CASE ~(i <= Len(q))
    <3> DEFINE j == i - Len(q)
    <3>1. j \in 1 .. k /\ c[i] = F[j] /\ t + j = t - Len(q) + i
      BY <1>a, <1>3, <2>2
    <3> HIDE DEF j
    <3>2. F[j] = DataFrame(Wrap(u + j - 1), t + j, FragBit(j, k))
      BY <1>b, <3>1
    <3>3. F[j].id = t + j
      BY <3>2 DEF DataFrame
    <3>4. Marked(T, F[j])
      BY <1>a, <1>c, <3>1, <3>2, MessageJoins
    <3> QED BY <1>5, <3>1, <3>3, <3>4
  <2> QED BY <2>1, <2>2
<1>8. Stream(T, t + k, c, e, v, dl, pb)
  BY <1>4, <1>5, <1>6, <1>7 DEF Stream
<1> QED BY <1>8 DEF S, t, u, v, F, T, c

\* The head of the link is the next fragment of the next message.
LEMMA StreamHead ==
    ASSUME NEW S \in Seq(Seq(Nat)), NEW t \in Nat, Messages(S, t), NEW q \in Seq(Frame),
           q # <<>>, NEW e, NEW u, NEW dl \in Seq(Seq(Nat)), NEW pb \in Seq(Nat),
           Stream(S, t, q, e, u, dl, pb)
    PROVE  LET f == Head(q) IN
           /\ f.seq = e
           /\ f.frag = "whole" =>
                 Stream(S, t, Tail(q), Advance(e), u, Append(dl, <<f.id>>), pb)
           /\ f.frag = "part" =>
                 Stream(S, t, Tail(q), Advance(e), u, dl, Append(pb, f.id))
           /\ f.frag = "end" =>
                 Stream(S, t, Tail(q), Advance(e), u, Append(dl, Append(pb, f.id)), <<>>)
<1> DEFINE f == Head(q)
           p == Tail(q)
           n == t - Len(q)
<1>1. /\ f = q[1] /\ 1 \in 1 .. Len(q) /\ Len(q) \in Nat /\ Len(p) = Len(q) - 1
      /\ \A i \in 1 .. Len(p) : p[i] = q[i + 1] /\ i + 1 \in 1 .. Len(q)
  BY LinkTail
<1>2. Len(q) <= t /\ Chain(q, e, u) /\ Reassembled(S, dl, pb, n)
  BY DEF Stream
<1>3. f.seq = e /\ Chain(p, Advance(e), u)
  BY <1>2, ChainTail
<1>4. n \in Nat /\ t - Len(p) = n + 1 /\ Len(p) <= t
  BY <1>1, <1>2
<1>5. f.id = n + 1 /\ Marked(S, f)
  BY <1>1 DEF Stream
<1>6. \A i \in 1 .. Len(p) : p[i].id = t - Len(p) + i /\ Marked(S, p[i])
  <2> SUFFICES ASSUME NEW i \in 1 .. Len(p)
               PROVE  p[i].id = t - Len(p) + i /\ Marked(S, p[i])
    OBVIOUS
  <2>1. p[i] = q[i + 1] /\ i + 1 \in 1 .. Len(q)
    BY <1>1
  <2>2. q[i + 1].id = t - Len(q) + (i + 1) /\ Marked(S, q[i + 1])
    BY <2>1 DEF Stream
  <2>3. t - Len(q) + (i + 1) = t - Len(p) + i
    BY <1>1
  <2> QED BY <2>1, <2>2, <2>3
<1> HIDE DEF f, p, n
<1>7. /\ f.frag = "whole" => Reassembled(S, Append(dl, <<f.id>>), pb, n + 1)
      /\ f.frag = "part" => Reassembled(S, dl, Append(pb, f.id), n + 1)
      /\ f.frag = "end" => Reassembled(S, Append(dl, Append(pb, f.id)), <<>>, n + 1)
  BY <1>2, <1>4, <1>5, FragmentJoins
<1>8. /\ f.frag = "whole" => Stream(S, t, p, Advance(e), u, Append(dl, <<f.id>>), pb)
      /\ f.frag = "part" => Stream(S, t, p, Advance(e), u, dl, Append(pb, f.id))
      /\ f.frag = "end" =>
            Stream(S, t, p, Advance(e), u, Append(dl, Append(pb, f.id)), <<>>)
  BY <1>3, <1>4, <1>6, <1>7 DEF Stream
<1> QED BY <1>3, <1>8 DEF f, p

\* The invariant holds initially.
LEMMA NoAckInit ==
    ASSUME Init
    PROVE  NoAckInv
<1>1. TypeOK
  BY FrameTypes, SeqAssumption DEF Init, TypeOK, SeqNum
<1>2. \A n \in Node : /\ state[n] = "idle" /\ appQueue[n] = <<>> /\ link[n] = <<>>
                      /\ offered[n] = 0 /\ txSeq[n] = 0 /\ lastSeq[n] = -1
                      /\ submitted[n] = <<>> /\ delivered[n] = <<>>
                      /\ packetBuffer[n] = <<>>
  BY DEF Init
<1>3. Messages(<<>>, 0) /\ Reassembled(<<>>, <<>>, <<>>, 0)
  BY DEF Messages, Reassembled, Done
<1>4. Stream(<<>>, 0, <<>>, 0, 0, <<>>, <<>>)
  BY <1>3 DEF Stream, Chain
<1>5. ASSUME NEW n \in Node PROVE PlainInv(n) /\ StreamInv(n)
  <2>1. Peer(n) \in Node
    BY TwoNodes
  <2> QED BY <1>2, <1>3, <1>4, <2>1 DEF PlainInv, StreamInv, NextNumber
<1> QED BY <1>1, <1>5 DEF NoAckInv, StreamsInv

\* What the invariant says of a node n and its peer r.
LEMMA Streams ==
    ASSUME TypeOK, StreamsInv, NEW n \in Node, NEW r, r = Peer(n)
    PROVE  /\ r \in Node /\ r # n /\ Peer(r) = n
           /\ link[n] \in Seq(Frame) /\ link[r] \in Seq(Frame)
           /\ PlainInv(n) /\ PlainInv(r)
           /\ ~lost[r] => Stream(submitted[n], offered[n], link[r], NextNumber(r), txSeq[n],
                                 delivered[r], packetBuffer[r])
           /\ ~lost[n] => Stream(submitted[r], offered[r], link[n], NextNumber(n), txSeq[r],
                                 delivered[n], packetBuffer[n])
<1>1. r \in Node /\ r # n /\ Peer(r) = n
  BY TwoNodes
<1>2. link[n] \in Seq(Frame) /\ link[r] \in Seq(Frame)
  BY <1>1 DEF TypeOK
<1> QED BY <1>1, <1>2 DEF StreamsInv, StreamInv

\* The two streams after a step.
LEMMA StreamsTogether ==
    ASSUME NEW n \in Node, NEW r, r = Peer(n), PlainInv(n)', PlainInv(r)',
           ~lost'[r] => Stream(submitted'[n], offered'[n], link'[r], NextNumber(r)', txSeq'[n],
                               delivered'[r], packetBuffer'[r]),
           ~lost'[n] => Stream(submitted'[r], offered'[r], link'[n], NextNumber(n)', txSeq'[r],
                               delivered'[n], packetBuffer'[n])
    PROVE  StreamsInv'
<1>1. Peer(n) = r /\ Peer(r) = n /\ \A m \in Node : m = n \/ m = r
  BY TwoNodes
<1>2. StreamInv(n)' /\ StreamInv(r)'
  BY <1>1 DEF StreamInv, NextNumber
<1> QED BY <1>1, <1>2 DEF StreamsInv

\* A message of n: all its fragments go out.
LEMMA NoAckApp ==
    ASSUME TypeOK, StreamsInv, NEW n \in Node, NEW k \in 1 .. MaxMtus, AppMessageNoAck(n, k)
    PROVE  StreamsInv'
<1>1. PICK r : r = Peer(n)
  OBVIOUS
<1>2. /\ r \in Node /\ r # n
      /\ link[n] \in Seq(Frame) /\ link[r] \in Seq(Frame)
      /\ PlainInv(n) /\ PlainInv(r)
      /\ ~lost[r] => Stream(submitted[n], offered[n], link[r], NextNumber(r), txSeq[n],
                            delivered[r], packetBuffer[r])
      /\ ~lost[n] => Stream(submitted[r], offered[r], link[n], NextNumber(n), txSeq[r],
                            delivered[n], packetBuffer[n])
  BY <1>1, Streams
<1> DEFINE F == Fragments(n, k)
           room == LinkCap - Len(link[r])
           top == IF k <= room THEN k ELSE room
           G == SubSeq(F, 1, top)
           S == submitted[n]
           t == offered[n]
           m == [i \in 1 .. k |-> t + i]
<1>3. /\ F \in Seq(Frame) /\ Len(F) = k /\ Chain(F, txSeq[n], Wrap(txSeq[n] + k))
      /\ \A i \in 1 .. k : F[i] = DataFrame(Wrap(txSeq[n] + i - 1), t + i, FragBit(i, k))
  BY FragmentsTyped, ChainFragments DEF TypeOK
<1>4. k \in Nat /\ k >= 1 /\ room \in Int /\ top \in Int /\ top <= k
  BY <1>2, MtuAssumption, BoundAssumption
<1>5. appQueue[n] \o F = F
  BY <1>2, <1>3, ConcatProperties DEF PlainInv
<1>6. /\ Submit(n, k) /\ UNCHANGED state
      /\ appQueue' = [appQueue EXCEPT ![n] = SubSeq(F, k + 1, k)]
      /\ link' = [link EXCEPT ![r] = @ \o G]
      /\ lost' = [lost EXCEPT ![r] = @ \/ k > room]
  BY <1>1, <1>3, <1>5 DEF AppMessageNoAck
<1> HIDE DEF F, top, room
<1>7. \A i \in 1 .. Len(F) : F[i] \in Frame
  BY <1>3, ElementOfSeq
<1>8. /\ G \in Seq(Frame) /\ Len(G) = (IF top >= 1 THEN top ELSE 0)
      /\ \A i \in 1 .. Len(G) : G[i] = F[i] /\ i \in 1 .. k
  BY <1>3, <1>4, <1>7, SubSeqProperties
<1>9. SubSeq(F, k + 1, k) = <<>>
  BY <1>3, <1>4, <1>7, SubSeqProperties, EmptySeq
<1>10. k <= room => G = F
  <2> SUFFICES ASSUME k <= room PROVE G = F
    OBVIOUS
  <2>1. top = k
    BY DEF top
  <2>2. Len(G) = Len(F) /\ \A i \in 1 .. Len(G) : G[i] = F[i]
    BY <1>3, <1>4, <1>8, <2>1
  <2> QED BY <1>3, <1>8, <2>2, SeqEqual
<1> HIDE DEF G
<1>11. /\ appQueue'[n] = <<>> /\ appQueue'[r] = appQueue[r] /\ state' = state
       /\ link'[n] = link[n] /\ link'[r] = link[r] \o G
       /\ lost'[n] = lost[n] /\ lost'[r] = (lost[r] \/ k > room)
  BY <1>2, <1>6, <1>9 DEF TypeOK
<1>12. /\ txSeq'[n] = Wrap(txSeq[n] + k) /\ txSeq'[r] = txSeq[r]
       /\ offered'[n] = t + k /\ offered'[r] = offered[r]
       /\ submitted'[n] = Append(S, m) /\ submitted'[r] = submitted[r]
       /\ UNCHANGED <<lastSeq, packetBuffer, delivered>>
  BY <1>2, <1>6 DEF Submit, TypeOK
<1>13. S \in Seq(Seq(Nat)) /\ t \in Nat /\ delivered[r] \in Seq(Seq(Nat)) /\ Messages(S, t)
  BY <1>2 DEF TypeOK, PlainInv
<1> HIDE DEF S, t
<1>14. PlainInv(n)'
  <2>1. Messages(Append(S, m), t + k)
    BY <1>4, <1>13, MessageJoins
  <2> QED BY <1>2, <1>11, <1>12, <2>1 DEF PlainInv
<1>15. PlainInv(r)'
  <2>1. \A i \in 1 .. k : F[i].type = "data"
    BY <1>3 DEF DataFrame
  <2>2. ASSUME NEW i \in 1 .. Len(link'[r]) PROVE link'[r][i].type = "data"
    <3>1. /\ Len(link'[r]) = Len(link[r]) + Len(G) /\ Len(link[r]) \in Nat /\ Len(G) \in Nat
          /\ link'[r][i] = IF i <= Len(link[r]) THEN link[r][i] ELSE G[i - Len(link[r])]
      <4>1. link[r] \in Seq(Frame) /\ G \in Seq(Frame) /\ link'[r] = link[r] \o G
        BY <1>2, <1>8, <1>11
      <4>2. Len(link'[r]) = Len(link[r]) + Len(G) /\ Len(link[r]) \in Nat /\ Len(G) \in Nat
        BY <4>1, ConcatProperties, LenProperties
      <4> QED BY <4>1, <4>2, ConcatProperties
    <3>2. CASE i <= Len(link[r])
      BY <1>2, <3>1, <3>2 DEF PlainInv
    <3>3. CASE ~(i <= Len(link[r]))
      <4>1. i - Len(link[r]) \in 1 .. Len(G)
        BY <3>1, <3>3
      <4> QED BY <1>8, <2>1, <3>1, <3>3, <4>1
    <3> QED BY <3>2, <3>3
  <2> QED BY <1>2, <1>11, <1>12, <2>2 DEF PlainInv
<1>16. ASSUME ~lost'[r]
       PROVE  Stream(submitted'[n], offered'[n], link'[r], NextNumber(r)', txSeq'[n],
                     delivered'[r], packetBuffer'[r])
  <2>1. ~lost[r] /\ k <= room
    <3>1. ~lost[r] /\ ~(k > room)
      BY <1>11, <1>16, Zenon
    <3>2. k <= room
      BY <1>4, <3>1
    <3> QED BY <3>1, <3>2
  <2>2. Stream(S, t, link[r], NextNumber(r), txSeq[n], delivered[r], packetBuffer[r])
    BY <1>2, <2>1 DEF S, t
  <2>4. Stream(Append(S, m), t + k, link[r] \o F, NextNumber(r), Wrap(txSeq[n] + k),
               delivered[r], packetBuffer[r])
    BY <1>2, <1>13, <2>2, StreamGrows DEF S, t, F
  <2>5. link'[r] = link[r] \o F
    BY <1>10, <1>11, <2>1
  <2> QED BY <1>12, <2>4, <2>5 DEF NextNumber
<1>17. ~lost'[n] => Stream(submitted'[r], offered'[r], link'[n], NextNumber(n)', txSeq'[r],
                           delivered'[n], packetBuffer'[n])
  BY <1>2, <1>11, <1>12 DEF NextNumber
<1> QED BY <1>1, <1>14, <1>15, <1>16, <1>17, StreamsTogether

\* A fragment is received.
LEMMA NoAckData ==
    ASSUME TypeOK, StreamsInv, ~useAck, NEW n \in Node, PhyData(n)
    PROVE  StreamsInv'
<1>1. PICK r : r = Peer(n)
  OBVIOUS
<1>2. /\ r \in Node /\ r # n
      /\ link[n] \in Seq(Frame) /\ link[r] \in Seq(Frame)
      /\ PlainInv(n) /\ PlainInv(r)
      /\ ~lost[r] => Stream(submitted[n], offered[n], link[r], NextNumber(r), txSeq[n],
                            delivered[r], packetBuffer[r])
      /\ ~lost[n] => Stream(submitted[r], offered[r], link[n], NextNumber(n), txSeq[r],
                            delivered[n], packetBuffer[n])
  BY <1>1, Streams
<1> DEFINE f == Head(link[n])
<1>3. /\ link[n] # <<>>
      /\ lastSeq' = [lastSeq EXCEPT ![n] = f.seq]
      /\ link' = [link EXCEPT ![n] = Tail(@), ![r] = @]
      /\ lost' = [lost EXCEPT ![r] = @ \/ FALSE]
      /\ IF lastSeq[n] = f.seq
         THEN UNCHANGED <<accepted, packetBuffer, delivered>>
         ELSE ProcessFragment(n, f)
      /\ UNCHANGED <<state, appQueue, txSeq, submitted, offered>>
  BY <1>1 DEF PhyData, Duplicate
<1>4. /\ f \in Frame /\ f.seq \in SeqNum /\ f.id \in Nat /\ f.frag \in FragBits
      /\ Len(Tail(link[n])) = Len(link[n]) - 1 /\ Len(link[n]) \in Nat
      /\ \A i \in 1 .. Len(Tail(link[n])) :
            Tail(link[n])[i] = link[n][i + 1] /\ i + 1 \in 1 .. Len(link[n])
  <2>1. f \in Frame
    BY <1>2, <1>3, LinkTail
  <2> QED BY <1>2, <1>3, <2>1, LinkTail DEF Frame
<1>5. /\ link'[n] = Tail(link[n]) /\ link'[r] = link[r]
      /\ lost'[n] = lost[n] /\ lost'[r] = lost[r]
      /\ lastSeq'[n] = f.seq /\ lastSeq'[r] = lastSeq[r]
  BY <1>2, <1>3 DEF TypeOK
<1>6. delivered'[r] = delivered[r] /\ packetBuffer'[r] = packetBuffer[r]
  BY <1>2, <1>3 DEF TypeOK, ProcessFragment
<1>7. PlainInv(n)' /\ PlainInv(r)'
  <2>1. \A i \in 1 .. Len(link'[n]) : link'[n][i].type = "data"
    BY <1>2, <1>4, <1>5 DEF PlainInv
  <2> QED BY <1>2, <1>3, <1>5, <2>1 DEF PlainInv
<1>8. ~lost'[r] => Stream(submitted'[n], offered'[n], link'[r], NextNumber(r)', txSeq'[n],
                          delivered'[r], packetBuffer'[r])
  BY <1>2, <1>3, <1>5, <1>6 DEF NextNumber
<1>9. ASSUME ~lost'[n]
      PROVE  Stream(submitted'[r], offered'[r], link'[n], NextNumber(n)', txSeq'[r],
                    delivered'[n], packetBuffer'[n])
  <2> DEFINE S == submitted[r]
             t == offered[r]
             e == NextNumber(n)
             u == txSeq[r]
             dl == delivered[n]
             pb == packetBuffer[n]
             q == link[n]
  <2>1. Stream(S, t, q, e, u, dl, pb)
    BY <1>2, <1>5, <1>9
  <2>2. /\ S \in Seq(Seq(Nat)) /\ t \in Nat /\ dl \in Seq(Seq(Nat)) /\ pb \in Seq(Nat)
        /\ Messages(S, t)
    BY <1>2 DEF TypeOK, PlainInv
  <2>3. lastSeq[n] \in SeqNum \/ lastSeq[n] = -1
    BY DEF TypeOK
  <2>4. e # lastSeq[n]
    <3>1. 0 # -1 /\ -1 \notin SeqNum
      BY SeqAssumption DEF SeqNum
    <3> QED BY <2>3, <3>1, AdvanceProperties DEF NextNumber
  <2>5. NextNumber(n)' = Advance(f.seq)
    <3>1. f.seq # -1
      BY <1>4, SeqAssumption DEF SeqNum
    <3> QED BY <1>5, <3>1 DEF NextNumber
  <2> HIDE DEF S, t, e, u, dl, pb, f, q
  <2>6. /\ f.seq = e
        /\ f.frag = "whole" => Stream(S, t, Tail(q), Advance(e), u, Append(dl, <<f.id>>), pb)
        /\ f.frag = "part" => Stream(S, t, Tail(q), Advance(e), u, dl, Append(pb, f.id))
        /\ f.frag = "end" =>
              Stream(S, t, Tail(q), Advance(e), u, Append(dl, Append(pb, f.id)), <<>>)
    <3>1. q \in Seq(Frame) /\ q # <<>> /\ f = Head(q)
      BY <1>2, <1>3 DEF q, f
    <3> QED BY <2>1, <2>2, <3>1, StreamHead
  <2>7. ProcessFragment(n, f)
    BY <1>3, <2>4, <2>6
  <2>8. \/ /\ f.frag = "whole"
           /\ packetBuffer'[n] = pb
           /\ delivered'[n] = Append(dl, <<f.id>>)
        \/ /\ f.frag = "part"
           /\ packetBuffer'[n] = Append(pb, f.id)
           /\ delivered'[n] = dl
        \/ /\ f.frag = "end"
           /\ packetBuffer'[n] = <<>>
           /\ delivered'[n] = Append(dl, Append(pb, f.id))
    BY <1>4, <2>7 DEF ProcessFragment, TypeOK, FragBits, dl, pb
  <2>9. Stream(S, t, Tail(q), Advance(e), u, delivered'[n], packetBuffer'[n])
    BY <2>6, <2>8
  <2>10. /\ submitted'[r] = S /\ offered'[r] = t /\ txSeq'[r] = u /\ link'[n] = Tail(q)
         /\ NextNumber(n)' = Advance(e)
    BY <1>3, <1>5, <2>5, <2>6 DEF S, t, u, q
  <2> QED BY <2>9, <2>10
<1> QED BY <1>1, <1>7, <1>8, <1>9, StreamsTogether

\* The radio loses a frame: nothing more is said of what it carries to n.
LEMMA NoAckLose ==
    ASSUME TypeOK, StreamsInv, NEW n \in Node, Lose(n)
    PROVE  StreamsInv'
<1>1. PICK r : r = Peer(n)
  OBVIOUS
<1>2. /\ r \in Node /\ r # n
      /\ link[n] \in Seq(Frame)
      /\ PlainInv(n) /\ PlainInv(r)
      /\ ~lost[r] => Stream(submitted[n], offered[n], link[r], NextNumber(r), txSeq[n],
                            delivered[r], packetBuffer[r])
  BY <1>1, Streams
<1>3. /\ link[n] # <<>> /\ link' = [link EXCEPT ![n] = Tail(@)]
      /\ lost' = [lost EXCEPT ![n] = TRUE]
      /\ UNCHANGED <<state, appQueue, txSeq, lastSeq, packetBuffer>>
      /\ UNCHANGED <<submitted, offered, delivered>>
  BY DEF Lose, blockVars
<1>4. /\ link'[n] = Tail(link[n]) /\ link'[r] = link[r]
      /\ lost'[n] /\ lost'[r] = lost[r]
  BY <1>2, <1>3 DEF TypeOK
<1>5. \A i \in 1 .. Len(Tail(link[n])) :
         Tail(link[n])[i] = link[n][i + 1] /\ i + 1 \in 1 .. Len(link[n])
  BY <1>2, <1>3, LinkTail
<1>6. \A i \in 1 .. Len(link'[n]) : link'[n][i].type = "data"
  BY <1>2, <1>4, <1>5 DEF PlainInv
<1>7. PlainInv(n)' /\ PlainInv(r)'
  BY <1>2, <1>3, <1>4, <1>6 DEF PlainInv
<1>8. ~lost'[r] => Stream(submitted'[n], offered'[n], link'[r], NextNumber(r)', txSeq'[n],
                          delivered'[r], packetBuffer'[r])
  BY <1>2, <1>3, <1>4 DEF NextNumber
<1> QED BY <1>1, <1>4, <1>7, <1>8, StreamsTogether

\* NoAckInv is inductive.
LEMMA NoAckStep ==
    ASSUME NoAckInv, TypeOK', [Next]_vars
    PROVE  NoAckInv'
<1> SUFFICES ASSUME ~useAck PROVE StreamsInv'
  BY ParameterKept DEF NoAckInv
<1>1. TypeOK /\ StreamsInv
  BY DEF NoAckInv
<1>2. \A n \in Node : state[n] = "idle"
  BY <1>1 DEF StreamsInv, PlainInv
<1>3. ASSUME NEW n \in Node, AppMessage(n) \/ AppBeyondBound(n) PROVE StreamsInv'
  BY <1>1, <1>2, <1>3, NoAckApp DEF AppMessage, AppMessageIdle, AppMessageWaiting, AppBeyondBound
<1>4. ASSUME NEW n \in Node, PhyData(n) PROVE StreamsInv'
  BY <1>1, <1>4, NoAckData
<1>5. ASSUME NEW n \in Node, PhyAck(n) PROVE FALSE
  <2>1. link[n] # <<>> /\ Head(link[n]).type = "ack"
    BY <1>5 DEF PhyAck
  <2>2. link[n] \in Seq(Frame) /\ PlainInv(n)
    BY <1>1 DEF TypeOK, StreamsInv
  <2>3. Head(link[n]) = link[n][1] /\ 1 \in 1 .. Len(link[n])
    BY <2>1, <2>2, LinkTail
  <2> QED BY <2>1, <2>2, <2>3 DEF PlainInv
<1>6. ASSUME NEW n \in Node, Lose(n) PROVE StreamsInv'
  BY <1>1, <1>6, NoAckLose
<1>7. CASE UNCHANGED vars
  BY <1>1, <1>7 DEF vars, blockVars, history, StreamsInv, PlainInv, StreamInv, NextNumber
<1> QED BY <1>3, <1>4, <1>5, <1>6, <1>7 DEF Next, PhyMessage

\* Without acknowledgements and on a radio that has lost nothing so far, the
\* messages are delivered intact and in order, in both directions at once.
THEOREM PlainDelivery == Spec => []IntactUnlessLost
<1>1. Init => NoAckInv
  BY NoAckInit
<1>2. NoAckInv /\ TypeOK' /\ [Next]_vars => NoAckInv'
  BY NoAckStep
<1>3. NoAckInv => IntactUnlessLost
  BY DEF NoAckInv, StreamsInv, StreamInv, Stream, Reassembled, IntactUnlessLost
<1> QED BY <1>1, <1>2, <1>3, TypeCorrect, PTL DEF Spec
=============================================================================
