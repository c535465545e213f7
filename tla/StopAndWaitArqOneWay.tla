------------------------ MODULE StopAndWaitArqOneWay ------------------------
(***************************************************************************)
(* While only one node talks, StopAndWaitArq transfers every fragment       *)
(* exactly once and in order, for any number of sequence numbers from two   *)
(* on, any radio capacity and any losses.                                   *)
(*                                                                          *)
(* The argument: s has at most one fragment outstanding (number cur), so    *)
(* everything on the air concerns cur or cur - 1; the radio keeps order, so *)
(* on either link nothing about cur - 1 follows something about cur; and    *)
(* two neighbouring fragments never have the same sequence number.          *)
(*                                                                          *)
(* Every frame that carries a fragment keeps the fragment bits of its place *)
(* in its message, so the peer that processes the fragments in order cuts   *)
(* them where the sender did: the block implements ReliableTransfer.        *)
(***************************************************************************)
EXTENDS StopAndWaitArqProofs

\* r has nothing to send and nothing addresses s but acknowledgements.
QuietInv(s, r) ==
    /\ state[r] = "idle" /\ appQueue[r] = <<>> /\ lastTx[r].id = 0
    /\ accepted[s] = <<>> /\ arrived[s] = {}

\* The sender; before the first fragment nothing is on the air.
SendInv(s, r) ==
    /\ SenderInv(s)
    /\ Cur(s) = 0 => link[s] = <<>> /\ link[r] = <<>>

\* The receiver has accepted 1, 2, ... up to cur - 1 or cur.
RecvInv(s, r) ==
    LET n == Len(accepted[r]) IN
    /\ accepted[r] = [i \in 1 .. n |-> i]
    /\ arrived[r] = 1 .. n
    /\ n = Cur(s) \/ n = Cur(s) - 1
    /\ state[s] = "idle" => n = Cur(s)
    /\ n = 0 => lastSeq[r] = -1
    /\ n > 0 => lastSeq[r] \in SeqNum
    /\ n > 0 /\ n = Cur(s) => lastSeq[r] = lastTx[s].seq
    /\ n > 0 /\ n # Cur(s) => Advance(lastSeq[r]) = lastTx[s].seq

\* Data towards r: fragment cur - 1 or cur, in order, none older than accepted.
DataInv(s, r) ==
    \A i \in 1 .. Len(link[r]) :
        LET f == link[r][i] IN
        /\ f.type = "data" /\ f.id >= 1 /\ f.id >= Len(accepted[r])
        /\ \/ f.id = Cur(s) /\ f.seq = lastTx[s].seq
           \/ f.id = Cur(s) - 1 /\ Advance(f.seq) = lastTx[s].seq
        /\ \A j \in i .. Len(link[r]) : link[r][j].id >= f.id

\* Acknowledgements towards s: of cur - 1 or cur, in order, of cur only if
\* it has been accepted.
AckInv(s, r) ==
    \A i \in 1 .. Len(link[s]) :
        LET f == link[s][i] IN
        /\ f.type = "ack"
        /\ f.seq = lastTx[s].seq \/ Advance(f.seq) = lastTx[s].seq
        /\ f.seq = lastTx[s].seq =>
              /\ Len(accepted[r]) = Cur(s)
              /\ \A j \in i .. Len(link[s]) : link[s][j].seq = lastTx[s].seq
        /\ state[s] = "idle" => f.seq = lastTx[s].seq

OneWayInv(s, r) ==
    TypeOK /\ QuietInv(s, r) /\ SendInv(s, r) /\ RecvInv(s, r)
           /\ DataInv(s, r) /\ AckInv(s, r)

-----------------------------------------------------------------------------
(* What the links carry. *)

\* A new fragment goes out when everything before it has been accepted and
\* acknowledged: the old frames on both links now belong to its predecessor.
LEMMA NewFragmentOnAir ==
    ASSUME NEW s \in Node, NEW r \in Node, OneWayInv(s, r),
           Len(accepted[r]) = Cur(s),
           NEW h \in Frame, h.type = "data", h.id = Cur(s) + 1, h.seq = Expected(s),
           lastTx'[s] = h, state'[s] = "wait",
           link'[r] = OnAir(link[r], h),
           \A i \in 1 .. Len(link'[s]) : /\ link'[s][i].type = "ack"
                                         /\ link'[s][i].seq = lastTx[s].seq
                                         /\ Cur(s) > 0,
           accepted'[r] = accepted[r], arrived'[r] = arrived[r],
           lastSeq'[r] = lastSeq[r]
    PROVE  RecvInv(s, r)' /\ DataInv(s, r)' /\ AckInv(s, r)'
<1>1. /\ Cur(s) \in Nat /\ lastTx[s].seq \in SeqNum /\ h.seq \in SeqNum
      /\ link[r] \in Seq(Frame) /\ Len(link[r]) \in Nat
  <2>1. h.seq \in SeqNum /\ TypeOK
    BY DEF OneWayInv, Frame
  <2> QED BY <2>1, NodeTypes DEF Cur
<1>2. Cur(s) > 0 => h.seq = Advance(lastTx[s].seq) /\ h.seq # lastTx[s].seq
  BY <1>1, AdvanceProperties DEF Expected
<1>3. RecvInv(s, r)'
  BY <1>1, <1>2 DEF OneWayInv, RecvInv, Cur
<1>4. \A i \in 1 .. Len(link[r]) :
        /\ link[r][i].type = "data" /\ link[r][i].id >= 1
        /\ link[r][i].id = Cur(s) /\ link[r][i].seq = lastTx[s].seq
  <2> SUFFICES ASSUME NEW i \in 1 .. Len(link[r])
               PROVE  /\ link[r][i].type = "data" /\ link[r][i].id >= 1
                      /\ link[r][i].id = Cur(s) /\ link[r][i].seq = lastTx[s].seq
    OBVIOUS
  <2>1. link[r][i].id \in Nat
    BY NodeTypes DEF OneWayInv
  <2> QED BY <1>1, <2>1 DEF OneWayInv, DataInv
<1>5. DataInv(s, r)'
  <2>1. CASE link'[r] = link[r]
    <3>1. \A i \in 1 .. Len(link[r]) :
            /\ link[r][i].type = "data" /\ link[r][i].id >= 1
            /\ link[r][i].id = lastTx'[s].id - 1
            /\ Advance(link[r][i].seq) = lastTx'[s].seq
            /\ link[r][i].id >= Len(accepted'[r])
      BY <1>1, <1>2, <1>4
    <3>2. \A i \in 1 .. Len(link[r]) : \A j \in i .. Len(link[r]) :
            link[r][j].id >= link[r][i].id
      BY <1>1, <1>4
    <3> QED BY <2>1, <3>1, <3>2 DEF DataInv, Cur
  <2>2. CASE link'[r] = Append(link[r], h)
    <3>1. /\ Len(link'[r]) = Len(link[r]) + 1
          /\ \A i \in 1 .. Len(link[r]) : link'[r][i] = link[r][i]
          /\ link'[r][Len(link[r]) + 1] = h
      BY <1>1, <2>2, AppendProperties
    <3> SUFFICES ASSUME NEW i \in 1 .. Len(link'[r])
                 PROVE  LET f == link'[r][i] IN
                        /\ f.type = "data" /\ f.id >= 1 /\ f.id >= Len(accepted'[r])
                        /\ \/ f.id = lastTx'[s].id /\ f.seq = lastTx'[s].seq
                           \/ f.id = lastTx'[s].id - 1
                              /\ Advance(f.seq) = lastTx'[s].seq
                        /\ \A j \in i .. Len(link'[r]) : link'[r][j].id >= f.id
      BY DEF DataInv, Cur
    <3>2. CASE i \in 1 .. Len(link[r])
      <4>1. /\ link'[r][i] = link[r][i]
            /\ link[r][i].type = "data" /\ link[r][i].id >= 1
            /\ link[r][i].id = Cur(s) /\ link[r][i].seq = lastTx[s].seq
        BY <3>1, <1>4, <3>2
      <4>2. \A j \in i .. Len(link'[r]) : link'[r][j].id >= Cur(s)
        BY <1>1, <1>4, <3>1, <3>2
      <4> QED BY <1>1, <1>2, <4>1, <4>2
    <3>3. CASE i = Len(link[r]) + 1
      BY <1>1, <3>1, <3>3
    <3> QED BY <1>1, <3>1, <3>2, <3>3
  <2> QED BY <2>1, <2>2 DEF OnAir
<1>6. AckInv(s, r)'
  BY <1>1, <1>2 DEF AckInv, Cur
<1> QED BY <1>3, <1>5, <1>6

\* The outstanding fragment goes out again.
LEMMA RetransmissionOnAir ==
    ASSUME NEW s \in Node, NEW r \in Node, OneWayInv(s, r), Cur(s) > 0,
           link'[r] = OnAir(link[r], lastTx[s]),
           lastTx'[s] = lastTx[s], accepted'[r] = accepted[r]
    PROVE  DataInv(s, r)'
<1> DEFINE h == lastTx[s]
<1>1. /\ Cur(s) \in Nat /\ h \in Frame /\ h.type = "data" /\ h.id = Cur(s)
      /\ link[r] \in Seq(Frame) /\ Len(link[r]) \in Nat /\ Len(accepted[r]) \in Nat
      /\ Len(accepted[r]) <= Cur(s)
  <2>1. TypeOK /\ SendInv(s, r) /\ RecvInv(s, r)
    BY DEF OneWayInv
  <2> QED BY <2>1, NodeTypes DEF Cur, SendInv, SenderInv, RecvInv
<1>2. \A i \in 1 .. Len(link[r]) : link[r][i].id \in Nat /\ link[r][i].id <= Cur(s)
  <2> SUFFICES ASSUME NEW i \in 1 .. Len(link[r])
               PROVE  link[r][i].id \in Nat /\ link[r][i].id <= Cur(s)
    OBVIOUS
  <2>1. link[r][i].id \in Nat
    BY NodeTypes DEF OneWayInv
  <2> QED BY <1>1, <2>1 DEF OneWayInv, DataInv
<1>3. DataInv(s, r)
  BY DEF OneWayInv
<1>4. CASE link'[r] = link[r]
  BY <1>3, <1>4 DEF DataInv, Cur
<1>5. CASE link'[r] = Append(link[r], h)
  <2>1. /\ Len(link'[r]) = Len(link[r]) + 1
        /\ \A i \in 1 .. Len(link[r]) : link'[r][i] = link[r][i]
        /\ link'[r][Len(link[r]) + 1] = h
    BY <1>1, <1>5, AppendProperties
  <2> SUFFICES ASSUME NEW i \in 1 .. Len(link'[r])
               PROVE  LET f == link'[r][i] IN
                      /\ f.type = "data" /\ f.id >= 1 /\ f.id >= Len(accepted[r])
                      /\ \/ f.id = Cur(s) /\ f.seq = lastTx[s].seq
                         \/ f.id = Cur(s) - 1 /\ Advance(f.seq) = lastTx[s].seq
                      /\ \A j \in i .. Len(link'[r]) : link'[r][j].id >= f.id
    BY DEF DataInv, Cur
  <2>2. CASE i \in 1 .. Len(link[r])
    <3>1. \A j \in i .. Len(link'[r]) : link'[r][j].id >= link[r][i].id
      <4> SUFFICES ASSUME NEW j \in i .. Len(link'[r])
                   PROVE  link'[r][j].id >= link[r][i].id
        OBVIOUS
      <4>1. CASE j \in i .. Len(link[r])
        <5>1. link'[r][j] = link[r][j]
          BY <2>1, <2>2, <4>1
        <5> QED BY <1>3, <2>2, <4>1, <5>1 DEF DataInv
      <4>2. CASE j = Len(link[r]) + 1
        BY <1>1, <1>2, <2>1, <2>2, <4>2
      <4> QED BY <1>1, <2>1, <2>2, <4>1, <4>2
    <3> QED BY <1>3, <2>1, <2>2, <3>1 DEF DataInv
  <2>3. CASE i = Len(link[r]) + 1
    BY <1>1, <2>1, <2>3
  <2> QED BY <1>1, <2>1, <2>2, <2>3
<1> QED BY <1>4, <1>5 DEF OnAir

\* The first frame towards r leaves the link, received or lost.
LEMMA DataLeaves ==
    ASSUME NEW s \in Node, NEW r \in Node, OneWayInv(s, r), link[r] # <<>>,
           link'[r] = Tail(link[r]), lastTx'[s] = lastTx[s],
           Len(accepted'[r]) \in Nat, Len(accepted'[r]) <= Head(link[r]).id
    PROVE  DataInv(s, r)'
<1>1. /\ link[r] \in Seq(Frame) /\ Len(link[r]) \in Nat /\ Len(link[r]) >= 1
      /\ Len(link'[r]) = Len(link[r]) - 1
      /\ \A i \in 1 .. Len(link'[r]) : link'[r][i] = link[r][i + 1]
      /\ Head(link[r]) = link[r][1]
      /\ \A i \in 1 .. Len(link[r]) : link[r][i].id \in Nat
  <2>1. link[r] \in Seq(Frame) /\ \A i \in 1 .. Len(link[r]) : link[r][i].id \in Nat
    BY NodeTypes DEF OneWayInv
  <2> QED BY <2>1, HeadTailProperties
<1>2. DataInv(s, r)
  BY DEF OneWayInv
<1> SUFFICES ASSUME NEW i \in 1 .. Len(link'[r])
             PROVE  LET f == link'[r][i] IN
                    /\ f.type = "data" /\ f.id >= 1 /\ f.id >= Len(accepted'[r])
                    /\ \/ f.id = Cur(s) /\ f.seq = lastTx[s].seq
                       \/ f.id = Cur(s) - 1 /\ Advance(f.seq) = lastTx[s].seq
                    /\ \A j \in i .. Len(link'[r]) : link'[r][j].id >= f.id
  BY DEF DataInv, Cur
<1>3. /\ i + 1 \in 1 .. Len(link[r]) /\ link'[r][i] = link[r][i + 1]
      /\ link[r][1].id \in Nat /\ link[r][i + 1].id \in Nat
      /\ link[r][i + 1].id >= link[r][1].id
  <2>1. i + 1 \in 1 .. Len(link[r]) /\ 1 \in 1 .. Len(link[r])
    BY <1>1
  <2>2. i + 1 \in 1 .. Len(link[r])
    BY <2>1
  <2>3. link[r][i + 1].id >= link[r][1].id
    BY <1>2, <2>1, <2>2 DEF DataInv
  <2> QED BY <1>1, <2>1, <2>3
<1>4. \A j \in i .. Len(link'[r]) : link'[r][j].id >= link[r][i + 1].id
  <2> SUFFICES ASSUME NEW j \in i .. Len(link'[r])
               PROVE  link'[r][j].id >= link[r][i + 1].id
    OBVIOUS
  <2>1. j + 1 \in i + 1 .. Len(link[r]) /\ link'[r][j] = link[r][j + 1]
    BY <1>1, <1>3
  <2> QED BY <1>2, <1>3, <2>1 DEF DataInv
<1>5. link'[r][i].id >= Len(accepted'[r])
  BY <1>1, <1>3
<1> QED BY <1>2, <1>3, <1>4, <1>5 DEF DataInv

\* The first frame towards s leaves the link.
LEMMA AckLeaves ==
    ASSUME NEW s \in Node, NEW r \in Node, OneWayInv(s, r), link[s] # <<>>,
           link'[s] = Tail(link[s]), lastTx'[s] = lastTx[s],
           accepted'[r] = accepted[r],
           state'[s] = state[s] \/ Head(link[s]).seq = lastTx[s].seq
    PROVE  AckInv(s, r)'
<1>1. /\ link[s] \in Seq(Frame) /\ Len(link[s]) \in Nat /\ Len(link[s]) >= 1
      /\ Len(link'[s]) = Len(link[s]) - 1
      /\ \A i \in 1 .. Len(link'[s]) : link'[s][i] = link[s][i + 1]
      /\ Head(link[s]) = link[s][1]
  <2>1. link[s] \in Seq(Frame)
    BY NodeTypes DEF OneWayInv
  <2> QED BY <2>1, HeadTailProperties
<1>2. AckInv(s, r)
  BY DEF OneWayInv
<1> SUFFICES ASSUME NEW i \in 1 .. Len(link'[s])
             PROVE  LET f == link'[s][i] IN
                    /\ f.type = "ack"
                    /\ f.seq = lastTx[s].seq \/ Advance(f.seq) = lastTx[s].seq
                    /\ f.seq = lastTx[s].seq =>
                          /\ Len(accepted[r]) = Cur(s)
                          /\ \A j \in i .. Len(link'[s]) :
                                link'[s][j].seq = lastTx[s].seq
                    /\ state'[s] = "idle" => f.seq = lastTx[s].seq
  BY DEF AckInv, Cur
<1>3. /\ i + 1 \in 1 .. Len(link[s]) /\ 1 \in 1 .. Len(link[s])
      /\ i + 1 \in 1 .. Len(link[s]) /\ link'[s][i] = link[s][i + 1]
  BY <1>1
<1>4. ASSUME link'[s][i].seq = lastTx[s].seq
      PROVE  \A j \in i .. Len(link'[s]) : link'[s][j].seq = lastTx[s].seq
  <2> SUFFICES ASSUME NEW j \in i .. Len(link'[s])
               PROVE  link'[s][j].seq = lastTx[s].seq
    OBVIOUS
  <2>1. j + 1 \in i + 1 .. Len(link[s]) /\ link'[s][j] = link[s][j + 1]
    BY <1>1, <1>3
  <2> QED BY <1>2, <1>3, <1>4, <2>1 DEF AckInv
<1>5. ASSUME Head(link[s]).seq = lastTx[s].seq
      PROVE  link'[s][i].seq = lastTx[s].seq
  BY <1>1, <1>2, <1>3, <1>5 DEF AckInv
<1> QED BY <1>2, <1>3, <1>4, <1>5 DEF AckInv

\* r acknowledges the data frame it received.
LEMMA AckJoins ==
    ASSUME NEW s \in Node, NEW r \in Node, OneWayInv(s, r), NEW x \in SeqNum,
           link'[s] = OnAir(link[s], AckFrame(x)),
           lastTx'[s] = lastTx[s], state'[s] = state[s],
           Len(accepted[r]) = Cur(s) => Len(accepted'[r]) = Cur(s),
           \/ x = lastTx[s].seq /\ Len(accepted'[r]) = Cur(s)
           \/ Advance(x) = lastTx[s].seq /\ Len(accepted[r]) # Cur(s)
    PROVE  AckInv(s, r)'
<1> DEFINE h == AckFrame(x)
<1>1. /\ link[s] \in Seq(Frame) /\ Len(link[s]) \in Nat
      /\ h \in Frame /\ h.type = "ack" /\ h.seq = x /\ lastTx[s].seq \in SeqNum
  BY NodeTypes, FrameTypes DEF OneWayInv, AckFrame
<1>2. AckInv(s, r) /\ (state[s] = "idle" => Len(accepted[r]) = Cur(s))
  BY DEF OneWayInv, RecvInv
<1> HIDE DEF h
<1>3. CASE link'[s] = link[s]
  BY <1>2, <1>3 DEF AckInv, Cur
<1>4. CASE link'[s] = Append(link[s], h)
  <2>1. /\ Len(link'[s]) = Len(link[s]) + 1
        /\ \A i \in 1 .. Len(link[s]) : link'[s][i] = link[s][i]
        /\ link'[s][Len(link[s]) + 1] = h
    BY <1>1, <1>4, AppendProperties
  <2> SUFFICES ASSUME NEW i \in 1 .. Len(link'[s])
               PROVE  LET f == link'[s][i] IN
                      /\ f.type = "ack"
                      /\ f.seq = lastTx[s].seq \/ Advance(f.seq) = lastTx[s].seq
                      /\ f.seq = lastTx[s].seq =>
                            /\ Len(accepted'[r]) = Cur(s)
                            /\ \A j \in i .. Len(link'[s]) :
                                  link'[s][j].seq = lastTx[s].seq
                      /\ state'[s] = "idle" => f.seq = lastTx[s].seq
    BY DEF AckInv, Cur
  <2>2. CASE i \in 1 .. Len(link[s])
    <3>1. ASSUME link[s][i].seq = lastTx[s].seq
          PROVE  /\ Len(accepted'[r]) = Cur(s)
                 /\ \A j \in i .. Len(link'[s]) : link'[s][j].seq = lastTx[s].seq
      <4>1. /\ Len(accepted[r]) = Cur(s)
            /\ \A j \in i .. Len(link[s]) : link[s][j].seq = lastTx[s].seq
        BY <1>2, <2>2, <3>1 DEF AckInv
      <4>2. x = lastTx[s].seq
        BY <4>1
      <4> QED BY <1>1, <2>1, <2>2, <4>1, <4>2
    <3> QED BY <1>2, <2>1, <2>2, <3>1 DEF AckInv
  <2>3. CASE i = Len(link[s]) + 1
    BY <1>1, <1>2, <2>1, <2>3, AdvanceProperties
  <2> QED BY <1>1, <2>1, <2>2, <2>3
<1> QED BY <1>3, <1>4 DEF OnAir, h

-----------------------------------------------------------------------------
(* The invariant and the theorem. *)

\* One node talks, with acknowledgements.
OneTalker(s, r) ==
    /\ s \in Node /\ r \in Node /\ s # r
    /\ Talkers = {s} /\ AckModes = {TRUE}

\* The two nodes are the peers of each other.
LEMMA Peers ==
    ASSUME NEW s, NEW r, OneTalker(s, r)
    PROVE  Peer(s) = r /\ Peer(r) = s /\ \A n \in Node : n = s \/ n = r
BY PeerIsNode, NodeAssumption DEF OneTalker

\* The invariant holds initially.
LEMMA OneWayInit ==
    ASSUME NEW s, NEW r, OneTalker(s, r), Init
    PROVE  OneWayInv(s, r)
<1>1. TypeOK
  BY FrameTypes, SeqAssumption DEF Init, TypeOK, SeqNum
<1>2. s \in Node /\ r \in Node
  BY DEF OneTalker
<1>3. \A n \in Node : /\ state[n] = "idle" /\ appQueue[n] = <<>> /\ lastTx[n].id = 0
                      /\ link[n] = <<>> /\ accepted[n] = <<>> /\ arrived[n] = {}
                      /\ offered[n] = 0 /\ txSeq[n] = 0 /\ lastSeq[n] = -1
  BY DEF Init, NoFrame, AckFrame
<1>4. QuietInv(s, r) /\ DataInv(s, r) /\ AckInv(s, r)
  BY <1>2, <1>3 DEF QuietInv, DataInv, AckInv
<1>5. SendInv(s, r)
  BY <1>2, <1>3 DEF SendInv, SenderInv, Chain, Expected, Cur
<1>6. RecvInv(s, r)
  <2>1. accepted[r] = [i \in 1 .. Len(accepted[r]) |-> i]
    BY <1>2, <1>3
  <2>2. Len(accepted[r]) = 0 /\ arrived[r] = {} /\ 1 .. 0 = {}
    BY <1>2, <1>3
  <2> QED BY <1>2, <1>3, <2>1, <2>2 DEF RecvInv, Cur
<1> QED BY <1>1, <1>4, <1>5, <1>6 DEF OneWayInv

\* An action that touches neither the receiver's record nor the sender's.
LEMMA AppStep ==
    ASSUME NEW s, NEW r, OneTalker(s, r), OneWayInv(s, r), TypeOK',
           NEW n \in Node, AppMessage(n) \/ AppBeyondBound(n)
    PROVE  OneWayInv(s, r)'
<1>1. /\ s \in Node /\ r \in Node /\ s # r /\ Talkers = {s} /\ useAck
      /\ Peer(s) = r
  BY Peers DEF OneTalker, OneWayInv, TypeOK
<1>2. n = s
  BY <1>1 DEF AppMessage, AppMessageIdle, AppMessageWaiting, AppMessageNoAck,
              Submit, AppBeyondBound
<1>3. /\ TypeOK /\ QuietInv(s, r) /\ SendInv(s, r) /\ RecvInv(s, r)
      /\ DataInv(s, r) /\ AckInv(s, r)
  BY DEF OneWayInv
<1>4. ASSUME NEW k \in 1 .. MaxMtus, AppMessageIdle(s, k)
      PROVE  OneWayInv(s, r)'
  <2> DEFINE all == appQueue[s] \o Fragments(s, k)
             t == Wrap(txSeq[s] + k)
  <2>1. /\ all \in Seq(Frame) /\ Len(all) = Len(appQueue[s]) + k /\ all # <<>>
        /\ \A j \in 1 .. Len(all) : all[j].id = Cur(s) + j /\ all[j].type = "data"
        /\ Chain(all, Expected(s), t)
    BY <1>1, <1>3, QueueExtended DEF SendInv
  <2>2. /\ state[s] = "idle" /\ Submit(s, k) /\ SendHead(s, all)
        /\ link' = [link EXCEPT ![r] = OnAir(@, Head(all))]
    BY <1>1, <1>4 DEF AppMessageIdle, Transmit
  <2>3. /\ txSeq'[s] = t /\ offered'[s] = offered[s] + k
        /\ UNCHANGED <<accepted, arrived, lastSeq>>
    BY <1>1, <1>3, <2>2 DEF Submit, TypeOK
  <2> HIDE DEF all, t
  <2>4. Cur(s) \in Nat /\ Len(appQueue[s]) \in Nat /\ k \in Nat
    BY <1>1, <1>3, NodeTypes, MtuAssumption DEF Cur
  <2>5. offered'[s] = Cur(s) + Len(all)
    BY <1>3, <2>1, <2>3, <2>4 DEF SendInv, SenderInv
  <2>6. /\ SendInv(s, r)'
        /\ Head(all) \in Frame /\ Head(all).type = "data"
        /\ Head(all).id = Cur(s) + 1 /\ Head(all).seq = Expected(s)
        /\ lastTx'[s] = Head(all) /\ state'[s] = "wait"
    <3>1. /\ SenderInv(s)' /\ Head(all) \in Frame /\ Head(all).type = "data"
          /\ Head(all).id = Cur(s) + 1 /\ Head(all).seq = Expected(s)
          /\ lastTx'[s] = Head(all) /\ state'[s] = "wait"
      BY <1>1, <1>3, <2>1, <2>2, <2>3, <2>5, HeadBecomesCur
    <3>2. Cur(s) \in Nat
      BY <1>1, <1>3, NodeTypes DEF Cur
    <3>3. lastTx'[s].id # 0
      BY <3>1, <3>2
    <3> QED BY <3>1, <3>3 DEF SendInv, Cur
  <2>7. Len(accepted[r]) = Cur(s)
    BY <1>3, <2>2 DEF RecvInv
  <2>8. link'[r] = OnAir(link[r], Head(all)) /\ link'[s] = link[s]
    BY <1>1, <1>3, <2>2 DEF TypeOK
  <2>9. \A i \in 1 .. Len(link'[s]) : /\ link'[s][i].type = "ack"
                                      /\ link'[s][i].seq = lastTx[s].seq
                                      /\ Cur(s) > 0
    BY <1>3, <2>2, <2>4, <2>8 DEF AckInv, SendInv, SenderInv
  <2>10. RecvInv(s, r)' /\ DataInv(s, r)' /\ AckInv(s, r)'
    BY <1>1, <2>3, <2>6, <2>7, <2>8, <2>9, NewFragmentOnAir
  <2>11. QuietInv(s, r)'
    BY <1>1, <1>3, <2>2, <2>3 DEF QuietInv, SendHead, TypeOK
  <2> QED BY <2>6, <2>10, <2>11 DEF OneWayInv
<1>5. ASSUME NEW k \in 1 .. MaxMtus, AppMessageWaiting(s, k)
      PROVE  OneWayInv(s, r)'
  <2> DEFINE all == appQueue[s] \o Fragments(s, k)
  <2>1. /\ all \in Seq(Frame) /\ Len(all) = Len(appQueue[s]) + k /\ all # <<>>
        /\ \A j \in 1 .. Len(all) : all[j].id = Cur(s) + j /\ all[j].type = "data"
        /\ Chain(all, Expected(s), Wrap(txSeq[s] + k))
    BY <1>1, <1>3, QueueExtended DEF SendInv
  <2>2. /\ state[s] = "wait" /\ Submit(s, k)
        /\ appQueue' = [appQueue EXCEPT ![s] = all]
        /\ \/ link' = [link EXCEPT ![r] = OnAir(@, lastTx[s])]
           \/ link' = link
        /\ UNCHANGED <<state, lastTx, currSeq>>
    BY <1>1, <1>5 DEF AppMessageWaiting, Transmit
  <2>3. /\ txSeq'[s] = Wrap(txSeq[s] + k) /\ offered'[s] = offered[s] + k
        /\ UNCHANGED <<accepted, arrived, lastSeq>>
    BY <1>1, <1>3, <2>2 DEF Submit, TypeOK
  <2> HIDE DEF all
  <2>4. Cur(s) \in Nat /\ Len(appQueue[s]) \in Nat /\ k \in Nat /\ Cur(s) # 0
    BY <1>1, <1>3, <2>2, NodeTypes, MtuAssumption DEF Cur, SendInv, SenderInv
  <2>5. offered'[s] = Cur(s) + Len(all)
    BY <1>3, <2>1, <2>3, <2>4 DEF SendInv, SenderInv
  <2>6. appQueue'[s] = all /\ appQueue'[r] = appQueue[r]
    BY <1>1, <1>3, <2>2 DEF TypeOK
  <2>7. SendInv(s, r)'
    BY <1>3, <2>1, <2>2, <2>3, <2>4, <2>5, <2>6 DEF SendInv, SenderInv, Cur, Expected
  <2>8. QuietInv(s, r)' /\ RecvInv(s, r)'
    BY <1>3, <2>2, <2>3, <2>6 DEF QuietInv, RecvInv, Cur
  <2>9. link'[s] = link[s] /\ (link'[r] = link[r] \/ link'[r] = OnAir(link[r], lastTx[s]))
    BY <1>1, <1>3, <2>2 DEF TypeOK
  <2>10. AckInv(s, r)'
    BY <1>3, <2>2, <2>3, <2>9 DEF AckInv, Cur
  <2>11. DataInv(s, r)'
    <3>1. CASE link'[r] = link[r]
      BY <1>3, <2>2, <2>3, <3>1 DEF DataInv, Cur
    <3>2. CASE link'[r] = OnAir(link[r], lastTx[s])
      BY <1>1, <2>2, <2>3, <2>4, <3>2, RetransmissionOnAir
    <3> QED BY <2>9, <3>1, <3>2
  <2> QED BY <2>7, <2>8, <2>10, <2>11 DEF OneWayInv
<1>6. ASSUME AppBeyondBound(s) PROVE OneWayInv(s, r)'
  <2>1. /\ state[s] = "wait"
        /\ link' = [link EXCEPT ![r] = OnAir(@, lastTx[s])]
        /\ UNCHANGED <<state, appQueue, lastTx, currSeq, txSeq, lastSeq>>
        /\ UNCHANGED <<offered, arrived, accepted>>
    BY <1>1, <1>6 DEF AppBeyondBound, Transmit, blockVars
  <2>2. Cur(s) \in Nat /\ Cur(s) > 0
    BY <1>1, <1>3, <2>1, NodeTypes DEF Cur, SendInv, SenderInv
  <2>3. link'[s] = link[s] /\ link'[r] = OnAir(link[r], lastTx[s])
    BY <1>1, <1>3, <2>1 DEF TypeOK
  <2>4. DataInv(s, r)'
    BY <1>1, <2>1, <2>2, <2>3, RetransmissionOnAir
  <2>5. AckInv(s, r)' /\ QuietInv(s, r)' /\ RecvInv(s, r)'
    BY <1>3, <2>1, <2>3 DEF AckInv, QuietInv, RecvInv, Cur
  <2>6. SendInv(s, r)'
    BY <1>3, <2>1, <2>2 DEF SendInv, SenderInv, Cur, Expected
  <2> QED BY <2>4, <2>5, <2>6 DEF OneWayInv
<1> QED BY <1>1, <1>2, <1>4, <1>5, <1>6 DEF AppMessage, AppMessageNoAck

\* The frame at the head of the link towards r is a duplicate, or it is the
\* next fragment; the sequence numbers tell which.
LEMMA HeadOfData ==
    ASSUME NEW s, NEW r, OneTalker(s, r), OneWayInv(s, r), link[r] # <<>>
    PROVE  LET f == Head(link[r]) IN
           /\ lastSeq[r] = f.seq => f.id = Len(accepted[r])
           /\ lastSeq[r] # f.seq => f.id = Len(accepted[r]) + 1 /\ f.id = Cur(s)
<1> DEFINE f == Head(link[r])
           m == Len(accepted[r])
<1>1. /\ s \in Node /\ r \in Node
      /\ TypeOK /\ RecvInv(s, r) /\ DataInv(s, r)
  BY DEF OneTalker, OneWayInv
<1>2. /\ f.id \in Nat /\ f.seq \in SeqNum /\ m \in Nat /\ Cur(s) \in Nat
      /\ lastTx[s].seq \in SeqNum /\ f.id >= 1 /\ f.id >= m
      /\ \/ f.id = Cur(s) /\ f.seq = lastTx[s].seq
         \/ f.id = Cur(s) - 1 /\ Advance(f.seq) = lastTx[s].seq
  <2>1. Len(link[r]) \in Nat /\ 1 \in 1 .. Len(link[r]) /\ f = link[r][1]
    BY <1>1, NodeTypes
  <2>2. link[r][1].id \in Nat /\ link[r][1].seq \in SeqNum
    BY <1>1, <2>1, NodeTypes
  <2>3. m \in Nat /\ Cur(s) \in Nat /\ lastTx[s].seq \in SeqNum
    BY <1>1, NodeTypes DEF Cur
  <2> QED BY <1>1, <2>1, <2>2, <2>3 DEF DataInv
<1> HIDE DEF f, m
<1>3. m = Cur(s) \/ m = Cur(s) - 1
  BY <1>1 DEF RecvInv, m
<1>4. /\ lastSeq[r] = f.seq => f.id = m
      /\ lastSeq[r] # f.seq => f.id = m + 1 /\ f.id = Cur(s)
  <2>1. CASE m = 0
    <3>1. lastSeq[r] = -1 /\ f.seq # -1
      BY <1>1, <1>2, <2>1, SeqAssumption DEF RecvInv, m, SeqNum
    <3> QED BY <1>2, <1>3, <2>1, <3>1
  <2>2. CASE m > 0 /\ m = Cur(s)
    <3>1. lastSeq[r] = lastTx[s].seq
      BY <1>1, <2>2 DEF RecvInv, m
    <3> QED BY <1>2, <2>2, <3>1
  <2>3. CASE m > 0 /\ m = Cur(s) - 1
    <3>1. Advance(lastSeq[r]) = lastTx[s].seq /\ lastSeq[r] \in SeqNum
      BY <1>1, <1>2, <2>3 DEF RecvInv, m
    <3> QED BY <1>2, <2>3, <3>1, AdvanceProperties
  <2> QED BY <1>2, <1>3, <2>1, <2>2, <2>3
<1> QED BY <1>4 DEF f, m

\* r receives a fragment: it is the next one or one it has.
LEMMA DataStep ==
    ASSUME NEW s, NEW r, OneTalker(s, r), OneWayInv(s, r), TypeOK',
           NEW n \in Node, PhyData(n)
    PROVE  OneWayInv(s, r)'
<1>1. /\ s \in Node /\ r \in Node /\ s # r /\ useAck
      /\ Peer(s) = r /\ Peer(r) = s /\ n \in {s, r}
  BY Peers DEF OneTalker, OneWayInv, TypeOK
<1>2. /\ TypeOK /\ QuietInv(s, r) /\ SendInv(s, r) /\ RecvInv(s, r)
      /\ DataInv(s, r) /\ AckInv(s, r)
  BY DEF OneWayInv
<1>3. \A m \in Node : link[m] # <<>> =>
        Len(link[m]) \in Nat /\ 1 \in 1 .. Len(link[m]) /\ Head(link[m]) = link[m][1]
  BY <1>2, NodeTypes
<1>4. n = r
  BY <1>1, <1>2, <1>3 DEF PhyData, AckInv
<1> DEFINE f == Head(link[r])
           m == Len(accepted[r])
<1>5. /\ link[r] # <<>>
      /\ lastSeq' = [lastSeq EXCEPT ![r] = f.seq]
      /\ arrived' = [arrived EXCEPT ![r] = @ \union {f.id}]
      /\ link' = [link EXCEPT ![r] = Tail(@), ![s] = OnAir(@, AckFrame(f.seq))]
      /\ UNCHANGED <<state, appQueue, lastTx, currSeq, txSeq, submitted, offered>>
      /\ IF lastSeq[r] = f.seq
         THEN accepted' = accepted
         ELSE accepted' = [accepted EXCEPT ![r] = Append(@, f.id)]
  BY <1>1, <1>4 DEF PhyData, Duplicate, ProcessFragment
<1>6. /\ f.id \in Nat /\ f.seq \in SeqNum /\ m \in Nat /\ Cur(s) \in Nat
      /\ lastTx[s].seq \in SeqNum /\ f.id >= 1 /\ f.id >= m
      /\ \/ f.id = Cur(s) /\ f.seq = lastTx[s].seq
         \/ f.id = Cur(s) - 1 /\ Advance(f.seq) = lastTx[s].seq
  <2>1. /\ 1 \in 1 .. Len(link[r]) /\ f = link[r][1]
        /\ link[r][1].id \in Nat /\ link[r][1].seq \in SeqNum
    BY <1>1, <1>2, <1>3, <1>5, NodeTypes
  <2>2. m \in Nat /\ Cur(s) \in Nat /\ lastTx[s].seq \in SeqNum
    BY <1>1, <1>2, NodeTypes DEF Cur
  <2> QED BY <1>2, <2>1, <2>2 DEF DataInv
<1>7. /\ link'[r] = Tail(link[r]) /\ link'[s] = OnAir(link[s], AckFrame(f.seq))
      /\ lastSeq'[r] = f.seq
      /\ arrived'[r] = arrived[r] \union {f.id}
      /\ accepted'[s] = accepted[s] /\ arrived'[s] = arrived[s]
  <2>1. link'[r] = Tail(link[r]) /\ link'[s] = OnAir(link[s], AckFrame(f.seq))
    BY <1>1, <1>2, <1>5 DEF TypeOK
  <2>2. lastSeq'[r] = f.seq
    BY <1>1, <1>2, <1>5 DEF TypeOK
  <2>3. arrived'[r] = arrived[r] \union {f.id} /\ arrived'[s] = arrived[s]
    BY <1>1, <1>2, <1>5 DEF TypeOK
  <2>4. accepted'[s] = accepted[s]
    <3>1. \/ accepted' = accepted
          \/ accepted' = [accepted EXCEPT ![r] = Append(@, f.id)]
      BY <1>5
    <3> QED BY <1>1, <1>2, <3>1 DEF TypeOK
  <2> QED BY <2>1, <2>2, <2>3, <2>4
<1> HIDE DEF f, m
<1>8. /\ lastSeq[r] = f.seq => f.id = m
      /\ lastSeq[r] # f.seq => f.id = m + 1 /\ f.id = Cur(s)
  BY <1>5, HeadOfData DEF f, m
<1>9. /\ Len(accepted'[r]) = f.id
      /\ accepted'[r] = [i \in 1 .. f.id |-> i]
  <2>1. accepted[r] = [i \in 1 .. m |-> i] /\ accepted[r] \in Seq(Nat)
    BY <1>1, <1>2, NodeTypes DEF RecvInv, m
  <2>2. CASE lastSeq[r] = f.seq
    BY <1>5, <1>8, <2>1, <2>2 DEF m
  <2>3. CASE lastSeq[r] # f.seq
    <3>1. accepted'[r] = Append(accepted[r], f.id) /\ f.id = m + 1
      BY <1>1, <1>2, <1>5, <1>8, <2>3 DEF TypeOK
    <3>2. /\ accepted'[r] \in Seq(Nat) /\ Len(accepted'[r]) = m + 1
          /\ \A i \in 1 .. m : accepted'[r][i] = accepted[r][i]
          /\ accepted'[r][m + 1] = m + 1
      BY <1>6, <2>1, <3>1, AppendProperties DEF m
    <3> DEFINE g == [i \in 1 .. f.id |-> i]
    <3>3. g \in [1 .. f.id -> Nat]
      BY <1>6
    <3>4. g \in Seq(Nat) /\ Len(g) = f.id
      BY <1>6, <3>3, SeqByElements
    <3>5. \A i \in 1 .. f.id : g[i] = i
      OBVIOUS
    <3> HIDE DEF g
    <3>6. \A i \in 1 .. Len(accepted'[r]) : accepted'[r][i] = g[i]
      BY <1>6, <2>1, <3>1, <3>2, <3>5
    <3>7. accepted'[r] = g
      BY <3>1, <3>2, <3>4, <3>6, SeqEqual
    <3> QED BY <3>1, <3>2, <3>7 DEF g
  <2> QED BY <2>2, <2>3
<1>10. f.id <= Cur(s)
  BY <1>6
<1>11. arrived'[r] = 1 .. f.id
  <2>1. arrived[r] = 1 .. m
    BY <1>2 DEF RecvInv, m
  <2> QED BY <1>6, <1>7, <1>8, <2>1
<1>12. RecvInv(s, r)'
  <2>1. f.id > 0 /\ f.id # 0 /\ (f.id = Cur(s) \/ f.id = Cur(s) - 1)
    BY <1>6
  <2>2. state[s] = "idle" => f.id = Cur(s)
    BY <1>2, <1>6, <1>10 DEF RecvInv, m
  <2>3. /\ f.id = Cur(s) => f.seq = lastTx[s].seq
        /\ f.id # Cur(s) => Advance(f.seq) = lastTx[s].seq
    BY <1>6
  <2> QED BY <1>5, <1>6, <1>7, <1>9, <1>11, <2>1, <2>2, <2>3 DEF RecvInv, Cur
<1>13. DataInv(s, r)'
  <2>1. link[r] # <<>> /\ lastTx'[s] = lastTx[s]
    BY <1>5
  <2>2. Len(accepted'[r]) \in Nat /\ Len(accepted'[r]) <= Head(link[r]).id
    BY <1>6, <1>9 DEF f
  <2> QED BY <1>1, <1>7, <2>1, <2>2, DataLeaves
<1>14. AckInv(s, r)'
  <2>1. m = Cur(s) => f.id = Cur(s)
    BY <1>6, <1>10
  <2>2. \/ f.seq = lastTx[s].seq /\ f.id = Cur(s)
        \/ Advance(f.seq) = lastTx[s].seq /\ m # Cur(s)
    BY <1>6
  <2>3. lastTx'[s] = lastTx[s] /\ state'[s] = state[s]
    BY <1>5
  <2>4. Len(accepted[r]) = Cur(s) => Len(accepted'[r]) = Cur(s)
    BY <1>9, <2>1 DEF m
  <2>5. \/ f.seq = lastTx[s].seq /\ Len(accepted'[r]) = Cur(s)
        \/ Advance(f.seq) = lastTx[s].seq /\ Len(accepted[r]) # Cur(s)
    BY <1>9, <2>2 DEF m
  <2>6. f.seq \in SeqNum /\ link'[s] = OnAir(link[s], AckFrame(f.seq))
    BY <1>6, <1>7
  <2> QED BY <1>1, <2>3, <2>4, <2>5, <2>6, AckJoins
<1>15. SendInv(s, r)'
  <2>1. Cur(s) # 0
    BY <1>2, <1>5 DEF SendInv, SenderInv
  <2> QED BY <1>2, <1>5, <2>1 DEF SendInv, SenderInv, Cur, Expected
<1>16. QuietInv(s, r)'
  BY <1>2, <1>5, <1>7 DEF QuietInv
<1> QED BY <1>12, <1>13, <1>14, <1>15, <1>16 DEF OneWayInv

\* s receives an acknowledgement: an old one, or that of cur.
LEMMA AckStep ==
    ASSUME NEW s, NEW r, OneTalker(s, r), OneWayInv(s, r), TypeOK',
           NEW n \in Node, PhyAck(n)
    PROVE  OneWayInv(s, r)'
<1>1. /\ s \in Node /\ r \in Node /\ s # r
      /\ Peer(s) = r /\ Peer(r) = s /\ n \in {s, r}
  BY Peers DEF OneTalker
<1>2. /\ TypeOK /\ QuietInv(s, r) /\ SendInv(s, r) /\ RecvInv(s, r)
      /\ DataInv(s, r) /\ AckInv(s, r)
  BY DEF OneWayInv
<1>3. \A m \in Node : link[m] # <<>> =>
        Len(link[m]) \in Nat /\ 1 \in 1 .. Len(link[m]) /\ Head(link[m]) = link[m][1]
  BY <1>2, NodeTypes
<1>4. n = s
  BY <1>1, <1>2, <1>3 DEF PhyAck, DataInv
<1> DEFINE f == Head(link[s])
           rest == [link EXCEPT ![s] = Tail(@)]
<1>5. /\ link[s] # <<>>
      /\ lastSeq' = [lastSeq EXCEPT ![s] = f.seq]
      /\ UNCHANGED <<txSeq, offered, arrived, accepted>>
      /\ IF f.seq = currSeq[s] /\ appQueue[s] # <<>>
         THEN /\ SendHead(s, appQueue[s])
              /\ link' = [rest EXCEPT ![r] = OnAir(@, Head(appQueue[s]))]
         ELSE /\ state' = [state EXCEPT ![s] =
                              IF f.seq = currSeq[s] THEN "idle" ELSE @]
              /\ link' = rest
              /\ UNCHANGED <<appQueue, lastTx, currSeq>>
  BY <1>1, <1>4 DEF PhyAck, AckMatches, MoreToSend
<1>6. /\ Cur(s) \in Nat /\ Cur(s) > 0 /\ currSeq[s] = lastTx[s].seq
      /\ lastSeq'[r] = lastSeq[r]
      /\ rest[s] = Tail(link[s]) /\ rest[r] = link[r]
  <2>1. Cur(s) \in Nat /\ lastSeq'[r] = lastSeq[r]
    BY <1>1, <1>2, <1>5, NodeTypes DEF Cur, TypeOK
  <2>2. rest[s] = Tail(link[s]) /\ rest[r] = link[r]
    BY <1>1, <1>2 DEF TypeOK
  <2> QED BY <1>2, <1>5, <2>1, <2>2 DEF SendInv, SenderInv
<1>7. f.seq = lastTx[s].seq =>
        /\ Len(accepted[r]) = Cur(s)
        /\ \A i \in 1 .. Len(link[s]) : link[s][i].seq = lastTx[s].seq
  BY <1>1, <1>2, <1>3, <1>5 DEF AckInv
<1>8. CASE f.seq = currSeq[s] /\ appQueue[s] # <<>>
  <2> DEFINE h == Head(appQueue[s])
  <2>1. SendHead(s, appQueue[s]) /\ link' = [rest EXCEPT ![r] = OnAir(@, h)]
    BY <1>5, <1>8
  <2>2. /\ appQueue[s] \in Seq(Frame) /\ Len(appQueue[s]) \in Nat
        /\ \A j \in 1 .. Len(appQueue[s]) :
              appQueue[s][j].id = Cur(s) + j /\ appQueue[s][j].type = "data"
        /\ Chain(appQueue[s], Expected(s), txSeq[s])
        /\ txSeq'[s] = txSeq[s] /\ offered'[s] = Cur(s) + Len(appQueue[s])
    BY <1>1, <1>2, <1>5, NodeTypes DEF SendInv, SenderInv
  <2>3. /\ SendInv(s, r)'
        /\ h \in Frame /\ h.type = "data" /\ h.id = Cur(s) + 1 /\ h.seq = Expected(s)
        /\ lastTx'[s] = h /\ state'[s] = "wait"
    <3>1. /\ SenderInv(s)' /\ h \in Frame /\ h.type = "data"
          /\ h.id = Cur(s) + 1 /\ h.seq = Expected(s)
          /\ lastTx'[s] = h /\ state'[s] = "wait"
      BY <1>1, <1>2, <1>8, <2>1, <2>2, HeadBecomesCur
    <3>2. Cur(s) \in Nat
      BY <1>1, <1>2, NodeTypes DEF Cur
    <3>3. lastTx'[s].id # 0
      BY <3>1, <3>2
    <3> QED BY <3>1, <3>3 DEF SendInv, Cur
  <2> HIDE DEF h
  <2>4. link'[r] = OnAir(link[r], h) /\ link'[s] = Tail(link[s])
    <3>1. rest \in [Node -> Seq(Frame)]
      BY <1>1, <1>2, <1>5, HeadTailProperties DEF TypeOK
    <3> HIDE DEF rest
    <3> QED BY <1>1, <1>6, <2>1, <3>1
  <2>5. \A i \in 1 .. Len(link'[s]) : /\ link'[s][i].type = "ack"
                                      /\ link'[s][i].seq = lastTx[s].seq
                                      /\ Cur(s) > 0
    <3>1. /\ Len(link'[s]) = Len(link[s]) - 1 /\ Len(link[s]) \in Nat
          /\ \A i \in 1 .. Len(link'[s]) : link'[s][i] = link[s][i + 1]
      BY <1>1, <1>2, <1>5, <2>4, NodeTypes, HeadTailProperties
    <3> SUFFICES ASSUME NEW i \in 1 .. Len(link'[s])
                 PROVE  link'[s][i].type = "ack" /\ link'[s][i].seq = lastTx[s].seq
      BY <1>6
    <3>2. i + 1 \in 1 .. Len(link[s]) /\ link'[s][i] = link[s][i + 1]
      BY <3>1
    <3> QED BY <1>2, <1>6, <1>7, <1>8, <3>2 DEF AckInv
  <2>6. Len(accepted[r]) = Cur(s) /\ accepted' = accepted /\ arrived' = arrived
    BY <1>5, <1>6, <1>7, <1>8
  <2>7. RecvInv(s, r)' /\ DataInv(s, r)' /\ AckInv(s, r)'
    BY <1>1, <1>6, <2>3, <2>4, <2>5, <2>6, NewFragmentOnAir
  <2>8. QuietInv(s, r)'
    BY <1>1, <1>2, <2>1, <2>6 DEF QuietInv, SendHead, TypeOK
  <2> QED BY <2>3, <2>7, <2>8 DEF OneWayInv
<1>9. CASE ~(f.seq = currSeq[s] /\ appQueue[s] # <<>>)
  <2>1. /\ state' = [state EXCEPT ![s] = IF f.seq = currSeq[s] THEN "idle" ELSE @]
        /\ link' = rest
        /\ UNCHANGED <<appQueue, lastTx, currSeq, txSeq, offered, arrived, accepted>>
    BY <1>5, <1>9
  <2> HIDE DEF rest
  <2>2. /\ state'[r] = state[r]
        /\ \/ state'[s] = state[s]
           \/ state'[s] = "idle" /\ f.seq = lastTx[s].seq /\ appQueue[s] = <<>>
    BY <1>1, <1>2, <1>6, <1>9, <2>1 DEF TypeOK
  <2>3. AckInv(s, r)'
    BY <1>1, <1>5, <1>6, <2>1, <2>2, AckLeaves
  <2>4. DataInv(s, r)'
    BY <1>2, <1>6, <2>1 DEF DataInv, Cur
  <2>5. QuietInv(s, r)'
    BY <1>2, <2>1, <2>2 DEF QuietInv
  <2>6. RecvInv(s, r)'
    BY <1>2, <1>6, <1>7, <2>1, <2>2 DEF RecvInv, Cur
  <2>7. SendInv(s, r)'
    BY <1>2, <1>6, <2>1, <2>2 DEF SendInv, SenderInv, Cur, Expected
  <2> QED BY <2>3, <2>4, <2>5, <2>6, <2>7 DEF OneWayInv
<1> QED BY <1>8, <1>9

\* The radio loses a frame.
LEMMA LoseStep ==
    ASSUME NEW s, NEW r, OneTalker(s, r), OneWayInv(s, r), TypeOK',
           NEW n \in Node, Lose(n)
    PROVE  OneWayInv(s, r)'
<1>1. s \in Node /\ r \in Node /\ s # r /\ n \in {s, r}
  BY Peers DEF OneTalker
<1>2. /\ TypeOK /\ QuietInv(s, r) /\ SendInv(s, r) /\ RecvInv(s, r)
      /\ DataInv(s, r) /\ AckInv(s, r)
  BY DEF OneWayInv
<1>3. /\ link[n] # <<>> /\ link' = [link EXCEPT ![n] = Tail(@)]
      /\ UNCHANGED <<state, appQueue, lastTx, currSeq, txSeq, lastSeq>>
      /\ UNCHANGED <<offered, arrived, accepted>>
  BY DEF Lose, blockVars
<1>4. QuietInv(s, r)' /\ RecvInv(s, r)'
  BY <1>2, <1>3 DEF QuietInv, RecvInv, Cur
<1>5. Cur(s) # 0
  BY <1>1, <1>2, <1>3 DEF SendInv, SenderInv
<1>6. SendInv(s, r)'
  BY <1>2, <1>3, <1>5 DEF SendInv, SenderInv, Cur, Expected
<1>7. CASE n = s
  <2>1. link[s] # <<>> /\ link'[s] = Tail(link[s]) /\ link'[r] = link[r]
    BY <1>1, <1>2, <1>3, <1>7 DEF TypeOK
  <2>2. AckInv(s, r)'
    BY <1>1, <1>3, <2>1, AckLeaves
  <2>3. DataInv(s, r)'
    BY <1>2, <1>3, <2>1 DEF DataInv, Cur
  <2> QED BY <1>4, <1>6, <2>2, <2>3 DEF OneWayInv
<1>8. CASE n = r
  <2>1. link[r] # <<>> /\ link'[r] = Tail(link[r]) /\ link'[s] = link[s]
    BY <1>1, <1>2, <1>3, <1>8 DEF TypeOK
  <2>2. Len(accepted'[r]) \in Nat /\ Len(accepted'[r]) <= Head(link[r]).id
    <3>1. 1 \in 1 .. Len(link[r]) /\ Head(link[r]) = link[r][1]
      BY <1>1, <1>2, <2>1, NodeTypes
    <3>2. link[r][1].id >= Len(accepted[r]) /\ link[r][1].id \in Nat
      BY <1>1, <1>2, <3>1, NodeTypes DEF DataInv
    <3> QED BY <1>1, <1>2, <1>3, <3>1, <3>2, NodeTypes
  <2>3. DataInv(s, r)'
    BY <1>1, <1>3, <2>1, <2>2, DataLeaves
  <2>4. AckInv(s, r)'
    <3>1. /\ link'[s] = link[s] /\ lastTx'[s] = lastTx[s]
          /\ state'[s] = state[s] /\ accepted'[r] = accepted[r]
      BY <1>3, <2>1
    <3>2. AckInv(s, r)
      BY <1>2
    <3> QED BY <3>1, <3>2 DEF AckInv, Cur
  <2> QED BY <1>4, <1>6, <2>3, <2>4 DEF OneWayInv
<1> QED BY <1>1, <1>7, <1>8

\* OneWayInv is inductive.
LEMMA OneWayStep ==
    ASSUME NEW s, NEW r, OneTalker(s, r), OneWayInv(s, r), TypeOK', [Next]_vars
    PROVE  OneWayInv(s, r)'
<1>1. ASSUME NEW n \in Node, AppMessage(n) \/ AppBeyondBound(n)
      PROVE  OneWayInv(s, r)'
  BY <1>1, AppStep
<1>2. ASSUME NEW n \in Node, PhyData(n) PROVE OneWayInv(s, r)'
  BY <1>2, DataStep
<1>3. ASSUME NEW n \in Node, PhyAck(n) PROVE OneWayInv(s, r)'
  BY <1>3, AckStep
<1>4. ASSUME NEW n \in Node, Lose(n) PROVE OneWayInv(s, r)'
  BY <1>4, LoseStep
<1>5. CASE UNCHANGED vars
  BY <1>5 DEF vars, blockVars, history, OneWayInv, QuietInv, SendInv, SenderInv, RecvInv,
              DataInv, AckInv, Cur, Expected
<1> QED BY <1>1, <1>2, <1>3, <1>4, <1>5 DEF Next, PhyMessage

\* What the invariant says of the fragments: they are processed in order, each
\* once, nothing new is dropped, and what s has finished has been accepted.
LEMMA OneWayImplies ==
    ASSUME NEW s, NEW r, OneTalker(s, r), OneWayInv(s, r)
    PROVE  FragmentsInOrder /\ OnlyDuplicatesDropped /\ AckedIsAccepted
<1>1. /\ s \in Node /\ r \in Node /\ s # r /\ Peer(s) = r /\ Peer(r) = s
      /\ \A n \in Node : n = s \/ n = r
  BY Peers DEF OneTalker
<1>2. /\ TypeOK /\ QuietInv(s, r) /\ RecvInv(s, r)
  BY DEF OneWayInv
<1>3. Cur(s) \in Nat /\ Len(accepted[r]) \in Nat /\ state[s] \in {"idle", "wait"}
  BY <1>1, <1>2, NodeTypes DEF Cur
<1>4. Len(accepted[s]) = 0
  BY <1>2 DEF QuietInv
<1>5. FragmentsInOrder
  <2>1. accepted[s] = [i \in 1 .. Len(accepted[s]) |-> i]
    BY <1>2, <1>4 DEF QuietInv
  <2>2. accepted[r] = [i \in 1 .. Len(accepted[r]) |-> i]
    BY <1>2 DEF RecvInv
  <2> QED BY <1>1, <2>1, <2>2 DEF FragmentsInOrder
<1>6. Accepted(r) = 1 .. Len(accepted[r])
  <2> DEFINE m == Len(accepted[r])
  <2>1. accepted[r] = [i \in 1 .. m |-> i]
    BY <1>2 DEF RecvInv
  <2>2. \A i \in 1 .. m : accepted[r][i] = i
    BY <2>1
  <2> HIDE DEF m
  <2>3. {accepted[r][i] : i \in 1 .. m} = 1 .. m
    BY <2>2
  <2> QED BY <2>3 DEF Accepted, m
<1>7. Accepted(s) = {}
  BY <1>4 DEF Accepted
<1>8. OnlyDuplicatesDropped
  BY <1>1, <1>2, <1>6, <1>7 DEF OnlyDuplicatesDropped, QuietInv, RecvInv
<1>9. Finished(s) \subseteq Accepted(r)
  <2>1. Len(accepted[r]) = Cur(s) \/ Len(accepted[r]) = Cur(s) - 1
    BY <1>2 DEF RecvInv
  <2>2. state[s] = "idle" => Len(accepted[r]) = Cur(s)
    BY <1>2 DEF RecvInv
  <2> QED BY <1>3, <1>6, <2>1, <2>2 DEF Finished, Cur
<1>10. Finished(r) = {}
  BY <1>2 DEF Finished, QuietInv
<1>11. AckedIsAccepted
  BY <1>1, <1>9, <1>10 DEF AckedIsAccepted
<1> QED BY <1>5, <1>8, <1>11

\* While one node talks and uses acknowledgements, its peer processes the
\* fragments in the order they were sent, each exactly once; a fragment is
\* dropped only if it was processed before; and an acknowledged fragment has
\* been accepted.
THEOREM OneWayReliable ==
    ASSUME NEW s, NEW r, OneTalker(s, r)
    PROVE  Spec => [](FragmentsInOrder /\ OnlyDuplicatesDropped /\ AckedIsAccepted)
<1>1. Init => OneWayInv(s, r)
  BY OneWayInit
<1>2. TypeOK' /\ OneWayInv(s, r) /\ [Next]_vars => OneWayInv(s, r)'
  BY OneWayStep
<1>3. OneWayInv(s, r) => FragmentsInOrder /\ OnlyDuplicatesDropped /\ AckedIsAccepted
  BY OneWayImplies
<1>4. Spec => []TypeOK
  BY TypeCorrect
<1> QED BY <1>1, <1>2, <1>3, <1>4, PTL DEF Spec

\* In particular a fragment that the sender has taken for acknowledged was
\* processed by its peer, so the next fragment may be sent.
THEOREM AcknowledgedAccepted ==
    ASSUME NEW s, NEW r, OneTalker(s, r)
    PROVE  Spec => []AckedIsAccepted
BY OneWayReliable, PTL

-----------------------------------------------------------------------------
(* The block implements ReliableTransfer. *)

Items(q) == {q[i] : i \in 1 .. Len(q)}

\* A frame that is taken out of a queue, joins it or leaves the air.
LEMMA ItemsOfQueues ==
    /\ \A q \in Seq(Frame), p \in Seq(Frame) : Items(q \o p) = Items(q) \union Items(p)
    /\ \A q \in Seq(Frame) : q # <<>> => Items(Tail(q)) \subseteq Items(q) /\ Head(q) \in Items(q)
    /\ \A q \in Seq(Frame), f \in Frame : Items(OnAir(q, f)) \subseteq Items(q) \union {f}
<1>1. ASSUME NEW q \in Seq(Frame), NEW p \in Seq(Frame)
      PROVE  Items(q \o p) = Items(q) \union Items(p)
  <2> DEFINE u == q \o p
  <2>1. /\ Len(u) = Len(q) + Len(p) /\ Len(q) \in Nat /\ Len(p) \in Nat
        /\ \A i \in 1 .. Len(q) + Len(p) :
              u[i] = IF i <= Len(q) THEN q[i] ELSE p[i - Len(q)]
    BY ConcatProperties
  <2> HIDE DEF u
  <2>2. ASSUME NEW i \in 1 .. Len(u) PROVE u[i] \in Items(q) \union Items(p)
    <3>1. CASE i <= Len(q)
      BY <2>1, <3>1 DEF Items
    <3>2. CASE ~(i <= Len(q))
      <4>1. u[i] = p[i - Len(q)] /\ i - Len(q) \in 1 .. Len(p)
        BY <2>1, <3>2
      <4> QED BY <4>1 DEF Items
    <3> QED BY <3>1, <3>2
  <2>3. ASSUME NEW i \in 1 .. Len(q) PROVE q[i] \in Items(u)
    <3>1. i \in 1 .. Len(u) /\ u[i] = q[i]
      BY <2>1
    <3> QED BY <3>1 DEF Items
  <2>4. ASSUME NEW i \in 1 .. Len(p) PROVE p[i] \in Items(u)
    <3> DEFINE j == Len(q) + i
    <3>1. j \in 1 .. Len(q) + Len(p) /\ ~(j <= Len(q)) /\ j - Len(q) = i
      BY <2>1
    <3> HIDE DEF j
    <3>2. j \in 1 .. Len(u) /\ u[j] = p[i]
      BY <2>1, <3>1
    <3> QED BY <3>2 DEF Items
  <2> QED BY <2>2, <2>3, <2>4 DEF Items, u
<1>2. ASSUME NEW q \in Seq(Frame), q # <<>>
      PROVE  Items(Tail(q)) \subseteq Items(q) /\ Head(q) \in Items(q)
  <2> DEFINE p == Tail(q)
  <2>1. /\ Len(p) = Len(q) - 1 /\ \A i \in 1 .. Len(p) : p[i] = q[i + 1]
        /\ Len(q) \in Nat /\ Len(q) >= 1 /\ Head(q) = q[1]
    BY <1>2, HeadTailProperties
  <2> HIDE DEF p
  <2>2. ASSUME NEW i \in 1 .. Len(p) PROVE p[i] \in Items(q)
    <3>1. i + 1 \in 1 .. Len(q) /\ p[i] = q[i + 1]
      BY <2>1
    <3> QED BY <3>1 DEF Items
  <2>3. Head(q) \in Items(q)
    BY <2>1 DEF Items
  <2> QED BY <2>2, <2>3 DEF Items, p
<1>3. ASSUME NEW q \in Seq(Frame), NEW f \in Frame
      PROVE  Items(OnAir(q, f)) \subseteq Items(q) \union {f}
  <2> DEFINE p == Append(q, f)
  <2>1. /\ Len(p) = Len(q) + 1 /\ \A i \in 1 .. Len(q) : p[i] = q[i]
        /\ Len(q) \in Nat /\ p[Len(q) + 1] = f
    BY AppendProperties
  <2> HIDE DEF p
  <2>2. Items(p) \subseteq Items(q) \union {f}
    BY <2>1 DEF Items
  <2> QED BY <2>2 DEF OnAir, p
<1> QED BY <1>1, <1>2, <1>3

\* The frames that carry fragments of s: queued, outstanding or on the air.
KnownFrames(s, r) ==
    Items(appQueue[s]) \union Items(link[r]) \union
    (IF Cur(s) > 0 THEN {lastTx[s]} ELSE {})

\* r has reassembled the messages of s as far as it has processed fragments, and
\* the fragment bits of every frame that can still reach it are right.
TransferInv(s, r) ==
    /\ submitted[r] = <<>> /\ delivered[s] = <<>>
    /\ Messages(submitted[s], offered[s])
    /\ Reassembled(submitted[s], delivered[r], packetBuffer[r], Len(accepted[r]))
    /\ \A f \in KnownFrames(s, r) : Marked(submitted[s], f)

\* Nothing has been sent initially.
LEMMA TransferInit ==
    ASSUME NEW s, NEW r, OneTalker(s, r), Init
    PROVE  TransferInv(s, r)
<1>1. s \in Node /\ r \in Node
  BY DEF OneTalker
<1>2. /\ submitted[s] = <<>> /\ submitted[r] = <<>> /\ offered[s] = 0
      /\ delivered[s] = <<>> /\ delivered[r] = <<>> /\ packetBuffer[r] = <<>>
      /\ accepted[r] = <<>> /\ appQueue[s] = <<>> /\ link[r] = <<>> /\ Cur(s) = 0
  BY <1>1 DEF Init, Cur, NoFrame, AckFrame
<1>3. Messages(<<>>, 0) /\ Reassembled(<<>>, <<>>, <<>>, 0)
  BY DEF Messages, Reassembled, Done
<1>4. KnownFrames(s, r) = {}
  BY <1>2 DEF KnownFrames, Items
<1>5. Len(accepted[r]) = 0
  BY <1>2
<1> QED BY <1>2, <1>3, <1>4, <1>5 DEF TransferInv

\* A step that neither submits nor processes anything, and sends known frames.
LEMMA TransferKept ==
    ASSUME NEW s, NEW r, TransferInv(s, r),
           submitted' = submitted, delivered' = delivered, offered' = offered,
           packetBuffer' = packetBuffer, accepted' = accepted,
           KnownFrames(s, r)' \subseteq KnownFrames(s, r)
    PROVE  TransferInv(s, r)'
BY DEF TransferInv

\* The application of s hands over a message.
LEMMA AppTransfer ==
    ASSUME NEW s, NEW r, OneTalker(s, r), OneWayInv(s, r), TransferInv(s, r),
           NEW n \in Node, AppMessage(n)
    PROVE  TransferInv(s, r)' /\ n = s /\ UNCHANGED delivered
           /\ \E k \in 1 .. MaxMtus : Submit(s, k)
<1>1. /\ s \in Node /\ r \in Node /\ s # r /\ Talkers = {s} /\ useAck
      /\ Peer(s) = r /\ TypeOK
  BY Peers DEF OneTalker, OneWayInv, TypeOK
<1>2. PICK k \in 1 .. MaxMtus : AppMessageIdle(n, k) \/ AppMessageWaiting(n, k)
  BY <1>1 DEF AppMessage, AppMessageNoAck
<1>3. n = s /\ Submit(s, k)
  BY <1>1, <1>2 DEF AppMessageIdle, AppMessageWaiting, Submit
<1> DEFINE S == submitted[s]
           t == offered[s]
           m == [i \in 1 .. k |-> t + i]
           F == Fragments(s, k)
           q == appQueue[s]
           all == q \o F
<1>4. /\ submitted' = [submitted EXCEPT ![s] = Append(@, m)]
      /\ offered' = [offered EXCEPT ![s] = @ + k]
      /\ UNCHANGED <<packetBuffer, accepted, delivered>>
  BY <1>3 DEF Submit
<1>5. /\ submitted'[s] = Append(S, m) /\ submitted'[r] = submitted[r]
      /\ offered'[s] = t + k
  BY <1>1, <1>4 DEF TypeOK
<1>6. /\ S \in Seq(Seq(Nat)) /\ t \in Nat /\ k \in Nat /\ k >= 1
      /\ delivered[r] \in Seq(Seq(Nat)) /\ txSeq[s] \in SeqNum
      /\ q \in Seq(Frame) /\ link[r] \in Seq(Frame) /\ lastTx[s] \in Frame
  BY <1>1, MtuAssumption DEF TypeOK
<1>7. F \in Seq(Frame) /\ Len(F) = k
      /\ \A i \in 1 .. k : F[i] = DataFrame(Wrap(txSeq[s] + i - 1), t + i, FragBit(i, k))
  BY <1>1, <1>6, FragmentsTyped
<1>8. m \in Seq(Nat)
  <2>1. m \in [1 .. k -> Nat]
    BY <1>6
  <2> QED BY <1>6, <2>1, SeqByElements
<1>a. Messages(S, t) /\ Reassembled(S, delivered[r], packetBuffer[r], Len(accepted[r]))
      /\ \A f \in KnownFrames(s, r) : Marked(S, f)
  BY DEF TransferInv
<1> HIDE DEF F, S, t
<1>9. /\ Messages(Append(S, m), t + k)
      /\ \A f : Marked(S, f) => Marked(Append(S, m), f)
      /\ \A i \in 1 .. k : \A x : Marked(Append(S, m), DataFrame(x, t + i, FragBit(i, k)))
  <2> DEFINE T == Append(S, m)
  <2>1. T = Append(S, [i \in 1 .. k |-> t + i])
    OBVIOUS
  <2> HIDE DEF T
  <2>2. /\ Messages(T, t + k)
        /\ \A f : Marked(S, f) => Marked(T, f)
        /\ \A i \in 1 .. k : \A x : Marked(T, DataFrame(x, t + i, FragBit(i, k)))
    <3>1. S \in Seq(Seq(Nat)) /\ t \in Nat /\ k \in Nat /\ k >= 1 /\ Messages(S, t)
      BY <1>6, <1>a
    <3>2. Messages(T, t + k)
      BY <2>1, <3>1, MessageJoins
    <3>3. ASSUME NEW f, Marked(S, f) PROVE Marked(T, f)
      BY <1>8, <3>1, <3>3, StillMarked DEF T
    <3>4. \A i \in 1 .. k : \A x : Marked(T, DataFrame(x, t + i, FragBit(i, k)))
      BY <2>1, <3>1, MessageJoins
    <3> QED BY <3>2, <3>3, <3>4
  <2> QED BY <2>2 DEF T
<1>10. Reassembled(Append(S, m), delivered[r], packetBuffer[r], Len(accepted[r]))
  BY <1>6, <1>8, <1>a, StillReassembled
<1> HIDE DEF m, q
<1>11. \A f \in Items(F) : Marked(Append(S, m), f)
  BY <1>7, <1>9 DEF Items
<1>12. all \in Seq(Frame) /\ all # <<>> /\ Items(all) = Items(q) \union Items(F)
  <2>1. all # <<>>
    BY <1>1, QueueTyped DEF q, F
  <2>2. all \in Seq(Frame)
    BY <1>6, <1>7, ConcatProperties
  <2> QED BY <1>6, <1>7, <2>1, <2>2, ItemsOfQueues
<1>13. KnownFrames(s, r)' \subseteq KnownFrames(s, r) \union Items(F)
  <2>1. CASE AppMessageIdle(s, k)
    <3>1. SendHead(s, all) /\ Transmit(s, Head(all))
      BY <2>1 DEF AppMessageIdle, F, q
    <3>2. /\ lastTx'[s] = Head(all) /\ appQueue'[s] = Tail(all)
          /\ link'[r] = OnAir(link[r], Head(all))
      BY <1>1, <3>1 DEF SendHead, Transmit, TypeOK
    <3> HIDE DEF all
    <3>3. /\ Items(Tail(all)) \subseteq Items(all) /\ Head(all) \in Items(all)
          /\ Head(all) \in Frame
      BY <1>12, ItemsOfQueues, HeadTailProperties
    <3>4. Items(link'[r]) \subseteq Items(link[r]) \union Items(all)
      BY <1>6, <3>2, <3>3, ItemsOfQueues
    <3> QED BY <1>12, <3>2, <3>3, <3>4 DEF KnownFrames, q
  <2>2. CASE AppMessageWaiting(s, k)
    <3>1. /\ appQueue' = [appQueue EXCEPT ![s] = all] /\ UNCHANGED lastTx
          /\ Transmit(s, lastTx[s]) \/ link' = link
      BY <2>2 DEF AppMessageWaiting, F, q
    <3>2. appQueue'[s] = all /\ lastTx'[s] = lastTx[s] /\ Cur(s)' = Cur(s)
      BY <1>1, <3>1 DEF TypeOK, Cur
    <3>3. Items(link'[r]) \subseteq Items(link[r]) \union {lastTx[s]}
      <4>1. CASE Transmit(s, lastTx[s])
        <5>1. link'[r] = OnAir(link[r], lastTx[s])
          BY <1>1, <4>1 DEF Transmit, TypeOK
        <5> QED BY <1>6, <5>1, ItemsOfQueues
      <4> QED BY <3>1, <4>1
    <3>4. Cur(s) > 0
      <4>1. Cur(s) # 0 /\ Cur(s) \in Nat
        BY <1>1, <2>2, NodeTypes DEF AppMessageWaiting, OneWayInv, SendInv, SenderInv, Cur
      <4> QED BY <4>1
    <3> HIDE DEF all
    <3> QED BY <1>12, <3>2, <3>3, <3>4 DEF KnownFrames, q
  <2> QED BY <1>2, <1>3, <2>1, <2>2
<1>14. \A f \in KnownFrames(s, r)' : Marked(Append(S, m), f)
  BY <1>9, <1>11, <1>13, <1>a
<1>15. TransferInv(s, r)'
  <2>1. submitted'[s] = Append(S, m) /\ offered'[s] = t + k
    BY <1>5 DEF S, t
  <2>2. submitted'[r] = <<>> /\ delivered'[s] = <<>>
    BY <1>4, <1>5 DEF TransferInv
  <2> QED BY <1>4, <1>9, <1>10, <1>14, <2>1, <2>2 DEF TransferInv
<1> QED BY <1>3, <1>4, <1>15

\* r receives a fragment: it is dropped, or the reassembly goes on.
LEMMA DataTransfer ==
    ASSUME NEW s, NEW r, OneTalker(s, r), OneWayInv(s, r), TransferInv(s, r),
           NEW n \in Node, PhyData(n)
    PROVE  /\ TransferInv(s, r)' /\ UNCHANGED submitted
           /\ \/ UNCHANGED delivered
              \/ /\ Len(delivered[r]) + 1 \in 1 .. Len(submitted[s])
                 /\ delivered' = [delivered EXCEPT ![r] =
                                    Append(@, submitted[s][Len(@) + 1])]
<1>1. /\ s \in Node /\ r \in Node /\ s # r /\ useAck
      /\ Peer(s) = r /\ Peer(r) = s /\ n \in {s, r}
      /\ TypeOK /\ DataInv(s, r) /\ AckInv(s, r)
  BY Peers DEF OneTalker, OneWayInv, TypeOK
<1>2. n = r
  <2>1. ASSUME link[s] # <<>> PROVE Head(link[s]).type = "ack"
    <3>1. 1 \in 1 .. Len(link[s]) /\ Head(link[s]) = link[s][1]
      BY <1>1, <2>1, NodeTypes
    <3> QED BY <1>1, <3>1 DEF AckInv
  <2> QED BY <1>1, <2>1 DEF PhyData
<1> DEFINE f == Head(link[r])
           S == submitted[s]
           t == offered[s]
           dl == delivered[r]
           pb == packetBuffer[r]
           m == Len(accepted[r])
<1>3. /\ link[r] # <<>>
      /\ link' = [link EXCEPT ![r] = Tail(@), ![s] = OnAir(@, AckFrame(f.seq))]
      /\ UNCHANGED <<appQueue, lastTx, submitted, offered>>
      /\ IF lastSeq[r] = f.seq
         THEN UNCHANGED <<accepted, packetBuffer, delivered>>
         ELSE ProcessFragment(r, f)
  BY <1>1, <1>2 DEF PhyData, Duplicate
<1>4. /\ f \in Items(link[r]) /\ f \in Frame /\ Items(Tail(link[r])) \subseteq Items(link[r])
      /\ f.id \in Nat /\ f.frag \in FragBits
  <2>1. link[r] \in Seq(Frame) /\ link[r] # <<>>
    BY <1>1, <1>3 DEF TypeOK
  <2>2. f \in Frame
    BY <2>1, HeadTailProperties
  <2> QED BY <2>1, <2>2, ItemsOfQueues DEF Frame
<1>5. link'[r] = Tail(link[r])
  BY <1>1, <1>3 DEF TypeOK
<1>6. KnownFrames(s, r)' \subseteq KnownFrames(s, r)
  BY <1>3, <1>4, <1>5 DEF KnownFrames, Cur
<1>7. CASE lastSeq[r] = f.seq
  BY <1>3, <1>6, <1>7, TransferKept
<1>8. CASE lastSeq[r] # f.seq
  <2>1. ProcessFragment(r, f) /\ f.id = m + 1
    BY <1>3, <1>8, HeadOfData
  <2>2. /\ S \in Seq(Seq(Nat)) /\ t \in Nat /\ dl \in Seq(Seq(Nat)) /\ pb \in Seq(Nat)
        /\ m \in Nat
    BY <1>1 DEF TypeOK
  <2>3. Messages(S, t) /\ Reassembled(S, dl, pb, m) /\ Marked(S, f)
    BY <1>4 DEF TransferInv, KnownFrames
  <2>4. /\ accepted'[r] = Append(accepted[r], f.id)
        /\ \/ /\ f.frag = "whole"
              /\ packetBuffer'[r] = pb
              /\ delivered' = [delivered EXCEPT ![r] = Append(@, <<f.id>>)]
           \/ /\ f.frag = "part"
              /\ packetBuffer'[r] = Append(pb, f.id)
              /\ UNCHANGED delivered
           \/ /\ f.frag = "end"
              /\ packetBuffer'[r] = <<>>
              /\ delivered' = [delivered EXCEPT ![r] = Append(@, Append(pb, f.id))]
    BY <1>1, <1>4, <2>1 DEF ProcessFragment, TypeOK, FragBits
  <2>5. Len(accepted'[r]) = m + 1
    <3>1. accepted[r] \in Seq(Nat)
      BY <1>1 DEF TypeOK
    <3> QED BY <1>4, <2>4, <3>1, AppendProperties
  <2> HIDE DEF S, t, dl, pb, m, f
  <2>6. /\ Len(dl) + 1 \in 1 .. Len(S)
        /\ f.frag = "whole" => /\ <<f.id>> = S[Len(dl) + 1]
                               /\ Reassembled(S, Append(dl, <<f.id>>), pb, m + 1)
        /\ f.frag = "part" => Reassembled(S, dl, Append(pb, f.id), m + 1)
        /\ f.frag = "end" =>
              /\ Append(pb, f.id) = S[Len(dl) + 1]
              /\ Reassembled(S, Append(dl, Append(pb, f.id)), <<>>, m + 1)
    BY <2>1, <2>2, <2>3, FragmentJoins
  <2>7. \/ UNCHANGED delivered
        \/ delivered' = [delivered EXCEPT ![r] = Append(@, S[Len(dl) + 1])]
    BY <2>4, <2>6
  <2>8. Reassembled(S, delivered'[r], packetBuffer'[r], m + 1)
    <3>1. \A x : [delivered EXCEPT ![r] = Append(@, x)][r] = Append(dl, x)
      BY <1>1 DEF TypeOK, dl
    <3> QED BY <2>4, <2>6, <3>1 DEF dl
  <2>9. delivered'[s] = delivered[s]
    BY <1>1, <2>7 DEF TypeOK
  <2>10. TransferInv(s, r)'
    BY <1>3, <1>6, <2>5, <2>8, <2>9 DEF TransferInv, S, m
  <2> QED BY <1>3, <2>6, <2>7, <2>10 DEF S, dl
<1> QED BY <1>7, <1>8

\* Acknowledgements, retransmissions and losses change nothing of what has been
\* reassembled, and only known frames are sent.
LEMMA OtherTransfer ==
    ASSUME NEW s, NEW r, OneTalker(s, r), OneWayInv(s, r), TransferInv(s, r),
           NEW n \in Node, AppBeyondBound(n) \/ PhyAck(n) \/ Lose(n)
    PROVE  TransferInv(s, r)' /\ UNCHANGED <<submitted, delivered>>
<1>1. /\ s \in Node /\ r \in Node /\ s # r /\ Talkers = {s}
      /\ Peer(s) = r /\ Peer(r) = s /\ n \in {s, r}
      /\ TypeOK /\ QuietInv(s, r) /\ SendInv(s, r) /\ DataInv(s, r)
  BY Peers DEF OneTalker, OneWayInv
<1>2. UNCHANGED <<submitted, delivered, offered, packetBuffer, accepted>>
  BY DEF AppBeyondBound, PhyAck, Lose, blockVars
<1>3. /\ link[r] \in Seq(Frame) /\ appQueue[s] \in Seq(Frame) /\ lastTx[s] \in Frame
  BY <1>1 DEF TypeOK
<1>4. CASE AppBeyondBound(n)
  <2>1. /\ n = s /\ Transmit(s, lastTx[s]) /\ UNCHANGED <<appQueue, lastTx>>
        /\ state[s] = "wait"
    BY <1>1, <1>4 DEF AppBeyondBound, blockVars
  <2>2. link'[r] = OnAir(link[r], lastTx[s])
    BY <1>1, <2>1 DEF Transmit, TypeOK
  <2>3. Cur(s) > 0
    <3>1. Cur(s) # 0 /\ Cur(s) \in Nat
      BY <1>1, <2>1, NodeTypes DEF SendInv, SenderInv, Cur
    <3> QED BY <3>1
  <2>4. Items(link'[r]) \subseteq Items(link[r]) \union {lastTx[s]}
    BY <1>3, <2>2, ItemsOfQueues
  <2>5. KnownFrames(s, r)' \subseteq KnownFrames(s, r)
    BY <2>1, <2>3, <2>4 DEF KnownFrames, Cur
  <2> QED BY <1>2, <2>5, TransferKept
<1>5. CASE Lose(n)
  <2>1. /\ link[n] # <<>> /\ link' = [link EXCEPT ![n] = Tail(@)]
        /\ UNCHANGED <<appQueue, lastTx>>
    BY <1>5 DEF Lose, blockVars
  <2>2. Items(link'[r]) \subseteq Items(link[r])
    <3>1. CASE n = r
      <4>1. link'[r] = Tail(link[r]) /\ link[r] # <<>>
        BY <1>1, <2>1, <3>1 DEF TypeOK
      <4> QED BY <1>3, <4>1, ItemsOfQueues
    <3>2. CASE n # r
      <4>1. link'[r] = link[r]
        BY <1>1, <2>1, <3>2 DEF TypeOK
      <4> QED BY <4>1
    <3> QED BY <3>1, <3>2
  <2>3. KnownFrames(s, r)' \subseteq KnownFrames(s, r)
    BY <2>1, <2>2 DEF KnownFrames, Cur
  <2> QED BY <1>2, <2>3, TransferKept
<1>6. CASE PhyAck(n)
  <2>1. n = s
    <3>1. ASSUME link[r] # <<>> PROVE Head(link[r]).type = "data"
      <4>1. 1 \in 1 .. Len(link[r]) /\ Head(link[r]) = link[r][1]
        BY <1>1, <3>1, NodeTypes
      <4> QED BY <1>1, <4>1 DEF DataInv
    <3> QED BY <1>1, <1>6, <3>1 DEF PhyAck
  <2> DEFINE rest == [link EXCEPT ![s] = Tail(@)]
             q == appQueue[s]
  <2>2. rest \in [Node -> Seq(Frame)] /\ rest[r] = link[r]
    <3>1. link[s] \in Seq(Frame) /\ link[s] # <<>>
      BY <1>1, <1>6, <2>1 DEF PhyAck, TypeOK
    <3>2. Tail(link[s]) \in Seq(Frame)
      BY <3>1, HeadTailProperties
    <3> QED BY <1>1, <3>2 DEF TypeOK
  <2>3. \/ /\ q # <<>> /\ SendHead(s, q)
           /\ link' = [rest EXCEPT ![r] = OnAir(@, Head(q))]
        \/ link' = rest /\ UNCHANGED <<appQueue, lastTx>>
    BY <1>1, <1>6, <2>1 DEF PhyAck, MoreToSend
  <2> HIDE DEF rest
  <2>4. CASE q # <<>> /\ SendHead(s, q) /\ link' = [rest EXCEPT ![r] = OnAir(@, Head(q))]
    <3>1. /\ lastTx'[s] = Head(q) /\ appQueue'[s] = Tail(q)
          /\ link'[r] = OnAir(link[r], Head(q))
      BY <1>1, <2>2, <2>4 DEF SendHead, TypeOK
    <3>2. /\ Items(Tail(q)) \subseteq Items(q) /\ Head(q) \in Items(q) /\ Head(q) \in Frame
      BY <1>3, <2>4, ItemsOfQueues, HeadTailProperties
    <3>3. Items(link'[r]) \subseteq Items(link[r]) \union Items(q)
      BY <1>3, <3>1, <3>2, ItemsOfQueues
    <3>4. KnownFrames(s, r)' \subseteq KnownFrames(s, r)
      BY <3>1, <3>2, <3>3 DEF KnownFrames
    <3> QED BY <1>2, <3>4, TransferKept
  <2>5. CASE link' = rest /\ UNCHANGED <<appQueue, lastTx>>
    <3>1. link'[r] = link[r]
      BY <2>2, <2>5
    <3>2. KnownFrames(s, r)' \subseteq KnownFrames(s, r)
      BY <2>5, <3>1 DEF KnownFrames, Cur
    <3> QED BY <1>2, <3>2, TransferKept
  <2> QED BY <2>3, <2>4, <2>5
<1> QED BY <1>2, <1>4, <1>5, <1>6

\* While one node talks and uses acknowledgements, the block is a reliable
\* transfer of whole messages: each message is delivered once, complete and in
\* the order of submission, whatever the radio loses.
THEOREM OneWayTransfer ==
    ASSUME NEW s, NEW r, OneTalker(s, r)
    PROVE  Spec => ReliableDelivery
<1> DEFINE Inv == OneWayInv(s, r) /\ TransferInv(s, r)
<1>1. Init => Transfer!Init
  BY DEF Init, Transfer!Init
<1>2. Init => Inv
  BY OneWayInit, TransferInit
<1>3. Inv /\ TypeOK' /\ [Next]_vars => Inv' /\ [Transfer!Next]_(Transfer!vars)
  <2> SUFFICES ASSUME Inv, TypeOK', [Next]_vars
               PROVE  TransferInv(s, r)' /\ [Transfer!Next]_(Transfer!vars)
    BY OneWayStep
  <2>1. /\ s \in Node /\ r \in Node /\ TypeOK /\ Transfer!Peer(r) = s
        /\ Peer(s) = r
    BY Peers DEF OneTalker, OneWayInv, Peer, Transfer!Peer
  <2>2. ASSUME NEW n \in Node, AppMessage(n)
        PROVE  TransferInv(s, r)' /\ Transfer!Next
    <3>1. TransferInv(s, r)' /\ UNCHANGED delivered
      BY <2>2, AppTransfer
    <3>2. PICK k \in 1 .. MaxMtus : Submit(s, k)
      BY <2>2, AppTransfer
    <3> DEFINE m == [i \in 1 .. k |-> offered[s] + i]
    <3>3. submitted' = [submitted EXCEPT ![s] = Append(@, m)] /\ offered[s] + k <= MaxFrags
      BY <3>2 DEF Submit
    <3>4. m \in Transfer!Message
      <4>1. offered[s] \in Nat /\ k \in Nat
        BY <2>1, MtuAssumption DEF TypeOK
      <4>2. m \in [1 .. k -> 1 .. MaxFrags]
        BY <3>3, <4>1, BoundAssumption
      <4> QED BY <4>2 DEF Transfer!Message
    <3> HIDE DEF m
    <3>5. Transfer!Submit(s)
      BY <3>1, <3>3, <3>4 DEF Transfer!Submit
    <3> QED BY <2>1, <3>1, <3>5 DEF Transfer!Next
  <2>3. ASSUME NEW n \in Node, PhyData(n)
        PROVE  TransferInv(s, r)' /\ [Transfer!Next]_(Transfer!vars)
    <3>1. /\ TransferInv(s, r)' /\ UNCHANGED submitted
          /\ \/ UNCHANGED delivered
             \/ /\ Len(delivered[r]) + 1 \in 1 .. Len(submitted[s])
                /\ delivered' = [delivered EXCEPT ![r] =
                                   Append(@, submitted[s][Len(@) + 1])]
      BY <2>3, DataTransfer
    <3>2. CASE UNCHANGED delivered
      BY <3>1, <3>2 DEF Transfer!vars
    <3>3. CASE /\ Len(delivered[r]) + 1 \in 1 .. Len(submitted[s])
               /\ delivered' = [delivered EXCEPT ![r] =
                                  Append(@, submitted[s][Len(@) + 1])]
      <4>1. Transfer!Deliver(r)
        BY <2>1, <3>1, <3>3 DEF Transfer!Deliver
      <4> QED BY <2>1, <3>1, <4>1 DEF Transfer!Next
    <3> QED BY <3>1, <3>2, <3>3
  <2>4. ASSUME NEW n \in Node, AppBeyondBound(n) \/ PhyAck(n) \/ Lose(n)
        PROVE  TransferInv(s, r)' /\ [Transfer!Next]_(Transfer!vars)
    BY <2>4, OtherTransfer DEF Transfer!vars
  <2>5. CASE UNCHANGED vars
    BY <2>5 DEF vars, blockVars, history, TransferInv, KnownFrames, Cur, Transfer!vars
  <2> QED BY <2>2, <2>3, <2>4, <2>5 DEF Next, PhyMessage
<1>4. Spec => []TypeOK
  BY TypeCorrect
<1> QED BY <1>1, <1>2, <1>3, <1>4, PTL DEF Spec, ReliableDelivery, Transfer!Spec
=============================================================================
