---------------------------- MODULE GoBackNProofs ----------------------------
(***************************************************************************)
(* Theorems about GoBackN, for every size of the window and every bound.    *)
(*                                                                          *)
(* The argument about the window: while no frame was refused it is the run  *)
(* of frames that came last, the walk of transmit_window is the end of that *)
(* run, and what has been sent is 1 .. m for an m that the walk reaches     *)
(* before the window is idle again (RunInv).  An acknowledgement is of a    *)
(* frame that was sent (MessageInv), so the difference of indices counts    *)
(* frames of the window, all of them sent.  Without a loss frames arrive    *)
(* for the first time in order (OrderInv), so all of them have arrived.     *)
(***************************************************************************)
EXTENDS GoBackN, SequenceTheorems, TLAPS

-----------------------------------------------------------------------------
(* The queues. *)

\* The head of a queue and what follows it.
LEMMA QueueHead ==
    ASSUME NEW S, NEW q \in Seq(S), q # <<>>
    PROVE  /\ Head(q) \in S /\ Head(q) \in Members(q) /\ Head(q) = q[1]
           /\ Tail(q) \in Seq(S) /\ Len(Tail(q)) = Len(q) - 1 /\ Len(q) \in Nat /\ Len(q) >= 1
           /\ \A j \in 1 .. Len(q) - 1 : Tail(q)[j] = q[j + 1]
           /\ Members(Tail(q)) \subseteq Members(q)
           /\ Members(q) = {Head(q)} \cup Members(Tail(q))
<1> DEFINE t == Tail(q)
           n == Len(q)
<1>1. /\ Head(q) \in S /\ t \in Seq(S) /\ Len(t) = n - 1 /\ Head(q) = q[1]
      /\ n \in Nat /\ n >= 1
      /\ \A j \in 1 .. n - 1 : t[j] = q[j + 1]
  BY HeadTailProperties
<1> HIDE DEF t, n
<1>2. \A j \in 1 .. n : j = 1 \/ (j - 1 \in 1 .. n - 1 /\ t[j - 1] = q[j])
  BY <1>1
<1>3. Members(q) = {q[j] : j \in 1 .. n} /\ Members(t) = {t[j] : j \in 1 .. n - 1}
  BY <1>1 DEF Members, n
<1>4. Members(t) \subseteq Members(q)
  <2> SUFFICES ASSUME NEW j \in 1 .. n - 1 PROVE t[j] \in Members(q)
    BY <1>3
  <2>1. j + 1 \in 1 .. n
    BY <1>1
  <2> QED
    BY <1>1, <1>3, <2>1
<1>5. 1 \in 1 .. n
  BY <1>1
<1>6. Members(q) = {q[1]} \cup Members(t)
  <2>1. ASSUME NEW j \in 1 .. n PROVE q[j] \in {q[1]} \cup Members(t)
    BY <1>2, <1>3, <2>1
  <2>2. q[1] \in Members(q)
    BY <1>3, <1>5
  <2> QED
    BY <1>3, <1>4, <2>1, <2>2
<1> QED
  BY <1>1, <1>3, <1>4, <1>5, <1>6 DEF t, n

\* An element more.
LEMMA QueueAppend ==
    ASSUME NEW S, NEW q \in Seq(S), NEW e \in S
    PROVE  /\ Append(q, e) \in Seq(S) /\ Append(q, e) # <<>>
           /\ Len(Append(q, e)) = Len(q) + 1 /\ Len(q) \in Nat
           /\ \A j \in 1 .. Len(q) : Append(q, e)[j] = q[j]
           /\ Append(q, e)[Len(q) + 1] = e
           /\ Members(Append(q, e)) = Members(q) \cup {e}
<1> DEFINE a == Append(q, e)
           n == Len(q)
<1>1. /\ a \in Seq(S) /\ a # <<>> /\ Len(a) = n + 1 /\ n \in Nat
      /\ \A j \in 1 .. n : a[j] = q[j]
      /\ a[n + 1] = e
  BY AppendProperties
<1> HIDE DEF a, n
<1>2. Members(a) = {a[j] : j \in 1 .. n + 1} /\ Members(q) = {q[j] : j \in 1 .. n}
  BY <1>1 DEF Members, n
<1>3. \A j \in 1 .. n + 1 : j \in 1 .. n \/ j = n + 1
  BY <1>1
<1>4. n + 1 \in 1 .. n + 1 /\ \A j \in 1 .. n : j \in 1 .. n + 1
  BY <1>1
<1>5. Members(a) = Members(q) \cup {e}
  BY <1>1, <1>2, <1>3, <1>4
<1> QED
  BY <1>1, <1>5 DEF a, n

\* What is left of a queue when its first k elements have been popped.
LEMMA QueueDrop ==
    ASSUME NEW S, NEW q \in Seq(S), NEW k \in Nat
    PROVE  /\ Drop(q, k) \in Seq(S)
           /\ Len(q) \in Nat
           /\ Len(Drop(q, k)) = IF k <= Len(q) THEN Len(q) - k ELSE 0
           /\ \A j \in 1 .. Len(q) - k : Drop(q, k)[j] = q[k + j]
<1> DEFINE n == Len(q)
           d == SubSeq(q, k + 1, n)
<1>1. n \in Nat /\ \A j \in k + 1 .. n : q[j] \in S
  OBVIOUS
<1> HIDE DEF n
<1>2. /\ d \in Seq(S)
      /\ Len(d) = (IF k + 1 <= n THEN n - (k + 1) + 1 ELSE 0)
      /\ \A j \in 1 .. n - (k + 1) + 1 : d[j] = q[(k + 1) + j - 1]
  BY <1>1, SubSeqProperties
<1> HIDE DEF d
<1>3. Len(d) = (IF k <= n THEN n - k ELSE 0)
  BY <1>1, <1>2
<1>4. \A j \in 1 .. n - k : d[j] = q[k + j]
  <2> TAKE j \in 1 .. n - k
  <2>1. j \in 1 .. n - (k + 1) + 1 /\ (k + 1) + j - 1 = k + j
    BY <1>1
  <2> QED
    BY <1>2, <2>1
<1> QED
  BY <1>1, <1>2, <1>3, <1>4 DEF Drop, d, n

\* The radio carries a frame, or loses it.
LEMMA RadioQueue ==
    ASSUME NEW S, NEW q \in Seq(S), NEW e \in S
    PROVE  OnAir(q, e) \in Seq(S) /\ Members(OnAir(q, e)) \subseteq Members(q) \cup {e}
BY QueueAppend DEF OnAir

-----------------------------------------------------------------------------
(* Types. *)

\* The acknowledgement that kill_timeout handles is of a frame in its window.
TypeInv == TypeOK /\ kill.wait <= kill.index

SenderType ==
    /\ window \in Seq(Index) /\ Len(window) <= WindowSize
    /\ txedIndex \in 0 .. MaxFrames
    /\ walk \in Seq(Index) /\ Len(walk) <= WindowSize
    /\ from \in 0 .. MaxFrames

TimerType ==
    /\ inTimeout \in BOOLEAN
    /\ waiting \in Seq(Index)
    /\ kill \in [index : 0 .. MaxFrames, wait : 0 .. MaxFrames] /\ kill.wait <= kill.index
    /\ countdown \in [Thread -> {"none", "loop", "killed", "publish", "flush", "pop",
                               "clear"}]
    /\ flushLength \in [Thread -> Nat]

MessageType ==
    /\ frameA \in 0 .. MaxFrames
    /\ asked \in Nat
    /\ starts \in Seq(Index) /\ air \in Seq(Index) /\ acks \in Seq(Index)
    /\ verdicts \in Seq([type : {"ack", "data"}, index : Index])

HistoryType ==
    /\ taken \in 0 .. MaxFrames
    /\ refused \subseteq Index /\ sent \subseteq Index
    /\ received \subseteq Index /\ removed \subseteq Index
    /\ lossy \in BOOLEAN
    /\ timeouts \in 0 .. MaxTimeouts
    /\ undefined \in {"no", "window", "front", "waiting"}

\* The types, part by part.
LEMMA Types == TypeInv <=> SenderType /\ TimerType /\ MessageType /\ HistoryType
BY DEF TypeInv, TypeOK, SenderType, TimerType, MessageType, HistoryType

\* A verdict is of a frame.
LEMMA Verdict ==
    ASSUME MessageType, verdicts # <<>>
    PROVE  /\ Head(verdicts).type \in {"ack", "data"} /\ Head(verdicts).index \in Index
           /\ Head(verdicts) \in Members(verdicts)
           /\ Tail(verdicts) \in Seq([type : {"ack", "data"}, index : Index])
           /\ Members(Tail(verdicts)) \subseteq Members(verdicts)
<1>1. verdicts \in Seq([type : {"ack", "data"}, index : Index])
  BY DEF MessageType
<1>2. /\ Head(verdicts) \in [type : {"ack", "data"}, index : Index]
      /\ Head(verdicts) \in Members(verdicts)
      /\ Tail(verdicts) \in Seq([type : {"ack", "data"}, index : Index])
      /\ Members(Tail(verdicts)) \subseteq Members(verdicts)
  BY <1>1, QueueHead
<1> QED
  BY <1>2

\* An acknowledgement pops a natural number of frames.
LEMMA AckedNatural ==
    ASSUME NEW i \in Nat, NEW wait \in Nat
    PROVE  Acked(i, wait) \in Nat
BY DEF Acked

\* The model begins with values of the types.
LEMMA TypeInit == Init => TypeInv
<1> SUFFICES ASSUME Init PROVE SenderType /\ TimerType /\ MessageType /\ HistoryType
  BY Types
<1> USE BoundAssumption, WindowAssumption DEF Init
<1>1. SenderType
  BY DEF SenderType
<1>2. TimerType
  <2>1. kill = [index |-> 0, wait |-> 0]
    BY DEF NoKill
  <2>2. kill \in [index : 0 .. MaxFrames, wait : 0 .. MaxFrames] /\ kill.wait <= kill.index
    BY <2>1
  <2>3. waiting \in Seq(Index)
    OBVIOUS
  <2>5. inTimeout \in BOOLEAN
    OBVIOUS
  <2>4. countdown \in [Thread -> {"none", "loop", "killed", "publish", "flush", "pop",
                                 "clear"}]
    OBVIOUS
  <2>6. flushLength \in [Thread -> Nat]
    OBVIOUS
  <2> QED
    BY <2>2, <2>3, <2>4, <2>5, <2>6 DEF TimerType
<1>3. MessageType
  BY DEF MessageType
<1>4. HistoryType
  <2>1. lossy \in BOOLEAN /\ undefined \in {"no", "window", "front", "waiting"}
    OBVIOUS
  <2>2. refused \subseteq Index /\ sent \subseteq Index /\ received \subseteq Index
        /\ removed \subseteq Index
    OBVIOUS
  <2>3. taken \in 0 .. MaxFrames /\ timeouts \in 0 .. MaxTimeouts
    OBVIOUS
  <2> QED
    BY <2>1, <2>2, <2>3 DEF HistoryType
<1> QED
  BY <1>1, <1>2, <1>3, <1>4

\* The window, and what is walked through, never exceed its size.
LEMMA SenderStep == TypeInv /\ [Next]_vars => SenderType'
<1> SUFFICES ASSUME SenderType, MessageType, HistoryType, [Next]_vars PROVE SenderType'
  BY Types
<1> USE BoundAssumption, WindowAssumption DEF SenderType
<1>1. CASE UNCHANGED sender
  BY <1>1 DEF sender
<1>2. CASE FrameIn
  <2> DEFINE i == taken + 1
             q == Append(window, i)
  <2>1. i \in Index
    BY <1>2 DEF FrameIn, HistoryType, Index
  <2>2. q \in Seq(Index) /\ Len(q) = Len(window) + 1 /\ Len(window) \in Nat
    BY <2>1, QueueAppend
  <2> HIDE DEF q
  <2>3. txedIndex' = txedIndex
    BY <1>2 DEF FrameIn
  <2>4. \/ window' = window /\ walk' = walk /\ from' = from
        \/ Room(window) /\ window' = q /\ walk' = walk /\ from' = from
        \/ Room(window) /\ window' = q /\ walk' = q /\ from' = txedIndex
    BY <1>2 DEF FrameIn, Transmit, q
  <2> QED
    BY <2>2, <2>3, <2>4 DEF Room
<1>3. CASE WalkOn
  <2>1. Head(walk) \in Index /\ Tail(walk) \in Seq(Index) /\ Len(Tail(walk)) = Len(walk) - 1
    BY <1>3, QueueHead DEF WalkOn
  <2>2. walk' = Tail(walk) /\ txedIndex' = Head(walk) /\ window' = window /\ from' = from
    BY <1>3 DEF WalkOn
  <2> QED
    BY <2>1, <2>2 DEF Index
<1>4. CASE VerdictAck
  <2> DEFINE i == Head(verdicts).index
             wait == Head(window)
             k == Acked(i, wait)
             d == Drop(window, k)
  <2>1. i \in Index /\ wait \in Index
    BY <1>4, Verdict, QueueHead DEF VerdictAck
  <2> HIDE DEF i, wait
  <2>2. k \in Nat
    <3>1. i \in Nat /\ wait \in Nat
      BY <2>1 DEF Index
    <3> QED
      BY <3>1, AckedNatural
  <2> HIDE DEF k
  <2>3. d \in Seq(Index) /\ Len(d) <= Len(window)
    <3>1. /\ d \in Seq(Index) /\ Len(window) \in Nat
          /\ Len(d) = IF k <= Len(window) THEN Len(window) - k ELSE 0
      BY <2>2, QueueDrop
    <3> QED
      BY <2>2, <3>1
  <2> HIDE DEF d
  <2>4. txedIndex' = txedIndex
    BY <1>4 DEF VerdictAck
  <2>5. \/ window' = d /\ walk' = walk /\ from' = from
        \/ window' = window /\ walk' = window /\ from' = txedIndex
    BY <1>4 DEF VerdictAck, Transmit, d, k, i, wait
  <2>6. Len(window) \in Nat /\ Len(d) \in Nat
    BY <2>3
  <2> QED
    BY <2>3, <2>4, <2>5, <2>6
<1>5. CASE VerdictTimeout
  <2>1. Head(window) - 1 \in 0 .. MaxFrames
    BY <1>5, QueueHead DEF VerdictTimeout, Index
  <2> QED
    BY <1>5, <2>1 DEF VerdictTimeout, Transmit
<1> QED
  BY <1>1, <1>2, <1>3, <1>4, <1>5 DEF Next, vars, LoseData, LoseAck, Receive, VerdictEmpty,
     Start, Kill, KillPop, KillEmpty, Countdown, Expire, Killed, KilledTest, Publish,
     FlushSize, FlushWindow, Clear

\* The timer.
LEMMA TimerStep == TypeInv /\ [Next]_vars => TimerType'
<1> SUFFICES ASSUME TimerType, MessageType, [Next]_vars PROVE TimerType'
  BY Types
<1> USE DEF TimerType
<1>1. CASE UNCHANGED timer
  BY <1>1 DEF timer
<1>2. CASE Start
  <2>1. Append(waiting, Head(starts)) \in Seq(Index)
    BY <1>2, QueueHead DEF Start, MessageType
  <2> QED
    BY <1>2, <2>1 DEF Start, Spawn
<1>3. CASE Kill
  <2>1. Head(acks) \in Index /\ Head(waiting) \in Index
    BY <1>3, QueueHead DEF Kill, MessageType
  <2>2. /\ inTimeout' = inTimeout /\ waiting' = waiting /\ countdown' = countdown
        /\ flushLength' = flushLength
    BY <1>3 DEF Kill
  <2>3. CASE inTimeout /\ Head(acks) >= Head(waiting)
    <3>1. kill' = [index |-> Head(acks), wait |-> Head(waiting)]
      BY <1>3, <2>3 DEF Kill
    <3> QED
      BY <2>1, <2>2, <2>3, <3>1 DEF Index
  <2>4. CASE ~(inTimeout /\ Head(acks) >= Head(waiting))
    <3>1. kill' = kill
      BY <1>3, <2>4 DEF Kill
    <3> QED
      BY <2>2, <3>1
  <2> QED
    BY <2>3, <2>4
<1>4. CASE KillPop
  <2> DEFINE k == kill.index - kill.wait + 1
  <2>1. k \in Nat
    BY BoundAssumption
  <2> HIDE DEF k
  <2>2. Drop(waiting, k) \in Seq(Index)
    BY <2>1, QueueDrop
  <2>3. /\ waiting' = Drop(waiting, k) /\ kill' = NoKill /\ countdown' = countdown
        /\ inTimeout' = (inTimeout /\ Len(waiting) # k) /\ flushLength' = flushLength
    BY <1>4 DEF KillPop, k
  <2>4. inTimeout' \in BOOLEAN
    BY <2>3
  <2>5. NoKill \in [index : 0 .. MaxFrames, wait : 0 .. MaxFrames] /\ NoKill.wait <= NoKill.index
    BY BoundAssumption DEF NoKill
  <2> QED
    BY <2>2, <2>3, <2>4, <2>5
<1>5. ASSUME NEW t \in Thread, Countdown(t) PROVE TimerType'
  <2> USE DEF Countdown, Expire, Killed, KilledTest, Publish, FlushSize, FlushWindow, Clear
  <2>1. kill' = kill /\ (waiting' = waiting \/ waiting' = Drop(waiting, flushLength[t]))
    BY <1>5
  <2>2. inTimeout' = inTimeout \/ inTimeout' = FALSE
    BY <1>5 DEF FlagAtEnd
  <2>3. \E pc \in {"none", "killed", "publish", "flush", "pop", "clear"} : Becomes(t, pc)
    BY <1>5
  <2>4. countdown' \in [Thread -> {"none", "loop", "killed", "publish", "flush", "pop",
                                  "clear"}]
    BY <2>3 DEF Becomes
  <2>5. inTimeout' \in BOOLEAN
    BY <2>2
  <2>6. waiting' \in Seq(Index)
    <3>1. Drop(waiting, flushLength[t]) \in Seq(Index)
      BY QueueDrop
    <3> QED
      BY <2>1, <3>1
  <2>7. \E k \in Nat : flushLength' = flushLength
                         \/ flushLength' = [flushLength EXCEPT ![t] = k]
    <3>1. Len(waiting) \in Nat
      OBVIOUS
    <3> QED
      BY <1>5, <3>1
  <2>8. flushLength' \in [Thread -> Nat]
    BY <2>7
  <2> QED
    BY <2>1, <2>4, <2>5, <2>6, <2>8
<1> QED
  BY <1>1, <1>2, <1>3, <1>4, <1>5 DEF Next, vars, LoseData, LoseAck, Receive, FrameIn, WalkOn,
     VerdictAck, VerdictTimeout, VerdictEmpty, KillEmpty

\* The messages.
LEMMA MessageStep == TypeInv /\ [Next]_vars => MessageType'
<1> SUFFICES ASSUME SenderType, TimerType, MessageType, [Next]_vars PROVE MessageType'
  BY Types
<1> USE DEF MessageType, queues
<1>1. CASE UNCHANGED <<frameA, queues>>
  BY <1>1
<1>2. CASE LoseData
  BY <1>2, QueueHead DEF LoseData
<1>3. CASE LoseAck
  BY <1>3, QueueHead DEF LoseAck
<1>4. CASE Receive
  <2> DEFINE i == Head(air)
  <2>1. i \in Index /\ Tail(air) \in Seq(Index)
    BY <1>4, QueueHead DEF Receive
  <2> HIDE DEF i
  <2>2. Answer(frameA, i) \in Index
    BY <2>1 DEF Answer, Index
  <2>3. OnAir(acks, Answer(frameA, i)) \in Seq(Index)
    BY <2>2, RadioQueue
  <2> QED
    BY <1>4, <2>1, <2>3 DEF Receive, Index, i
<1>5. CASE FrameIn
  BY <1>5 DEF FrameIn
<1>6. CASE WalkOn
  <2> DEFINE i == Head(walk)
  <2>1. i \in Index
    BY <1>6, QueueHead DEF WalkOn, SenderType
  <2> HIDE DEF i
  <2>2. OnAir(air, i) \in Seq(Index) /\ Append(starts, i) \in Seq(Index)
    BY <2>1, RadioQueue, QueueAppend
  <2>3. /\ air' = air \/ air' = OnAir(air, i)
        /\ starts' = starts \/ starts' = Append(starts, i)
        /\ UNCHANGED <<frameA, asked, verdicts, acks>>
    BY <1>6 DEF WalkOn, i
  <2> QED
    BY <2>2, <2>3
<1>7. CASE VerdictAck \/ VerdictTimeout
  <2>1. verdicts' = Tail(verdicts) /\ verdicts # <<>> /\ asked' \in Nat
    BY <1>7 DEF VerdictAck, VerdictTimeout
  <2>2. UNCHANGED <<frameA, starts, air, acks>>
    BY <1>7 DEF VerdictAck, VerdictTimeout
  <2> QED
    BY <2>1, <2>2, Verdict
<1>8. CASE Start
  BY <1>8, QueueHead DEF Start
<1>9. CASE Kill
  <2>1. Head(acks) \in Index /\ Tail(acks) \in Seq(Index)
    BY <1>9, QueueHead DEF Kill
  <2>2. Append(verdicts, Ack(Head(acks))) \in Seq([type : {"ack", "data"}, index : Index])
    BY <2>1, QueueAppend DEF Ack
  <2> QED
    BY <1>9, <2>1, <2>2 DEF Kill
<1>10. CASE KillEmpty
  BY <1>10, QueueHead DEF KillEmpty
<1>11. ASSUME NEW t \in Thread, Publish(t) PROVE MessageType'
  <2>1. waiting # <<>> => Append(verdicts, Timeout(Head(waiting)))
                              \in Seq([type : {"ack", "data"}, index : Index])
    <3> SUFFICES ASSUME waiting # <<>>
                 PROVE  Append(verdicts, Timeout(Head(waiting)))
                              \in Seq([type : {"ack", "data"}, index : Index])
      OBVIOUS
    <3>1. Head(waiting) \in Index
      BY QueueHead DEF TimerType
    <3>2. Timeout(Head(waiting)) \in [type : {"ack", "data"}, index : Index]
      BY <3>1 DEF Timeout
    <3> QED
      BY <3>2, QueueAppend
  <2> QED
    BY <1>11, <2>1 DEF Publish
<1>12. CASE VerdictEmpty \/ KillPop
  BY <1>12 DEF VerdictEmpty, KillPop
<1>13. ASSUME NEW t \in Thread, Countdown(t), ~Publish(t) PROVE MessageType'
  BY <1>13 DEF Countdown, Expire, Killed, KilledTest, FlushSize, FlushWindow, Clear
<1> QED
  BY <1>1, <1>2, <1>3, <1>4, <1>5, <1>6, <1>7, <1>8, <1>9, <1>10, <1>11, <1>12, <1>13
  DEF Next, vars

\* The history.
LEMMA HistoryStep == TypeInv /\ [Next]_vars => HistoryType'
<1> SUFFICES ASSUME SenderType, TimerType, MessageType, HistoryType, [Next]_vars
             PROVE  HistoryType'
  BY Types
<1> USE DEF HistoryType, history
<1>1. CASE UNCHANGED history
  BY <1>1
<1>2. CASE LoseData
  BY <1>2 DEF LoseData
<1>3. CASE Receive
  BY <1>3, QueueHead DEF Receive, MessageType
<1>4. CASE FrameIn
  <2>1. taken + 1 \in Index
    BY <1>4, BoundAssumption DEF FrameIn, Index
  <2>2. taken' = taken + 1 /\ (refused' = refused \/ refused' = refused \cup {taken + 1})
    BY <1>4 DEF FrameIn
  <2>3. UNCHANGED <<sent, received, removed, lossy, timeouts, undefined>>
    BY <1>4 DEF FrameIn
  <2>4. taken' \in 0 .. MaxFrames
    BY <2>1, <2>2, BoundAssumption DEF Index
  <2>5. refused' \subseteq Index
    BY <2>1, <2>2
  <2> QED
    BY <2>3, <2>4, <2>5
<1>5. CASE WalkOn
  <2>1. Head(walk) \in Index
    BY <1>5, QueueHead DEF WalkOn, SenderType
  <2>2. (lossy \/ Len(air) >= AirCap) \in BOOLEAN
    OBVIOUS
  <2> QED
    BY <1>5, <2>1, <2>2 DEF WalkOn
<1>6. CASE VerdictAck
  <2>1. Members(window) \subseteq Index
    BY DEF SenderType, Members
  <2> QED
    BY <1>6, <2>1 DEF VerdictAck
<1>7. CASE VerdictEmpty \/ KillPop \/ KillEmpty
  BY <1>7 DEF VerdictEmpty, KillPop, KillEmpty
<1>8. ASSUME NEW t \in Thread, Publish(t) PROVE HistoryType'
  BY <1>8, BoundAssumption DEF Publish
<1>9. CASE LoseAck \/ VerdictTimeout \/ Start \/ Kill
  BY <1>9 DEF LoseAck, VerdictTimeout, Start, Kill
<1>10. ASSUME NEW t \in Thread, Countdown(t), ~Publish(t) PROVE HistoryType'
  BY <1>10 DEF Countdown, Expire, Killed, KilledTest, FlushSize, FlushWindow, Clear
<1> QED
  BY <1>1, <1>2, <1>3, <1>4, <1>5, <1>6, <1>7, <1>8, <1>9, <1>10 DEF Next, vars

\* Every step keeps the types.
LEMMA TypeStep == TypeInv /\ [Next]_vars => TypeInv'
<1>1. (SenderType /\ TimerType /\ MessageType /\ HistoryType)' => TypeInv'
  BY Types DEF TypeInv, TypeOK, SenderType, TimerType, MessageType, HistoryType
<1> QED
  BY <1>1, SenderStep, TimerStep, MessageStep, HistoryStep

\* Every variable of the go-back-n model keeps its type: no index leaves the
\* range of the frames and neither queue of slide_window outgrows _window_size.
THEOREM WindowTypeCorrect == Spec => []TypeOK
<1>1. TypeInv => TypeOK
  BY DEF TypeInv
<1> QED
  BY <1>1, TypeInit, TypeStep, PTL DEF Spec

-----------------------------------------------------------------------------
(* The timer. *)

\* Whenever the flag of the timer is set, a thread is alive that will clear it.
THEOREM FlagWatched == Spec => []TimerAlive
<1>1. Init => TimerAlive
  BY DEF Init, TimerAlive
<1>2. TypeInv /\ TimerAlive /\ [Next]_vars => TimerAlive'
  <2> SUFFICES ASSUME TimerType, TimerAlive, [Next]_vars, inTimeout'
               PROVE  \E t \in Thread : countdown'[t] # "none"
    BY Types DEF TimerAlive
  <2>1. CASE inTimeout' = inTimeout /\ countdown' = countdown
    BY <2>1 DEF TimerAlive
  <2>2. CASE Start
    <3>1. CASE inTimeout
      BY <2>2, <3>1 DEF Start, TimerAlive
    <3>2. CASE ~inTimeout
      BY <2>2, <3>2 DEF Start, Spawn, TimerType
    <3> QED
      BY <3>1, <3>2
  <2>3. CASE KillPop
    BY <2>3 DEF KillPop, TimerAlive
  <2>4. ASSUME NEW t \in Thread, Countdown(t)
        PROVE  \E s \in Thread : countdown'[s] # "none"
    BY <2>4 DEF Countdown, Expire, Killed, KilledTest, Publish, FlushSize,
     FlushWindow, Clear, Becomes,
       FlagAtEnd, TimerType
  <2> QED
    BY <2>1, <2>2, <2>3, <2>4 DEF Next, vars, timer, LoseData, LoseAck, Receive, FrameIn, WalkOn,
       VerdictAck, VerdictTimeout, VerdictEmpty, Kill, KillEmpty
<1> QED
  BY <1>1, <1>2, TypeInit, TypeStep, PTL DEF Spec

-----------------------------------------------------------------------------
(* Messages. *)

\* Messages speak of frames that were sent, acknowledgements of frames that
\* were received.
MessageInv ==
    /\ Members(air) \subseteq sent /\ received \subseteq sent
    /\ Members(acks) \subseteq received
    /\ \A v \in Members(verdicts) : v.type = "ack" => v.index \in received
    /\ frameA = 0 \/ frameA \in received

\* An acknowledgement in front of the others.
LEMMA VerdictReceived ==
    ASSUME MessageType, MessageInv, verdicts # <<>>, Head(verdicts).type = "ack"
    PROVE  Head(verdicts).index \in received
BY Verdict DEF MessageInv

\* Every step keeps it.
LEMMA MessageInvStep == TypeInv /\ MessageInv /\ [Next]_vars => MessageInv'
<1> SUFFICES ASSUME SenderType, TimerType, MessageType, MessageInv, [Next]_vars
             PROVE  MessageInv'
  BY Types
<1> USE DEF MessageInv
<1>1. CASE UNCHANGED <<air, acks, verdicts, frameA, sent, received>>
  BY <1>1
<1>2. CASE LoseData
  <2>1. Members(Tail(air)) \subseteq Members(air)
    BY <1>2, QueueHead DEF LoseData, MessageType
  <2> QED
    BY <1>2, <2>1 DEF LoseData
<1>3. CASE LoseAck
  <2>1. Members(Tail(acks)) \subseteq Members(acks)
    BY <1>3, QueueHead DEF LoseAck, MessageType
  <2> QED
    BY <1>3, <2>1 DEF LoseAck, history
<1>4. CASE Receive
  <2> DEFINE i == Head(air)
             b == Answer(frameA, i)
  <2>1. /\ i \in Index /\ i \in sent
        /\ Members(Tail(air)) \subseteq Members(air)
    BY <1>4, QueueHead DEF Receive, MessageType
  <2>2. /\ air' = Tail(air) /\ received' = received \cup {i} /\ acks' = OnAir(acks, b)
        /\ frameA' = i /\ sent' = sent /\ verdicts' = verdicts
    BY <1>4 DEF Receive
  <2> HIDE DEF i
  <2>3. b \in received' /\ b \in Index
    BY <2>1, <2>2 DEF Answer, MessageType, Index
  <2> HIDE DEF b
  <2>4. Members(OnAir(acks, b)) \subseteq Members(acks) \cup {b}
    BY <2>3, RadioQueue DEF MessageType
  <2> QED
    BY <2>1, <2>2, <2>3, <2>4
<1>5. CASE WalkOn
  <2> DEFINE i == Head(walk)
  <2>1. i \in Index
    BY <1>5, QueueHead DEF WalkOn, SenderType
  <2> HIDE DEF i
  <2>2. Members(OnAir(air, i)) \subseteq Members(air) \cup {i}
    BY <2>1, RadioQueue DEF MessageType
  <2>3. \/ air' = air /\ sent' = sent
        \/ air' = OnAir(air, i) /\ sent' = sent \cup {i}
    BY <1>5 DEF WalkOn, i
  <2>4. UNCHANGED <<acks, verdicts, frameA, received>>
    BY <1>5 DEF WalkOn
  <2>5. Members(air') \subseteq sent'
    BY <2>2, <2>3
  <2> QED
    BY <2>3, <2>4, <2>5
<1>6. CASE VerdictAck \/ VerdictTimeout
  <2>1. verdicts # <<>> /\ verdicts' = Tail(verdicts)
    BY <1>6 DEF VerdictAck, VerdictTimeout
  <2>2. UNCHANGED <<air, acks, frameA, sent, received>>
    BY <1>6 DEF VerdictAck, VerdictTimeout, history
  <2>3. Members(Tail(verdicts)) \subseteq Members(verdicts)
    BY <2>1, Verdict
  <2> QED
    BY <2>1, <2>2, <2>3
<1>7. CASE Kill
  <2> DEFINE i == Head(acks)
  <2>1. i \in Index /\ i \in received /\ Members(Tail(acks)) \subseteq Members(acks)
    BY <1>7, QueueHead DEF Kill, MessageType
  <2> HIDE DEF i
  <2>2. acks' = Tail(acks) /\ UNCHANGED <<air, frameA, sent, received>>
    BY <1>7 DEF Kill, history
  <2>3. Ack(i) \in [type : {"ack", "data"}, index : Index] /\ Ack(i).index = i
    BY <2>1 DEF Ack
  <2>4. Members(Append(verdicts, Ack(i))) = Members(verdicts) \cup {Ack(i)}
    <3> DEFINE V == [type : {"ack", "data"}, index : Index]
    <3>1. verdicts \in Seq(V) /\ Ack(i) \in V
      BY <2>3 DEF MessageType
    <3> HIDE DEF V
    <3> QED
      BY <3>1, QueueAppend
  <2>5. verdicts' = verdicts \/ verdicts' = Append(verdicts, Ack(i))
    BY <1>7 DEF Kill, i
  <2>6. \A v \in Members(verdicts') : v.type = "ack" => v.index \in received
    BY <2>1, <2>3, <2>4, <2>5
  <2> QED
    BY <2>1, <2>2, <2>6
<1>8. CASE KillEmpty
  <2>1. acks' = acks \/ (acks # <<>> /\ acks' = Tail(acks))
    BY <1>8 DEF KillEmpty
  <2>2. Members(acks') \subseteq Members(acks)
    BY <2>1, QueueHead DEF MessageType
  <2> QED
    BY <1>8, <2>2 DEF KillEmpty
<1>9. ASSUME NEW t \in Thread, Publish(t) PROVE MessageInv'
  <2> DEFINE e == Timeout(Head(waiting))
  <2>1. UNCHANGED <<air, acks, frameA, sent, received>>
    BY <1>9 DEF Publish
  <2>2. verdicts' = verdicts \/ (waiting # <<>> /\ verdicts' = Append(verdicts, e))
    BY <1>9 DEF Publish
  <2>3. ASSUME waiting # <<>>
        PROVE  Members(Append(verdicts, e)) = Members(verdicts) \cup {e} /\ e.type = "data"
    <3>1. Head(waiting) \in Index
      BY <2>3, QueueHead DEF TimerType
    <3> DEFINE V == [type : {"ack", "data"}, index : Index]
    <3>2. e \in V /\ e.type = "data"
      BY <3>1 DEF Timeout
    <3>3. verdicts \in Seq(V)
      BY DEF MessageType
    <3> HIDE DEF V, e
    <3> QED
      BY <3>2, <3>3, QueueAppend
  <2> HIDE DEF e
  <2>4. \A v \in Members(verdicts') : v.type = "ack" => v.index \in received
    BY <2>2, <2>3
  <2> QED
    BY <2>1, <2>4
<1>10. CASE FrameIn \/ VerdictEmpty \/ Start \/ KillPop
  BY <1>10 DEF FrameIn, VerdictEmpty, Start, KillPop, queues, history
<1>11. ASSUME NEW t \in Thread, Countdown(t), ~Publish(t) PROVE MessageInv'
  BY <1>11 DEF Countdown, Expire, Killed, KilledTest, FlushSize, FlushWindow, Clear, queues, history
<1> QED
  BY <1>1, <1>2, <1>3, <1>4, <1>5, <1>6, <1>7, <1>8, <1>9, <1>10, <1>11
  DEF Next, vars, queues, history

-----------------------------------------------------------------------------
(* The run of frames in the window. *)

\* The frames that have left the window, if none was refused.
Gone == taken - Len(window)

\* The frames up to m have been sent, and those that the walk will not send
\* are among them.
SentUpTo(m) ==
    /\ sent = 1 .. m /\ m <= taken /\ Gone <= m
    /\ walk = <<>> => m = txedIndex
    /\ walk # <<>> => taken - Len(walk) <= m /\ Gone <= from /\ from <= m

\* While no frame was refused, the window is the run of frames that came last,
\* and so is what the walk has still to look at.
RunInv ==
    /\ undefined # "window"
    /\ Len(walk) <= Len(window)
    /\ \A j \in 1 .. Len(window) : window[j] = Gone + j
    /\ \A j \in 1 .. Len(walk) : walk[j] = taken - Len(walk) + j
    /\ \E m \in 0 .. MaxFrames : SentUpTo(m)
    /\ removed \subseteq sent

RunType == SenderType /\ MessageType /\ HistoryType

\* A frame that finds room extends the run.
LEMMA RunFrameIn ==
    ASSUME RunType, RunInv, FrameIn, refused' = {}
    PROVE  RunInv'
<1> DEFINE i == taken + 1
           q == Append(window, i)
           n == Len(window)
<1>1. window \in Seq(Index) /\ i \in Index /\ taken \in Nat
  BY BoundAssumption DEF RunType, SenderType, HistoryType, FrameIn, Index
<1>2. /\ q # <<>> /\ Len(q) = n + 1 /\ n \in Nat
      /\ \A j \in 1 .. n : q[j] = window[j]
      /\ q[n + 1] = i
  BY <1>1, QueueAppend
<1>3. /\ walk = <<>> /\ window' = q /\ taken' = i
      /\ UNCHANGED <<txedIndex, sent, removed, undefined>>
      /\ (walk' = <<>> \/ (walk' = q /\ from' = txedIndex))
  BY DEF FrameIn, WindowIdle, Transmit
<1>4. \A j \in 1 .. n : window[j] = taken - n + j
  BY DEF RunInv, Gone
<1> HIDE DEF n, q
<1>5. \A j \in 1 .. n + 1 : q[j] = i - (n + 1) + j
  <2> TAKE j \in 1 .. n + 1
  <2>1. j \in 1 .. n \/ j = n + 1
    BY <1>2
  <2>2. i - (n + 1) + j = taken - n + j
    BY <1>1, <1>2
  <2>3. CASE j \in 1 .. n
    BY <1>2, <1>4, <2>2, <2>3
  <2>4. CASE j = n + 1
    BY <1>1, <1>2, <2>4
  <2> QED
    BY <2>1, <2>3, <2>4
<1>6. PICK m \in 0 .. MaxFrames : SentUpTo(m)
  BY DEF RunInv
<1>7. sent = 1 .. m /\ m <= taken /\ taken - n <= m /\ m = txedIndex
  BY <1>3, <1>6 DEF SentUpTo, Gone, n
<1>8. Gone' = taken - n
  BY <1>1, <1>2, <1>3 DEF Gone
<1>9. SentUpTo(m)'
  <2>1. sent' = 1 .. m /\ m <= taken' /\ Gone' <= m
    BY <1>1, <1>3, <1>7, <1>8
  <2>2. walk' = <<>> => m = txedIndex'
    BY <1>3, <1>7
  <2>3. walk' # <<>> => taken' - Len(walk') <= m /\ Gone' <= from' /\ from' <= m
    BY <1>1, <1>2, <1>3, <1>7, <1>8
  <2> QED
    BY <2>1, <2>2, <2>3 DEF SentUpTo
<1>10. Len(walk') <= Len(window') /\ \A j \in 1 .. Len(walk') : walk'[j] = taken' - Len(walk') + j
  <2>1. CASE walk' = <<>>
    BY <1>2, <1>3, <2>1
  <2>2. CASE walk' = q
    BY <1>2, <1>3, <1>5, <2>2
  <2> QED
    BY <1>3, <2>1, <2>2
<1>11. \A j \in 1 .. Len(window') : window'[j] = Gone' + j
  BY <1>2, <1>3, <1>5, <1>8, <1>1
<1>12. undefined' # "window" /\ removed' \subseteq sent'
  BY <1>3 DEF RunInv
<1> QED
  BY <1>9, <1>10, <1>11, <1>12 DEF RunInv

\* The walk sends what txed_index says is new, and leaves no gap.
LEMMA RunWalkOn ==
    ASSUME RunType, RunInv, WalkOn
    PROVE  /\ RunInv'
           /\ Head(walk) \in Index /\ \A x \in Index : x < Head(walk) => x \in sent
<1> DEFINE i == Head(walk)
           n == Len(window)
           w == Len(walk)
           t == Tail(walk)
<1>1. /\ walk # <<>> /\ walk' = t /\ txedIndex' = i
      /\ UNCHANGED <<window, from, taken, removed, undefined>>
      /\ sent' = IF Due(i, from) THEN sent \cup {i} ELSE sent
  BY DEF WalkOn
<1>2. /\ walk \in Seq(Index) /\ n \in Nat /\ n <= WindowSize /\ taken \in Nat /\ taken <= MaxFrames
      /\ from \in Nat /\ WindowSize \in Nat /\ MaxFrames \in Nat
  BY BoundAssumption, WindowAssumption DEF RunType, SenderType, HistoryType
<1>3. /\ i \in Index /\ i = walk[1] /\ t \in Seq(Index) /\ Len(t) = w - 1 /\ w \in Nat /\ w >= 1
      /\ \A j \in 1 .. w - 1 : t[j] = walk[j + 1]
  BY <1>1, <1>2, QueueHead
<1>4. w <= n /\ \A j \in 1 .. w : walk[j] = taken - w + j
  BY DEF RunInv
<1>5. PICK m \in 0 .. MaxFrames : SentUpTo(m)
  BY DEF RunInv
<1>6. /\ sent = 1 .. m /\ m <= taken /\ taken - n <= m
      /\ taken - w <= m /\ taken - n <= from /\ from <= m
  BY <1>1, <1>5 DEF SentUpTo, Gone
<1> HIDE DEF i, n, w, t
<1>7. t = <<>> => w = 1
  BY <1>3
<1>8. i = taken - w + 1
  BY <1>2, <1>3, <1>4
<1>9. Due(i, from) <=> from < i
  BY <1>2, <1>3, <1>4, <1>6, <1>8 DEF Due
<1>10. PICK l \in 0 .. MaxFrames : l >= m /\ l >= i /\ l <= taken /\ (l = m \/ l = i)
  <2>1. i \in 0 .. MaxFrames /\ i <= taken
    BY <1>2, <1>3, <1>4, <1>8 DEF Index
  <2> QED
    BY <1>2, <1>5, <1>6, <2>1
<1>11. sent' = 1 .. l
  <2>1. CASE from < i
    <3>1. sent' = (1 .. m) \cup {i}
      BY <1>1, <1>6, <1>9, <2>1
    <3>2. i \in Nat /\ i >= 1 /\ i <= m + 1
      BY <1>2, <1>3, <1>5, <1>6, <1>8 DEF Index
    <3>3. CASE l = m
      BY <1>5, <1>10, <3>1, <3>2, <3>3
    <3>4. CASE l = i
      <4>1. i = m \/ i = m + 1
        BY <1>5, <1>10, <3>2, <3>4
      <4> QED
        BY <1>5, <3>1, <3>4, <3>2, <4>1
    <3> QED
      BY <1>10, <3>3, <3>4
  <2>2. CASE ~(from < i)
    <3>1. sent' = 1 .. m
      BY <1>1, <1>6, <1>9, <2>2
    <3>2. i <= m
      BY <1>2, <1>3, <1>4, <1>6, <1>8, <2>2
    <3> QED
      <4>1. l = m
        BY <1>3, <1>5, <1>10, <3>2 DEF Index
      <4> QED
        BY <3>1, <4>1
  <2> QED
    BY <2>1, <2>2
<1>12. Len(window') = n /\ Len(walk') = w - 1 /\ Gone' = taken - n
  BY <1>1, <1>3 DEF Gone, n
<1>13. SentUpTo(l)'
  <2>1. sent' = 1 .. l /\ l <= taken' /\ Gone' <= l
    <3>1. taken - n <= l
      BY <1>2, <1>5, <1>6, <1>10
    <3> QED
      BY <1>1, <1>10, <1>11, <1>12, <3>1
  <2>2. walk' = <<>> => l = txedIndex'
    BY <1>1, <1>2, <1>3, <1>5, <1>6, <1>7, <1>8, <1>10
  <2>3. walk' # <<>> => taken' - Len(walk') <= l /\ Gone' <= from' /\ from' <= l
    BY <1>1, <1>2, <1>3, <1>4, <1>5, <1>6, <1>8, <1>10, <1>12
  <2> QED
    BY <2>1, <2>2, <2>3 DEF SentUpTo
<1>14. Len(walk') <= Len(window') /\ \A j \in 1 .. Len(walk') : walk'[j] = taken' - Len(walk') + j
  <2>1. Len(walk') <= Len(window')
    BY <1>2, <1>3, <1>4, <1>12
  <2>2. ASSUME NEW j \in 1 .. w - 1 PROVE t[j] = taken - (w - 1) + j
    <3>1. j + 1 \in 1 .. w /\ taken - w + (j + 1) = taken - (w - 1) + j
      BY <1>2, <1>3
    <3> QED
      BY <1>3, <1>4, <3>1
  <2> QED
    BY <1>1, <1>12, <2>1, <2>2
<1>15. \A j \in 1 .. Len(window') : window'[j] = Gone' + j
  BY <1>1 DEF RunInv, Gone
<1>16. undefined' # "window" /\ removed' \subseteq sent'
  BY <1>1 DEF RunInv
<1>17. RunInv'
  BY <1>10, <1>13, <1>14, <1>15, <1>16 DEF RunInv
<1>18. \A x \in Index : x < i => x \in sent
  BY <1>2, <1>3, <1>4, <1>5, <1>6, <1>8 DEF Index
<1> QED
  BY <1>3, <1>17, <1>18 DEF i

\* An acknowledgement pops what it counts, which the window holds and the walk
\* has sent.
LEMMA RunVerdictAck ==
    ASSUME RunType, MessageInv, RunInv, VerdictAck
    PROVE  /\ RunInv'
           /\ Head(verdicts).index \in received
           /\ \A x \in removed' : x \in removed \/ (x \in Nat /\ x <= Head(verdicts).index)
<1> DEFINE i == Head(verdicts).index
           wait == Head(window)
           k == Acked(i, wait)
           n == Len(window)
           d == Drop(window, k)
           gone == taken - n
<1>1. /\ walk = <<>> /\ window # <<>> /\ verdicts # <<>> /\ undefined = "no"
      /\ Head(verdicts).type = "ack"
      /\ UNCHANGED <<txedIndex, taken, sent>>
      /\ \/ /\ i >= wait \/ Wrapped(i, wait)
            /\ window' = d /\ undefined' = (IF k > n THEN "window" ELSE "no")
            /\ removed' = removed \cup (Members(window) \ Members(d))
            /\ walk' = <<>> /\ from' = from
         \/ /\ walk' = window /\ from' = txedIndex
            /\ window' = window /\ undefined' = "no" /\ removed' = removed
  BY DEF VerdictAck, WindowIdle, Transmit
<1>2. window \in Seq(Index) /\ n \in Nat /\ taken \in Nat /\ taken <= MaxFrames /\ MaxFrames \in Nat
  BY BoundAssumption DEF RunType, SenderType, HistoryType
<1>3. wait = window[1] /\ wait \in Index /\ n >= 1
  BY <1>1, <1>2, QueueHead
<1>4. i \in Index /\ i \in received /\ i \in sent
  BY <1>1, Verdict, VerdictReceived DEF RunType, MessageInv
<1>5. /\ \A j \in 1 .. n : window[j] = gone + j
      /\ removed \subseteq sent
  BY DEF RunInv, Gone
<1>6. PICK m \in 0 .. MaxFrames : SentUpTo(m)
  BY DEF RunInv
<1>7. sent = 1 .. m /\ m <= taken /\ gone <= m /\ m = txedIndex
  BY <1>1, <1>6 DEF SentUpTo, Gone
<1> HIDE DEF i, wait, n
<1>8. i \in Nat /\ wait \in Nat /\ wait = gone + 1 /\ i <= m /\ gone \in Nat
  BY <1>2, <1>3, <1>4, <1>5, <1>7 DEF Index
<1>9. k \in Nat /\ k <= n /\ (i >= wait => gone + k = i) /\ (~(i >= wait) => k = 0)
  BY <1>2, <1>3, <1>6, <1>7, <1>8 DEF Acked
<1> HIDE DEF k
<1>10. /\ d \in Seq(Index) /\ Len(d) = n - k
       /\ \A j \in 1 .. n - k : d[j] = window[k + j]
  <2>1. /\ d \in Seq(Index) /\ Len(d) = (IF k <= Len(window) THEN Len(window) - k ELSE 0)
        /\ \A j \in 1 .. Len(window) - k : d[j] = window[k + j]
    BY <1>2, <1>9, QueueDrop
  <2> QED
    BY <1>9, <2>1 DEF n
<1> HIDE DEF d, gone
<1>11. gone = taken - n
  BY DEF gone
<1>12. CASE /\ window' = d /\ undefined' = (IF k > n THEN "window" ELSE "no")
            /\ removed' = removed \cup (Members(window) \ Members(d))
            /\ walk' = <<>> /\ from' = from
  <2>1. Len(window') = n - k /\ Gone' = gone + k /\ Len(walk') = 0
    <3>1. Len(window') = n - k /\ taken' = taken
      BY <1>1, <1>10, <1>12
    <3>2. Gone' = taken - (n - k)
      BY <3>1 DEF Gone
    <3>3. Len(walk') = 0
      BY <1>12
    <3> QED
      BY <1>2, <1>9, <1>11, <3>1, <3>2, <3>3
  <2>2. ASSUME NEW x \in Members(window) \ Members(d)
        PROVE  x \in Nat /\ x <= i /\ x \in sent
    <3>1. PICK j \in 1 .. n : x = window[j]
      BY DEF Members, n
    <3>2. j <= k
      <4> SUFFICES ASSUME ~(j <= k) PROVE FALSE
        OBVIOUS
      <4> DEFINE p == j - k
      <4>1. p \in 1 .. n - k /\ k + p = j
        BY <1>2, <1>9
      <4> HIDE DEF p
      <4>2. d[p] = x /\ p \in 1 .. Len(d)
        BY <1>10, <3>1, <4>1
      <4> QED
        BY <4>2 DEF Members
    <3>3. x = gone + j /\ i >= wait
      BY <1>5, <1>9, <3>1, <3>2
    <3> QED
      BY <1>6, <1>7, <1>8, <1>9, <3>2, <3>3
  <2>3. removed' \subseteq sent' /\ \A x \in removed' : x \in removed \/ (x \in Nat /\ x <= i)
    BY <1>1, <1>5, <1>12, <2>2
  <2>4. \A j \in 1 .. Len(window') : window'[j] = Gone' + j
    <3> SUFFICES ASSUME NEW j \in 1 .. n - k PROVE d[j] = (gone + k) + j
      BY <1>12, <2>1
    <3> DEFINE p == k + j
    <3>1. p \in 1 .. n /\ gone + p = (gone + k) + j
      BY <1>2, <1>8, <1>9
    <3> HIDE DEF p
    <3>2. window[p] = gone + p
      BY <1>5, <3>1
    <3> QED
      BY <1>10, <3>1, <3>2 DEF p
  <2>5. SentUpTo(m)'
    <3>1. gone + k <= m
      BY <1>7, <1>8, <1>9
    <3> QED
      BY <1>1, <1>7, <1>12, <2>1, <3>1 DEF SentUpTo
  <2>6. undefined' # "window"
    BY <1>2, <1>9, <1>12
  <2>7. Len(walk') <= Len(window') /\ \A j \in 1 .. Len(walk') : walk'[j] = taken' - Len(walk') + j
    BY <1>2, <1>9, <2>1
  <2> QED
    BY <1>4, <2>3, <2>4, <2>5, <2>6, <2>7 DEF RunInv, i
<1>13. CASE /\ walk' = window /\ from' = txedIndex
            /\ window' = window /\ undefined' = "no" /\ removed' = removed
  <2>1. Len(window') = n /\ Gone' = gone /\ Len(walk') = n /\ taken' = taken
    BY <1>1, <1>11, <1>13 DEF Gone, n
  <2>2. SentUpTo(m)'
    <3>1. sent' = 1 .. m /\ m <= taken' /\ Gone' <= m
      BY <1>1, <1>7, <2>1
    <3>2. walk' # <<>>
      BY <1>1, <1>13
    <3>3. taken' - Len(walk') <= m /\ Gone' <= from' /\ from' <= m
      BY <1>6, <1>7, <1>11, <1>13, <2>1
    <3> QED
      BY <3>1, <3>2, <3>3 DEF SentUpTo
  <2>3. /\ \A j \in 1 .. Len(window') : window'[j] = Gone' + j
        /\ \A j \in 1 .. Len(walk') : walk'[j] = taken' - Len(walk') + j
    BY <1>5, <1>11, <1>13, <2>1
  <2>4. removed' \subseteq sent' /\ Len(walk') <= Len(window') /\ undefined' # "window"
    BY <1>1, <1>2, <1>5, <1>13, <2>1
  <2> QED
    BY <1>4, <1>13, <2>2, <2>3, <2>4 DEF RunInv, i
<1> QED
  BY <1>1, <1>12, <1>13

\* A timeout sends the walk back to the front of the window.
LEMMA RunVerdictTimeout ==
    ASSUME RunType, RunInv, VerdictTimeout
    PROVE  RunInv'
<1> DEFINE n == Len(window)
           gone == taken - n
<1>1. /\ walk = <<>> /\ window # <<>> /\ walk' = window /\ from' = Head(window) - 1
      /\ UNCHANGED <<window, taken, sent, removed, undefined>>
  BY DEF VerdictTimeout, WindowIdle, Transmit, history
<1>2. window \in Seq(Index) /\ n \in Nat /\ taken \in Nat
  BY DEF RunType, SenderType, HistoryType
<1>3. Head(window) = window[1] /\ n >= 1
  BY <1>1, <1>2, QueueHead
<1>4. \A j \in 1 .. n : window[j] = gone + j
  BY DEF RunInv, Gone
<1>5. PICK m \in 0 .. MaxFrames : SentUpTo(m)
  BY DEF RunInv
<1>6. sent = 1 .. m /\ m <= taken /\ gone <= m
  BY <1>5 DEF SentUpTo, Gone
<1>7. Len(window') = n /\ Gone' = gone /\ Len(walk') = n
  BY <1>1 DEF Gone
<1>8. gone = taken - n
  OBVIOUS
<1> HIDE DEF n, gone
<1>9. from' = gone
  BY <1>1, <1>2, <1>3, <1>4, <1>8
<1>10. SentUpTo(m)'
  <2>1. sent' = 1 .. m /\ m <= taken' /\ Gone' <= m
    BY <1>1, <1>6, <1>7
  <2>2. taken' - Len(walk') <= m /\ Gone' <= from' /\ from' <= m
    BY <1>1, <1>2, <1>5, <1>6, <1>7, <1>8, <1>9
  <2> QED
    BY <1>1, <2>1, <2>2 DEF SentUpTo
<1>11. /\ \A j \in 1 .. Len(window') : window'[j] = Gone' + j
       /\ \A j \in 1 .. Len(walk') : walk'[j] = taken' - Len(walk') + j
  BY <1>1, <1>4, <1>7, <1>8
<1>12. removed' \subseteq sent' /\ Len(walk') <= Len(window') /\ undefined' # "window"
  BY <1>1, <1>2, <1>7 DEF RunInv
<1> QED
  BY <1>10, <1>11, <1>12 DEF RunInv

\* Nothing else touches the run.
LEMMA RunStep ==
    ASSUME RunType, MessageInv, refused = {} => RunInv, [Next]_vars, refused' = {}
    PROVE  RunInv'
<1>1. refused = {}
  BY DEF Next, vars, history, LoseData, LoseAck, Receive, FrameIn, WalkOn, VerdictAck,
     VerdictTimeout, VerdictEmpty, Start, Kill, KillPop, KillEmpty, Countdown, Expire, Killed,
     KilledTest, Publish, FlushSize,
     FlushWindow, Clear
<1>2. RunInv
  BY <1>1
<1>3. CASE FrameIn \/ WalkOn \/ VerdictAck \/ VerdictTimeout
  BY <1>2, <1>3, RunFrameIn, RunWalkOn, RunVerdictAck, RunVerdictTimeout
<1>4. ASSUME UNCHANGED <<sender, taken, sent, removed>>, undefined' # "window"
      PROVE  RunInv'
  <2>1. Gone' = Gone /\ \A m : SentUpTo(m)' <=> SentUpTo(m)
    BY <1>4 DEF Gone, SentUpTo, sender
  <2> QED
    BY <1>2, <1>4, <2>1 DEF RunInv, sender
<1>5. CASE UNCHANGED vars
  BY <1>2, <1>4, <1>5 DEF vars, history, RunInv
<1>6. CASE LoseData \/ LoseAck \/ Receive \/ Start \/ Kill
  BY <1>2, <1>4, <1>6 DEF LoseData, LoseAck, Receive, Start, Kill, history, RunInv
<1>7. CASE VerdictEmpty \/ KillPop \/ KillEmpty
  BY <1>2, <1>4, <1>7 DEF VerdictEmpty, KillPop, KillEmpty, RunInv
<1>8. ASSUME NEW t \in Thread, Countdown(t) PROVE RunInv'
  BY <1>2, <1>4, <1>8 DEF Countdown, Expire, Killed, KilledTest, Publish, FlushSize,
     FlushWindow, Clear,
     history, RunInv
<1> QED
  BY <1>3, <1>5, <1>6, <1>7, <1>8 DEF Next

-----------------------------------------------------------------------------
(* The order of the first arrivals. *)

\* While no data frame was lost either, frames arrive for the first time in
\* order: when a frame arrives, all before it have arrived.
OrderInv ==
    /\ sent \subseteq received \cup Members(air)
    /\ \A j \in 1 .. Len(air) : \A x \in Index :
          x < air[j] => x \in received \/ \E l \in 1 .. j : air[l] = x
    /\ \A i \in received : \A x \in Index : x < i => x \in received
    /\ removed \subseteq received

\* A frame that the walk sends follows all that come before it.
LEMMA OrderWalkOn ==
    ASSUME RunType, RunInv, OrderInv, WalkOn, ~lossy'
    PROVE  OrderInv'
<1> DEFINE i == Head(walk)
           n == Len(air)
           a == Append(air, i)
<1>1. i \in Index /\ \A x \in Index : x < i => x \in sent
  BY RunWalkOn
<1>2. /\ received' = received /\ removed' = removed
      /\ \/ air' = air /\ sent' = sent
         \/ air' = a /\ sent' = sent \cup {i}
  <2>1. CASE Due(i, from)
    <3>1. air' = OnAir(air, i) /\ sent' = sent \cup {i} /\ (lossy' = (lossy \/ Len(air) >= AirCap))
      BY <2>1 DEF WalkOn
    <3>2. ~(Len(air) >= AirCap)
      BY <3>1, Zenon
    <3>3. Len(air) < AirCap
      BY <3>2, BoundAssumption DEF RunType, MessageType
    <3> QED
      BY <3>1, <3>3 DEF OnAir, WalkOn
  <2>2. CASE ~Due(i, from)
    BY <2>2 DEF WalkOn
  <2> QED
    BY <2>1, <2>2
<1>3. air \in Seq(Index)
  BY DEF RunType, MessageType
<1> HIDE DEF i
<1>4. /\ Len(a) = n + 1 /\ n \in Nat
      /\ \A j \in 1 .. n : a[j] = air[j]
      /\ a[n + 1] = i
      /\ Members(a) = Members(air) \cup {i}
  BY <1>1, <1>3, QueueAppend
<1>5. Members(air) = {air[l] : l \in 1 .. n}
  BY DEF Members
<1> HIDE DEF n, a
<1>6. CASE air' = air /\ sent' = sent
  BY <1>2, <1>6 DEF OrderInv
<1>7. CASE air' = a /\ sent' = sent \cup {i}
  <2>1. sent' \subseteq received' \cup Members(air')
    BY <1>2, <1>4, <1>7 DEF OrderInv
  <2>2. ASSUME NEW j \in 1 .. n + 1, NEW x \in Index, x < a[j], x \notin received
        PROVE  \E l \in 1 .. j : a[l] = x
    <3>1. CASE j \in 1 .. n
      <4>1. PICK l \in 1 .. j : air[l] = x
        BY <1>4, <2>2, <3>1 DEF OrderInv, n
      <4>2. l \in 1 .. n
        BY <1>4, <3>1
      <4> QED
        BY <1>4, <4>1, <4>2
    <3>2. CASE j = n + 1
      <4>1. x \in Members(air)
        BY <1>1, <1>4, <2>2, <3>2 DEF OrderInv
      <4>2. PICK l \in 1 .. n : air[l] = x
        BY <1>5, <4>1
      <4>3. l \in 1 .. j
        BY <1>4, <3>2
      <4> QED
        BY <1>4, <4>2, <4>3
    <3> QED
      BY <1>4, <3>1, <3>2
  <2>3. \A j \in 1 .. Len(air') : \A x \in Index :
           x < air'[j] => x \in received' \/ \E l \in 1 .. j : air'[l] = x
    BY <1>2, <1>4, <1>7, <2>2
  <2> QED
    BY <1>2, <2>1, <2>3 DEF OrderInv
<1> QED
  BY <1>2, <1>6, <1>7

\* A frame that arrives finds all that come before it.
LEMMA OrderReceive ==
    ASSUME RunType, OrderInv, Receive
    PROVE  OrderInv'
<1> DEFINE i == Head(air)
           n == Len(air)
           t == Tail(air)
<1>1. /\ air # <<>> /\ air' = t /\ received' = received \cup {i}
      /\ sent' = sent /\ removed' = removed
  BY DEF Receive
<1>2. /\ air \in Seq(Index) /\ i \in Index /\ i = air[1]
      /\ Len(t) = n - 1 /\ n \in Nat /\ n >= 1
      /\ \A j \in 1 .. n - 1 : t[j] = air[j + 1]
      /\ Members(air) = {i} \cup Members(t)
  BY <1>1, QueueHead DEF RunType, MessageType
<1>3. \A j \in 1 .. n : \A x \in Index :
          x < air[j] => x \in received \/ \E l \in 1 .. j : air[l] = x
  BY DEF OrderInv
<1> HIDE DEF i, n, t
<1>4. sent' \subseteq received' \cup Members(air')
  BY <1>1, <1>2 DEF OrderInv
<1>5. ASSUME NEW x \in Index, x < i PROVE x \in received
  <2>1. x < air[1] /\ 1 \in 1 .. n
    BY <1>2, <1>5
  <2>2. x \in received \/ \E l \in 1 .. 1 : air[l] = x
    BY <1>3, <2>1
  <2>3. air[1] # x
    BY <1>2, <1>5 DEF Index
  <2> QED
    BY <2>2, <2>3
<1>6. ASSUME NEW j \in 1 .. n - 1, NEW x \in Index, x < t[j], x \notin received'
      PROVE  \E l \in 1 .. j : t[l] = x
  <2> DEFINE p == j + 1
  <2>1. p \in 1 .. n /\ t[j] = air[p]
    BY <1>2
  <2> HIDE DEF p
  <2>2. PICK l \in 1 .. p : air[l] = x
    BY <1>1, <1>3, <1>6, <2>1
  <2>3. l # 1
    BY <1>1, <1>2, <1>6, <2>2
  <2> DEFINE h == l - 1
  <2>4. h \in 1 .. j /\ h \in 1 .. n - 1 /\ h + 1 = l
    BY <1>2, <2>3 DEF p
  <2> HIDE DEF h
  <2> QED
    BY <1>2, <2>2, <2>4
<1>7. \A j \in 1 .. Len(air') : \A x \in Index :
         x < air'[j] => x \in received' \/ \E l \in 1 .. j : air'[l] = x
  BY <1>1, <1>2, <1>6
<1>8. \A y \in received' : \A x \in Index : x < y => x \in received'
  BY <1>1, <1>5 DEF OrderInv
<1> QED
  BY <1>1, <1>4, <1>7, <1>8 DEF OrderInv

\* Every step keeps the order.
LEMMA OrderStep ==
    ASSUME RunType, MessageInv, refused = {} => RunInv, refused = {} /\ ~lossy => OrderInv,
           [Next]_vars, refused' = {}, ~lossy'
    PROVE  OrderInv'
<1>1. refused = {}
  BY DEF Next, vars, history, LoseData, LoseAck, Receive, FrameIn, WalkOn, VerdictAck,
     VerdictTimeout, VerdictEmpty, Start, Kill, KillPop, KillEmpty, Countdown, Expire, Killed,
     KilledTest, Publish, FlushSize,
     FlushWindow, Clear
<1>2. ~lossy
  BY DEF Next, vars, history, LoseData, LoseAck, Receive, FrameIn, WalkOn, VerdictAck,
     VerdictTimeout, VerdictEmpty, Start, Kill, KillPop, KillEmpty, Countdown, Expire, Killed,
     KilledTest, Publish, FlushSize,
     FlushWindow, Clear
<1>3. RunInv /\ OrderInv
  BY <1>1, <1>2
<1>4. CASE WalkOn \/ Receive
  BY <1>3, <1>4, OrderWalkOn, OrderReceive
<1>5. CASE VerdictAck
  <2>1. /\ Head(verdicts).index \in received /\ removed' \subseteq Index
        /\ \A x \in removed' : x \in removed \/ (x \in Nat /\ x <= Head(verdicts).index)
    <3>1. removed' \subseteq Index
      BY <1>5 DEF VerdictAck, RunType, SenderType, HistoryType, Members
    <3> QED
      BY <1>3, <1>5, <3>1, RunVerdictAck
  <2>2. UNCHANGED <<air, sent, received>>
    BY <1>5 DEF VerdictAck
  <2>3. received \subseteq Index /\ MaxFrames \in Nat
    BY BoundAssumption DEF RunType, HistoryType
  <2> DEFINE i == Head(verdicts).index
  <2> HIDE DEF i
  <2>4. i \in received /\ i \in Nat /\ \A x \in removed' : x \in removed \/ x = i \/ x < i
    <3>1. i \in received /\ removed' \subseteq Index
          /\ \A x \in removed' : x \in removed \/ (x \in Nat /\ x <= i)
      BY <2>1 DEF i
    <3>2. i \in Nat
      BY <2>3, <3>1 DEF Index
    <3> QED
      BY <3>1, <3>2
  <2>5. removed' \subseteq received
    BY <1>3, <2>1, <2>4 DEF OrderInv
  <2> QED
    BY <1>3, <2>2, <2>5 DEF OrderInv
<1>6. CASE LoseData
  BY <1>6 DEF LoseData
<1>7. CASE UNCHANGED <<air, sent, received, removed>>
  BY <1>3, <1>7 DEF OrderInv
<1> QED
  BY <1>4, <1>5, <1>6, <1>7 DEF Next, vars, queues, history, LoseAck, FrameIn,
     VerdictTimeout, VerdictEmpty, Start, Kill, KillPop, KillEmpty, Countdown, Expire, Killed,
     KilledTest, Publish, FlushSize,
     FlushWindow, Clear

-----------------------------------------------------------------------------
(* The theorems about the window. *)

WindowInv ==
    /\ MessageInv
    /\ refused = {} => RunInv
    /\ refused = {} /\ ~lossy => OrderInv

\* The window begins with nothing to say.
LEMMA WindowInit == Init => WindowInv
<1> SUFFICES ASSUME Init PROVE WindowInv
  OBVIOUS
<1> USE DEF Init
<1>1. MessageInv
  BY DEF MessageInv, Members
<1>2. SentUpTo(0) /\ 0 \in 0 .. MaxFrames
  BY BoundAssumption DEF SentUpTo, Gone
<1>3. RunInv
  BY <1>2 DEF RunInv, Gone
<1>4. OrderInv
  BY DEF OrderInv
<1> QED
  BY <1>1, <1>3, <1>4 DEF WindowInv

\* Every step keeps it.
LEMMA WindowStep == TypeInv /\ WindowInv /\ [Next]_vars => WindowInv'
<1> SUFFICES ASSUME TypeInv, WindowInv, [Next]_vars PROVE WindowInv'
  OBVIOUS
<1>1. RunType
  BY Types DEF RunType
<1>2. MessageInv'
  BY MessageInvStep DEF WindowInv
<1>3. refused' = {} => RunInv'
  BY <1>1, RunStep DEF WindowInv
<1>4. refused' = {} /\ ~lossy' => OrderInv'
  BY <1>1, OrderStep DEF WindowInv
<1> QED
  BY <1>2, <1>3, <1>4 DEF WindowInv

\* It holds in every state.
LEMMA WindowInvariant == Spec => []WindowInv
BY TypeInit, TypeStep, WindowInit, WindowStep, PTL DEF Spec

\* An acknowledgement never pops more frames than the window holds unless
\* frame_in has refused one.
THEOREM PopsHeld == Spec => []PopsFit
<1>1. WindowInv => PopsFit
  BY DEF WindowInv, RunInv, PopsFit
<1> QED
  BY <1>1, WindowInvariant, PTL

\* However often the timer sends the walk of transmit_window back, no frame
\* leaves the window without having been transmitted, unless one was refused.
THEOREM TransmittedBeforeRemoved == Spec => []NothingSkipped
<1>1. WindowInv => NothingSkipped
  BY DEF WindowInv, RunInv, NothingSkipped
<1> QED
  BY <1>1, WindowInvariant, PTL

\* Without a lost or refused frame, an acknowledgement is as good as the frame:
\* what leaves the window has reached the other side.
THEOREM ReceivedBeforeRemoved == Spec => []AckedWasReceived
<1>1. WindowInv => AckedWasReceived
  BY DEF WindowInv, OrderInv, AckedWasReceived
<1> QED
  BY <1>1, WindowInvariant, PTL
=============================================================================
