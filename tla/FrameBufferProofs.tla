-------------------------- MODULE FrameBufferProofs --------------------------
(***************************************************************************)
(* What holds of the frame buffer for every size and mode and for any       *)
(* number of elements: its types, the order of the elements, that none of   *)
(* them vanishes, that a request waits only at an empty buffer, and that    *)
(* the service loop around it uses the buffer as it may be used and keeps   *)
(* the right to transmit.                                                   *)
(***************************************************************************)
EXTENDS BufferService, SequenceTheorems, TLAPS

-----------------------------------------------------------------------------
(* Publishing the head of a queue. *)

\* Concatenation is associative on queues of numbers.
LEMMA QueueAssociative ==
    ASSUME NEW s \in Seq(Nat), NEW t \in Seq(Nat), NEW u \in Seq(Nat)
    PROVE  (s \o t) \o u = s \o (t \o u)
BY ConcatAssociative

\* Publishing k elements of q moves the first k to the output.
LEMMA PublishLemma ==
    ASSUME NEW q \in Seq(Nat), NEW k \in 0 .. Len(q), out \in Seq(Nat),
           Publish(q, k)
    PROVE  /\ out' \in Seq(Nat) /\ buffer' \in Seq(Nat)
           /\ Len(out') = Len(out) + k
           /\ Len(buffer') = Len(q) - k
           /\ out' \o buffer' = out \o q
<1> DEFINE a == SubSeq(q, 1, k)
           b == SubSeq(q, k + 1, Len(q))
<1>1. a \in Seq(Nat) /\ Len(a) = k /\ \A i \in 1 .. k : a[i] = q[i]
  OBVIOUS
<1>2. b \in Seq(Nat) /\ Len(b) = Len(q) - k /\ \A i \in 1 .. Len(q) - k : b[i] = q[k + i]
  OBVIOUS
<1>3. out' = out \o a /\ buffer' = b
  BY DEF Publish
<1> HIDE DEF a, b
<1>4. Len(out') = Len(out) + k /\ out' \in Seq(Nat)
  BY <1>1, <1>3, ConcatProperties
<1>5. a \o b = q
  <2>0. 1 \in 1 .. Len(q) + 1 /\ k \in 1 - 1 .. Len(q) /\ Len(q) \in k .. Len(q)
    OBVIOUS
  <2>1. a \o b = SubSeq(q, 1, Len(q))
    BY <2>0, ConcatAdjacentSubSeq, Zenon DEF a, b
  <2>2. SubSeq(q, 1, Len(q)) = q
    OBVIOUS
  <2> QED
    BY <2>1, <2>2
<1>6. (out \o a) \o b = out \o q
  <2>0. out \in Seq(Nat) /\ a \in Seq(Nat) /\ b \in Seq(Nat)
    BY <1>1, <1>2
  <2>1. (out \o a) \o b = out \o (a \o b)
    BY <2>0, QueueAssociative
  <2> QED
    BY <1>5, <2>1
<1> QED
  BY <1>2, <1>3, <1>4, <1>6

\* An element that finds room makes a queue long enough for all that is popped.
LEMMA EnqueueLemma ==
    ASSUME TypeOK, Enqueue
    PROVE  \E q \in Seq(Nat), k \in 0 .. 2 :
              /\ q = Append(buffer, arrivals + 1)
              /\ Len(q) = Len(buffer) + 1 /\ Len(q) <= size
              /\ k = (IF Len(q) >= size /\ autoDequeueFull THEN 1 ELSE 0)
                     + (IF Serves THEN 1 ELSE 0)
              /\ k <= Len(q)
              /\ Publish(q, k)
<1> DEFINE q == Append(buffer, arrivals + 1)
           k == (IF Len(q) >= size /\ autoDequeueFull THEN 1 ELSE 0)
                + (IF Serves THEN 1 ELSE 0)
<1>1. q \in Seq(Nat) /\ Len(q) = Len(buffer) + 1 /\ Len(q) \in Nat
  BY ArrivalsAssumption DEF TypeOK
<1>2. Len(q) <= size /\ size \in Sizes /\ size \in Nat
  BY <1>1, SizesAssumption DEF Enqueue, HasRoom, TypeOK
<1>3. k \in 0 .. 2
  OBVIOUS
<1>4. k <= Len(q)
  <2> HIDE DEF q
  <2>1. autoDequeueFull => size # 1
    BY DEF TypeOK, SizeFits
  <2>2. Len(q) >= 1
    BY <1>1 DEF q, TypeOK
  <2> QED
    BY <1>1, <1>2, <2>1, <2>2
<1>5. Publish(q, k)
  BY DEF Enqueue
<1> QED
  BY <1>1, <1>2, <1>3, <1>4, <1>5

-----------------------------------------------------------------------------
(* Types, and the request that waits. *)

RequestInv == TypeOK /\ RequestWaitsOnlyWhenEmpty

\* A buffer that does not grow stays within the sizes.
LEMMA StillFits ==
    ASSUME TypeOK, buffer' \in Seq(Nat), Len(buffer') <= Len(buffer)
    PROVE  \E s \in Sizes : Len(buffer') <= s
BY SizesAssumption DEF TypeOK

\* Each handler keeps the types and leaves no request beside an element.
LEMMA EnqueueRequest == RequestInv /\ Enqueue => RequestInv'
<1> SUFFICES ASSUME RequestInv, Enqueue PROVE RequestInv'
  OBVIOUS
<1> USE DEF RequestInv, RequestWaitsOnlyWhenEmpty
<1>1. PICK q \in Seq(Nat), k \in 0 .. 2 :
              /\ Len(q) = Len(buffer) + 1 /\ Len(q) <= size
              /\ k = (IF Len(q) >= size /\ autoDequeueFull THEN 1 ELSE 0)
                     + (IF Serves THEN 1 ELSE 0)
              /\ k <= Len(q)
              /\ Publish(q, k)
  BY EnqueueLemma
<1>2. Len(q) \in Nat /\ k \in 0 .. Len(q)
  BY <1>1
<1>3. /\ out' \in Seq(Nat) /\ buffer' \in Seq(Nat)
      /\ Len(buffer') = Len(q) - k
  BY <1>1, <1>2, PublishLemma DEF TypeOK
<1>a. \E s \in Sizes : Len(buffer') <= s
  BY <1>1, <1>2, <1>3, SizesAssumption DEF TypeOK
<1>4. TypeOK'
  BY <1>3, <1>a, ArrivalsAssumption, ModeAssumption
  DEF TypeOK, SizeFits, Enqueue, RequestAfter, settings
<1>5. dequeueWhenAvailable' => buffer' = <<>>
  <2> SUFFICES ASSUME dequeueWhenAvailable' PROVE buffer' = <<>>
    OBVIOUS
  <2>1. dequeueWhenAvailable /\ Serves /\ buffer = <<>>
    BY DEF Enqueue, RequestAfter, Serves
  <2>2. Len(q) = 1 /\ k >= 1
    BY <1>1, <2>1
  <2>3. Len(buffer') = 0
    BY <1>2, <1>3, <2>2
  <2> QED
    BY <1>3, <2>3, EmptySeq
<1> QED
  BY <1>4, <1>5

\* The handlers other than enqueue keep the invariant of RequestNeverStuck.
LEMMA OtherRequest == RequestInv /\ [Next]_vars => RequestInv'
<1> SUFFICES ASSUME RequestInv, [Next]_vars PROVE RequestInv'
  OBVIOUS
<1> USE ArrivalsAssumption, ModeAssumption
    DEF RequestInv, RequestWaitsOnlyWhenEmpty, TypeOK, SizeFits, flags, settings
<1>1. CASE Enqueue
  BY <1>1, EnqueueRequest
<1>2. CASE EnqueueDropped
  BY <1>2 DEF EnqueueDropped
<1>3. CASE Dequeue
  <2>1. Len(buffer) \in Nat \ {0}
    BY <1>3, EmptySeq DEF Dequeue
  <2>2. /\ out' \in Seq(Nat) /\ buffer' \in Seq(Nat)
        /\ Len(buffer') <= Len(buffer)
    BY <1>3, <2>1, PublishLemma DEF Dequeue, PublishHead
  <2>3. \E s \in Sizes : Len(buffer') <= s
    BY <2>2, StillFits
  <2> QED
    BY <1>3, <2>2, <2>3 DEF Dequeue
<1>4. CASE DequeueEmpty
  BY <1>4 DEF DequeueEmpty, Remember
<1>5. ASSUME NEW n \in 0 .. MaxArrivals, DequeueMany(n) PROVE RequestInv'
  <2> DEFINE k == IF n < Len(buffer) THEN n ELSE Len(buffer)
  <2>1. k \in 0 .. Len(buffer)
    OBVIOUS
  <2>2. CASE buffer # <<>> /\ n > 0
    <3>1. /\ out' \in Seq(Nat) /\ buffer' \in Seq(Nat)
          /\ Len(buffer') <= Len(buffer)
      BY <1>5, <2>1, <2>2, PublishLemma DEF DequeueMany
    <3>2. \E s \in Sizes : Len(buffer') <= s
      BY <3>1, StillFits
    <3> QED
      BY <1>5, <2>1, <2>2, <3>1, <3>2 DEF DequeueMany
  <2>3. CASE ~(buffer # <<>> /\ n > 0)
    BY <1>5, <2>3 DEF DequeueMany
  <2> QED
    BY <2>2, <2>3
<1>6. CASE Flush
  <2>1. Held \subseteq Nat
    BY DEF Held
  <2>2. buffer' = <<>> /\ buffer' \in Seq(Nat) /\ Len(buffer') = 0
    BY <1>6, EmptySeq DEF Flush
  <2>3. \E s \in Sizes : Len(buffer') <= s
    BY <2>2, StillFits
  <2> QED
    BY <1>6, <2>1, <2>2, <2>3 DEF Flush
<1>7. CASE ResetSize
  BY <1>7 DEF ResetSize
<1>8. CASE Indicate
  BY <1>8 DEF Indicate
<1>9. CASE UNCHANGED vars
  BY <1>9 DEF vars
<1> QED
  BY <1>1, <1>2, <1>3, <1>4, <1>5, <1>6, <1>7, <1>8, <1>9 DEF Next

\* It holds initially.
LEMMA InitRequest == Init => RequestInv
<1> SUFFICES ASSUME Init PROVE RequestInv
  OBVIOUS
<1>1. buffer \in Seq(Nat) /\ out \in Seq(Nat)
  BY EmptySeq DEF Init
<1>2. arrivals \in 0 .. MaxArrivals /\ report \in Int
  BY ArrivalsAssumption DEF Init
<1>3. \E s \in Sizes : Len(buffer) <= s
  BY SizesAssumption, EmptySeq DEF Init
<1> QED
  BY <1>1, <1>2, <1>3 DEF Init, RequestInv, RequestWaitsOnlyWhenEmpty, TypeOK

\* Whatever order the messages come in, the buffer never holds more elements
\* than the largest size it may be given, and its state is well typed.
THEOREM BufferTypeCorrect == Spec => []TypeOK
<1> QED
  BY InitRequest, OtherRequest, PTL DEF Spec, RequestInv

\* Whatever order the messages come in, the state of the buffer is well typed
\* and a remembered request never waits beside an element.
THEOREM RequestNeverStuck == Spec => [](TypeOK /\ RequestWaitsOnlyWhenEmpty)
<1> QED
  BY InitRequest, OtherRequest, PTL DEF Spec, RequestInv

-----------------------------------------------------------------------------
(* The order of the elements. *)

Ascending(s) == \A i \in 1 .. Len(s) - 1 : s[i] < s[i + 1]
UpTo(s, n) == \A i \in 1 .. Len(s) : s[i] <= n

OrderInv == TypeOK /\ InOrder /\ UpTo(out \o buffer, arrivals)

\* A new largest element at the end keeps a queue ascending.
LEMMA AscendingAppend ==
    ASSUME NEW s \in Seq(Nat), NEW n \in Nat, Ascending(s), UpTo(s, n)
    PROVE  Ascending(Append(s, n + 1)) /\ UpTo(Append(s, n + 1), n + 1)
BY DEF Ascending, UpTo

\* Appending to the buffer is appending to what was published and buffered.
LEMMA AppendBehind ==
    ASSUME NEW s \in Seq(Nat), NEW t \in Seq(Nat), NEW e \in Nat
    PROVE  s \o Append(t, e) = Append(s \o t, e)
<1>1. s \o Append(t, e) \in Seq(Nat) /\ Append(s \o t, e) \in Seq(Nat)
  OBVIOUS
<1>2. Len(s \o Append(t, e)) = Len(Append(s \o t, e))
  OBVIOUS
<1>3. \A i \in 1 .. Len(s \o Append(t, e)) : (s \o Append(t, e))[i] = Append(s \o t, e)[i]
  OBVIOUS
<1> QED
  BY <1>1, <1>2, <1>3, SeqEqual

\* The handlers that take no element in and throw none away only move elements
\* from the buffer to the output.
LEMMA OnlyMoved ==
    ASSUME TypeOK,
           \/ Dequeue \/ DequeueEmpty \/ (\E n \in 0 .. MaxArrivals : DequeueMany(n))
           \/ ResetSize \/ Indicate \/ UNCHANGED vars
    PROVE  /\ out' \o buffer' = out \o buffer
           /\ UNCHANGED <<arrivals, dropped, flushed>>
<1>1. CASE Dequeue
  <2>1. Len(buffer) \in Nat \ {0} /\ buffer \in Seq(Nat)
    BY <1>1, EmptySeq DEF Dequeue, TypeOK
  <2>2. Publish(buffer, 1) /\ 1 \in 0 .. Len(buffer) /\ out \in Seq(Nat)
    BY <1>1, <2>1 DEF Dequeue, PublishHead, TypeOK
  <2>3. out' \o buffer' = out \o buffer
    BY <2>1, <2>2, PublishLemma
  <2> QED BY <1>1, <2>3 DEF Dequeue
<1>2. ASSUME NEW n \in 0 .. MaxArrivals, DequeueMany(n)
      PROVE  /\ out' \o buffer' = out \o buffer
             /\ UNCHANGED <<arrivals, dropped, flushed>>
  <2> DEFINE k == IF n < Len(buffer) THEN n ELSE Len(buffer)
  <2>1. buffer \in Seq(Nat) /\ k \in 0 .. Len(buffer)
    BY ArrivalsAssumption DEF TypeOK
  <2>2. CASE buffer # <<>> /\ n > 0
    BY <1>2, <2>1, <2>2, PublishLemma DEF DequeueMany, TypeOK
  <2>3. CASE ~(buffer # <<>> /\ n > 0)
    BY <1>2, <2>3 DEF DequeueMany
  <2>4. UNCHANGED <<arrivals, dropped, flushed>>
    BY <1>2 DEF DequeueMany
  <2> QED BY <2>2, <2>3, <2>4
<1>3. CASE DequeueEmpty \/ ResetSize \/ Indicate \/ UNCHANGED vars
  BY <1>3 DEF DequeueEmpty, ResetSize, Indicate, vars
<1> QED BY <1>1, <1>2, <1>3

\* What is published and buffered stays ascending in every step.
LEMMA StepOrder == RequestInv /\ OrderInv /\ [Next]_vars => OrderInv'
<1> SUFFICES ASSUME RequestInv, OrderInv, [Next]_vars PROVE OrderInv'
  OBVIOUS
<1>0. TypeOK' /\ TypeOK
  BY OtherRequest DEF RequestInv
<1>a. out \o buffer \in Seq(Nat) /\ arrivals \in Nat /\ arrivals' \in Nat
  BY <1>0, ArrivalsAssumption DEF TypeOK
<1>b. Ascending(out \o buffer) /\ UpTo(out \o buffer, arrivals)
  BY DEF OrderInv, InOrder, Ascending
<1>c. SUFFICES Ascending(out' \o buffer') /\ UpTo(out' \o buffer', arrivals')
  BY <1>0 DEF OrderInv, InOrder, Ascending, UpTo
<1>1. CASE Enqueue
  <2>1. PICK q \in Seq(Nat), k \in 0 .. 2 :
          /\ q = Append(buffer, arrivals + 1)
          /\ Len(q) = Len(buffer) + 1 /\ k <= Len(q)
          /\ Publish(q, k)
    BY <1>0, <1>1, EnqueueLemma
  <2>2. k \in 0 .. Len(q)
    BY <2>1
  <2>3. out' \o buffer' = out \o q
    BY <1>0, <2>1, <2>2, PublishLemma DEF TypeOK
  <2>a. out \in Seq(Nat) /\ buffer \in Seq(Nat) /\ arrivals + 1 \in Nat
    BY <1>0, <1>a DEF TypeOK
  <2>4. out \o q = Append(out \o buffer, arrivals + 1)
    BY <2>1, <2>a, AppendBehind
  <2>5. arrivals' = arrivals + 1
    BY <1>1 DEF Enqueue
  <2> QED
    BY <1>a, <1>b, <2>3, <2>4, <2>5, AscendingAppend
<1>2. CASE EnqueueDropped
  <2>1. out' \o buffer' = out \o buffer /\ arrivals' = arrivals + 1
    BY <1>2 DEF EnqueueDropped
  <2>2. UpTo(out \o buffer, arrivals + 1)
    BY <1>a, <1>b DEF UpTo
  <2> QED
    BY <1>b, <2>1, <2>2
<1>3. CASE out' \o buffer' = out \o buffer /\ arrivals' = arrivals
  BY <1>b, <1>3
<1>4. CASE Flush
  <2>1. out' = out /\ buffer' = <<>> /\ arrivals' = arrivals
    BY <1>4 DEF Flush
  <2>2. out' \o buffer' = out
    BY <1>0, <2>1, ConcatEmptySeq DEF TypeOK
  <2>3. \A i \in 1 .. Len(out) : (out \o buffer)[i] = out[i]
    BY <1>0 DEF TypeOK
  <2>4. Len(out \o buffer) >= Len(out)
    BY <1>0 DEF TypeOK
  <2>a. Len(out) \in Nat /\ Len(out \o buffer) \in Nat
    BY <1>0, <1>a DEF TypeOK
  <2>b. ASSUME NEW i \in 1 .. Len(out) - 1 PROVE out[i] < out[i + 1]
    BY <1>b, <2>3, <2>4, <2>a DEF Ascending
  <2>c. ASSUME NEW i \in 1 .. Len(out) PROVE out[i] <= arrivals
    BY <1>b, <2>3, <2>4, <2>a DEF UpTo
  <2>5. Ascending(out) /\ UpTo(out, arrivals)
    BY <2>b, <2>c DEF Ascending, UpTo
  <2> QED
    BY <2>1, <2>2, <2>5
<1>5. CASE \/ Dequeue \/ DequeueEmpty \/ (\E n \in 0 .. MaxArrivals : DequeueMany(n))
           \/ ResetSize \/ Indicate \/ UNCHANGED vars
  BY <1>0, <1>3, <1>5, OnlyMoved
<1> QED
  BY <1>1, <1>2, <1>3, <1>4, <1>5 DEF Next

\* No element is published twice or after a later one, whatever the order of
\* requests, flushes and changes of the size.
THEOREM FirstInFirstOut == Spec => []InOrder
<1>1. Init => RequestInv /\ OrderInv
  <2> SUFFICES ASSUME Init PROVE RequestInv /\ OrderInv
    OBVIOUS
  <2>1. RequestInv
    BY InitRequest
  <2>2. out \o buffer = <<>>
    BY DEF Init
  <2> QED
    BY <2>1, <2>2 DEF OrderInv, InOrder, UpTo, RequestInv
<1>2. RequestInv /\ OrderInv /\ [Next]_vars => (RequestInv /\ OrderInv)'
  BY OtherRequest, StepOrder
<1>3. OrderInv => InOrder
  BY DEF OrderInv
<1> QED
  BY <1>1, <1>2, <1>3, PTL DEF Spec

-----------------------------------------------------------------------------
(* Where the elements are. *)

Elements(s) == {s[i] : i \in 1 .. Len(s)}

\* What was published or is buffered, as a set.
LEMMA ElementsConcat ==
    ASSUME NEW s \in Seq(Nat), NEW t \in Seq(Nat)
    PROVE  Elements(s \o t) = Elements(s) \union Elements(t)
<1> DEFINE u == s \o t
<1>1. /\ Len(u) = Len(s) + Len(t) /\ Len(s) \in Nat /\ Len(t) \in Nat
      /\ \A i \in 1 .. Len(s) + Len(t) : u[i] = IF i <= Len(s) THEN s[i] ELSE t[i - Len(s)]
  BY ConcatProperties
<1> HIDE DEF u
<1>2. ASSUME NEW i \in 1 .. Len(u) PROVE u[i] \in Elements(s) \union Elements(t)
  <2>1. CASE i <= Len(s)
    BY <1>1, <2>1 DEF Elements
  <2>2. CASE ~(i <= Len(s))
    <3>1. u[i] = t[i - Len(s)] /\ i - Len(s) \in 1 .. Len(t)
      BY <1>1, <2>2
    <3> QED BY <3>1 DEF Elements
  <2> QED BY <2>1, <2>2
<1>3. ASSUME NEW i \in 1 .. Len(s) PROVE s[i] \in Elements(u)
  <2>1. i \in 1 .. Len(u) /\ u[i] = s[i]
    BY <1>1
  <2> QED BY <2>1 DEF Elements
<1>4. ASSUME NEW i \in 1 .. Len(t) PROVE t[i] \in Elements(u)
  <2> DEFINE j == Len(s) + i
  <2>1. j \in 1 .. Len(s) + Len(t) /\ ~(j <= Len(s)) /\ j - Len(s) = i
    BY <1>1
  <2> HIDE DEF j
  <2>2. j \in 1 .. Len(u) /\ u[j] = t[i]
    BY <1>1, <2>1
  <2> QED BY <2>2 DEF Elements
<1> QED BY <1>2, <1>3, <1>4 DEF Elements, u

\* A new element joins the elements of a queue.
LEMMA ElementsAppend ==
    ASSUME NEW s \in Seq(Nat), NEW e \in Nat
    PROVE  Elements(Append(s, e)) = Elements(s) \union {e}
<1> DEFINE u == Append(s, e)
<1>1. /\ Len(u) = Len(s) + 1 /\ Len(s) \in Nat
      /\ \A i \in 1 .. Len(s) : u[i] = s[i]
      /\ u[Len(s) + 1] = e
  BY AppendProperties
<1> HIDE DEF u
<1>2. Elements(u) \subseteq Elements(s) \union {e}
  BY <1>1 DEF Elements
<1>3. Elements(s) \subseteq Elements(u) /\ e \in Elements(u)
  BY <1>1 DEF Elements
<1> QED BY <1>2, <1>3 DEF u

\* The places an element that arrived can be.
Whereabouts == Elements(out \o buffer) \union dropped \union flushed

LossInv == TypeOK /\ 1 .. arrivals = Whereabouts

\* Each handler moves elements between the buffer, the output and the two ways
\* of losing them, and forgets none.
LEMMA StepLoss == RequestInv /\ LossInv /\ [Next]_vars => LossInv'
<1> SUFFICES ASSUME RequestInv, LossInv, [Next]_vars PROVE LossInv'
  OBVIOUS
<1>0. TypeOK' /\ TypeOK
  BY OtherRequest DEF RequestInv
<1>a. /\ out \in Seq(Nat) /\ buffer \in Seq(Nat) /\ out \o buffer \in Seq(Nat)
      /\ arrivals \in Nat /\ 1 .. arrivals + 1 = (1 .. arrivals) \union {arrivals + 1}
  BY <1>0, ArrivalsAssumption DEF TypeOK
<1>b. 1 .. arrivals = Whereabouts
  BY DEF LossInv
<1>c. SUFFICES 1 .. arrivals' = Whereabouts'
  BY <1>0 DEF LossInv
<1>1. CASE Enqueue
  <2>1. PICK q \in Seq(Nat), k \in 0 .. 2 :
          /\ q = Append(buffer, arrivals + 1)
          /\ Len(q) = Len(buffer) + 1 /\ k <= Len(q)
          /\ Publish(q, k)
    BY <1>0, <1>1, EnqueueLemma
  <2>2. k \in 0 .. Len(q)
    BY <2>1
  <2>3. out' \o buffer' = out \o q
    BY <1>a, <2>1, <2>2, PublishLemma
  <2>4. out \o q = Append(out \o buffer, arrivals + 1)
    BY <2>1, <1>a, AppendBehind
  <2>5. Elements(out' \o buffer') = Elements(out \o buffer) \union {arrivals + 1}
    <3>1. arrivals + 1 \in Nat
      BY <1>a
    <3> QED BY <1>a, <2>3, <2>4, <3>1, ElementsAppend, Zenon
  <2>6. arrivals' = arrivals + 1 /\ dropped' = dropped /\ flushed' = flushed
    BY <1>1 DEF Enqueue
  <2> QED BY <1>a, <1>b, <2>5, <2>6 DEF Whereabouts
<1>2. CASE EnqueueDropped
  <2>1. /\ out' = out /\ buffer' = buffer /\ flushed' = flushed
        /\ arrivals' = arrivals + 1 /\ dropped' = dropped \union {arrivals + 1}
    BY <1>2 DEF EnqueueDropped
  <2> QED BY <1>a, <1>b, <2>1 DEF Whereabouts
<1>3. CASE Flush
  <2>1. /\ out' = out /\ buffer' = <<>> /\ flushed' = flushed \union Elements(buffer)
        /\ arrivals' = arrivals /\ dropped' = dropped
    BY <1>3 DEF Flush, Held, Elements
  <2>2. out' \o buffer' = out
    BY <1>a, <2>1, ConcatEmptySeq
  <2>3. Elements(out \o buffer) = Elements(out) \union Elements(buffer)
    BY <1>a, ElementsConcat
  <2> QED BY <1>b, <2>1, <2>2, <2>3 DEF Whereabouts
<1>4. CASE \/ Dequeue \/ DequeueEmpty \/ (\E n \in 0 .. MaxArrivals : DequeueMany(n))
           \/ ResetSize \/ Indicate \/ UNCHANGED vars
  <2>1. out' \o buffer' = out \o buffer /\ UNCHANGED <<arrivals, dropped, flushed>>
    BY <1>0, <1>4, OnlyMoved
  <2> QED BY <1>b, <2>1 DEF Whereabouts
<1> QED BY <1>1, <1>2, <1>3, <1>4 DEF Next

\* Every element that arrived is accounted for, for any order of the messages:
\* it was published, dropped at a full buffer, flushed, or is still held.
THEOREM NothingLost == Spec => []NothingVanishes
<1>1. Init => RequestInv /\ LossInv
  <2> SUFFICES ASSUME Init PROVE RequestInv /\ LossInv
    OBVIOUS
  <2>1. RequestInv
    BY InitRequest
  <2>2. out \o buffer = <<>> /\ dropped = {} /\ flushed = {} /\ arrivals = 0
    BY DEF Init
  <2>3. Elements(<<>>) = {}
    BY DEF Elements
  <2> QED BY <2>1, <2>2, <2>3 DEF LossInv, Whereabouts, RequestInv
<1>2. RequestInv /\ LossInv /\ [Next]_vars => (RequestInv /\ LossInv)'
  BY OtherRequest, StepLoss
<1>3. LossInv => NothingVanishes
  <2> SUFFICES ASSUME LossInv PROVE NothingVanishes
    OBVIOUS
  <2>1. out \in Seq(Nat) /\ buffer \in Seq(Nat)
    BY DEF LossInv, TypeOK
  <2>2. Elements(out \o buffer) = Elements(out) \union Held
    BY <2>1, ElementsConcat DEF Elements, Held
  <2> QED BY <2>2 DEF LossInv, Whereabouts, NothingVanishes, Elements
<1> QED
  BY <1>1, <1>2, <1>3, PTL DEF Spec

-----------------------------------------------------------------------------
(* The service loop. *)

ServiceInv ==
    /\ RequestInv
    /\ serving \in Nat /\ requests \in Nat /\ strangers \in Nat
    /\ OneToken

\* An element that arrives takes its turn from the first-element flag or from
\* a waiting request, or adds one when the full buffer pushes it out.
LEMMA ProduceToken == ServiceInv /\ Produce => ServiceInv'
<1> SUFFICES ASSUME ServiceInv, Produce PROVE ServiceInv'
  OBVIOUS
<1> USE ModeAssumption, LoopAssumption
<1>0. /\ RequestInv /\ TypeOK
      /\ serving \in Nat /\ requests \in Nat /\ requests' = requests
      /\ strangers \in Nat /\ strangers' = strangers
      /\ dequeueFirst \in BOOLEAN /\ dequeueWhenAvailable \in BOOLEAN
  BY DEF ServiceInv, RequestInv, TypeOK, Produce
<1>1. CASE Enqueue
  <2>1. PICK q \in Seq(Nat), k \in 0 .. 2 :
          /\ k = (IF Len(q) >= size /\ autoDequeueFull THEN 1 ELSE 0)
                 + (IF Serves THEN 1 ELSE 0)
          /\ k <= Len(q)
          /\ Publish(q, k)
    BY <1>0, <1>1, EnqueueLemma
  <2>2. k \in 0 .. Len(q) /\ out \in Seq(Nat)
    BY <1>0, <2>1 DEF TypeOK
  <2>3. Len(out') = Len(out) + k
    BY <2>1, <2>2, PublishLemma
  <2>4. serving' = serving + k
    BY <1>0, <2>2, <2>3 DEF Produce, Published
  <2>5. RequestInv'
    BY <1>0, <1>1, EnqueueRequest
  <2>6. dequeueFirst' = FALSE /\ dequeueWhenAvailable' = (dequeueWhenAvailable /\ dequeueFirst)
    BY <1>0, <1>1 DEF Enqueue, RequestAfter, Serves
  <2>7. (IF Serves THEN 1 ELSE 0) + Bit(dequeueWhenAvailable') + Bit(dequeueFirst' /\ AutoDequeueFirst)
          = Bit(dequeueWhenAvailable) + Bit(dequeueFirst /\ AutoDequeueFirst)
    BY <1>0, <2>6 DEF Serves, Bit
  <2>a. autoDequeueFull' = autoDequeueFull /\ autoDequeueFull \in BOOLEAN
    BY <1>0, <1>1 DEF Enqueue, settings, TypeOK
  <2>8. OneToken'
    BY <1>0, <2>1, <2>4, <2>7, <2>a DEF ServiceInv, OneToken, Tokens, Bit
  <2> QED
    BY <1>0, <2>4, <2>5, <2>8 DEF ServiceInv
<1>2. CASE EnqueueDropped
  <2>1. serving' = serving
    BY <1>0, <1>2 DEF EnqueueDropped, Produce, Published, TypeOK
  <2>2. RequestInv'
    BY <1>0, <1>2, OtherRequest DEF Next
  <2> QED
    BY <1>0, <1>2, <2>1, <2>2 DEF ServiceInv, OneToken, Tokens, EnqueueDropped, flags, settings
<1> QED
  BY <1>1, <1>2 DEF Produce

\* A handled request becomes a transmission or a remembered request.
LEMMA RequestToken == ServiceInv /\ Request => ServiceInv'
<1> SUFFICES ASSUME ServiceInv, Request PROVE ServiceInv'
  OBVIOUS
<1> USE ModeAssumption, LoopAssumption
<1>0. /\ RequestInv /\ TypeOK
      /\ serving \in Nat /\ requests \in Nat \ {0} /\ requests' = requests - 1
      /\ strangers \in Nat /\ strangers' = strangers
      /\ dequeueFirst \in BOOLEAN /\ dequeueWhenAvailable \in BOOLEAN
      /\ RequestInv'
  BY OtherRequest DEF ServiceInv, RequestInv, TypeOK, Request, Next
<1>1. CASE Dequeue
  <2>1. Len(buffer) \in Nat \ {0} /\ buffer \in Seq(Nat) /\ out \in Seq(Nat)
    BY <1>0, <1>1, EmptySeq DEF Dequeue, TypeOK
  <2>2. Len(out') = Len(out) + 1
    BY <1>1, <2>1, PublishLemma DEF Dequeue, PublishHead
  <2>3. serving' = serving + 1
    BY <1>0, <2>1, <2>2 DEF Request, Published
  <2>4. UNCHANGED <<flags, autoDequeueFull>>
    BY <1>1 DEF Dequeue, settings
  <2> QED
    BY <1>0, <2>3, <2>4 DEF ServiceInv, OneToken, Tokens, Bit, flags
<1>2. CASE DequeueEmpty
  <2>1. serving' = serving
    BY <1>0, <1>2 DEF DequeueEmpty, Request, Published, TypeOK
  <2>2. /\ dequeueWhenAvailable' = TRUE /\ dequeueFirst' = dequeueFirst
        /\ autoDequeueFull' = autoDequeueFull
    BY <1>0, <1>2 DEF DequeueEmpty, Remember, settings
  <2> QED
    BY <1>0, <2>1, <2>2 DEF ServiceInv, OneToken, Tokens, Bit
<1> QED
  BY <1>1, <1>2 DEF Request

\* Every element a stranger gets is one more being transmitted.
LEMMA StrangerToken == ServiceInv /\ Stranger => ServiceInv'
<1> SUFFICES ASSUME ServiceInv, Stranger PROVE ServiceInv'
  OBVIOUS
<1> USE ModeAssumption, LoopAssumption, ArrivalsAssumption
<1>1. PICK n \in 0 .. MaxArrivals : DequeueMany(n)
  BY DEF Stranger
<1>2. /\ RequestInv /\ TypeOK
      /\ serving \in Nat /\ requests \in Nat /\ strangers \in Nat
      /\ serving' = serving + Published /\ strangers' = strangers + Published
      /\ requests' = requests
  BY DEF ServiceInv, RequestInv, Stranger
<1>3. RequestInv'
  BY <1>1, <1>2, OtherRequest DEF Next
<1>4. Published \in Nat
  <2>1. buffer \in Seq(Nat) /\ out \in Seq(Nat) /\ Len(buffer) \in Nat
    BY <1>2 DEF TypeOK
  <2>2. CASE buffer # <<>> /\ n > 0
    <3>1. PICK k \in 0 .. Len(buffer) : Publish(buffer, k)
      BY <1>1, <2>1, <2>2 DEF DequeueMany
    <3> QED BY <2>1, <3>1, PublishLemma DEF Published
  <2>3. CASE ~(buffer # <<>> /\ n > 0)
    BY <1>1, <2>1, <2>3 DEF DequeueMany, Published
  <2> QED BY <2>2, <2>3
<1>5. UNCHANGED <<flags, autoDequeueFull>>
  BY <1>1 DEF DequeueMany, settings
<1> HIDE DEF Published
<1>6. serving' \in Nat /\ strangers' \in Nat
  BY <1>2, <1>4
<1>7. dequeueFirst \in BOOLEAN /\ dequeueWhenAvailable \in BOOLEAN
  BY <1>2 DEF TypeOK
<1>8. OneToken'
  BY <1>2, <1>4, <1>5, <1>7 DEF ServiceInv, OneToken, Tokens, Bit, flags
<1> QED BY <1>2, <1>3, <1>6, <1>8 DEF ServiceInv

\* The service loop only decides when the buffer's ports are used, so whatever
\* holds of the buffer alone holds of it in the loop.
THEOREM LoopUsesBuffer == ServiceSpec => Spec
<1>1. ServiceInit => Init
  BY DEF ServiceInit
<1>2. [ServiceNext]_serviceVars => [Next]_vars
  BY DEF ServiceNext, Produce, Finish, Request, Stranger, Manage, Next, serviceVars
<1> QED
  BY <1>1, <1>2, PTL DEF ServiceSpec, Spec

\* In the service loop the right to transmit is never lost, and never doubled
\* unless the buffer pushes elements out when it is full or a block outside the
\* loop takes some.
THEOREM TokenKept == ServiceSpec => []OneToken
<1> USE ModeAssumption, LoopAssumption
<1>1. ServiceInit => ServiceInv
  BY InitRequest DEF ServiceInit, ServiceInv, OneToken, Tokens, Bit, Init
<1>2. ServiceInv /\ [ServiceNext]_serviceVars => ServiceInv'
  <2> SUFFICES ASSUME ServiceInv, [ServiceNext]_serviceVars PROVE ServiceInv'
    OBVIOUS
  <2>1. CASE Finish
    <3>1. /\ serving' = serving - 1 /\ requests' = requests + 1
          /\ serving \in Nat \ {0} /\ requests \in Nat /\ UNCHANGED vars
          /\ strangers \in Nat /\ strangers' = strangers
      BY <2>1 DEF Finish, ServiceInv
    <3>2. RequestInv'
      BY <3>1, OtherRequest DEF ServiceInv
    <3> QED
      BY <3>1, <3>2 DEF ServiceInv, OneToken, Tokens, Bit, vars, flags, settings
  <2>2. CASE Manage \/ UNCHANGED serviceVars
    <3>1. /\ UNCHANGED <<dequeueFirst, dequeueWhenAvailable, autoDequeueFull>>
          /\ UNCHANGED <<serving, requests, strangers>>
      BY <2>2 DEF Manage, Flush, ResetSize, Indicate, serviceVars, vars, settings, flags
    <3>2. RequestInv'
      BY <2>2, OtherRequest DEF ServiceInv, Manage, Next, serviceVars
    <3> QED
      BY <3>1, <3>2 DEF ServiceInv, OneToken, Tokens
  <2> QED
    BY <2>1, <2>2, ProduceToken, RequestToken, StrangerToken DEF ServiceNext
<1>3. ServiceInv => OneToken
  BY DEF ServiceInv
<1> QED
  BY <1>1, <1>2, <1>3, PTL DEF ServiceSpec
=============================================================================
