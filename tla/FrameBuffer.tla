----------------------------- MODULE FrameBuffer -----------------------------
(***************************************************************************)
(* The frame buffer of src/lib/frame_buffer_impl.cc.  Its message handlers  *)
(* run one at a time, so each of them is one action.  An element is the     *)
(* number of its arrival at the enqueue port.                               *)
(*                                                                          *)
(* Who sends the messages is left open: enqueue, dequeue, flush,            *)
(* reset_size_in and indicate_empty may come in any order.                  *)
(***************************************************************************)
EXTENDS Integers, Sequences

CONSTANTS
    Sizes,              \* the values _buffer_size is given
    AutoDequeueFirst,   \* _auto_dequeue_first
    KeepDequeueState,   \* _keep_dequeue_state
    FullModes,          \* the values of _auto_dequeue_full
    MaxArrivals         \* bound: elements that arrive

ASSUME SizesAssumption == Sizes \subseteq Nat /\ Sizes # {}
ASSUME ModeAssumption == /\ AutoDequeueFirst \in BOOLEAN
                         /\ KeepDequeueState \in BOOLEAN
                         /\ FullModes \subseteq BOOLEAN
                         /\ FullModes # {}
ASSUME ArrivalsAssumption == MaxArrivals \in Nat

VARIABLES
    buffer,                 \* _buffer
    size,                   \* _buffer_size
    autoDequeueFull,        \* _auto_dequeue_full, set by the constructor
    dequeueFirst,           \* _dequeue_first
    dequeueWhenAvailable,   \* _dequeue_when_available
    showAmEmpty,            \* _show_am_empty
    notice,                 \* the last message on the status ports
    report,                 \* the last number on dequeue_element
    \* history, read by no action of the code
    arrivals,               \* elements that have arrived
    out,                    \* elements published on dequeue_element, in order
    dropped,                \* elements refused because the buffer was full
    flushed                 \* elements removed by flush

settings == <<size, autoDequeueFull>>
flags == <<dequeueFirst, dequeueWhenAvailable, showAmEmpty>>
vars == <<buffer, settings, flags, notice, report, arrivals, out, dropped, flushed>>

\* A buffer of one place that empties itself when full would pop the element of
\* a waiting request from an empty std::queue: undefined, and never deployed.
SizeFits == autoDequeueFull => size # 1

Init ==
    /\ buffer = <<>>
    /\ size \in Sizes
    /\ autoDequeueFull \in FullModes
    /\ SizeFits
    /\ dequeueFirst = TRUE
    /\ dequeueWhenAvailable = FALSE
    /\ showAmEmpty = TRUE
    /\ notice = "none"
    /\ report = 0
    /\ arrivals = 0
    /\ out = <<>>
    /\ dropped = {}
    /\ flushed = {}

\* Mutant: the element behind the published ones is popped too.
PublishSkipping(q, k) ==
    /\ out' = out \o SubSeq(q, 1, k)
    /\ buffer' = SubSeq(q, k + 2, Len(q))

\* The first k elements of q are published, the others stay.
Publish(q, k) ==
    /\ out' = out \o SubSeq(q, 1, k)
    /\ buffer' = SubSeq(q, k + 1, Len(q))

-----------------------------------------------------------------------------
(* enqueue *)

\* Mutant: one element more fits.
RoomAtSize == Len(buffer) <= size

HasRoom == Len(buffer) < size

\* Mutant: a waiting request is not looked at.
ServesFirstOnly == dequeueFirst /\ AutoDequeueFirst

\* The enqueued element is asked for: it is the first one ever, or a request
\* waits.
Serves == (dequeueFirst /\ AutoDequeueFirst) \/ dequeueWhenAvailable

\* Mutant: the request stays set.
KeepRequest == dequeueWhenAvailable

\* What becomes of a waiting request: only an element that is not the first
\* one answers it.
RequestAfter ==
    dequeueWhenAvailable /\ ((dequeueFirst /\ AutoDequeueFirst) \/ ~Serves)

Enqueue ==
    LET e == arrivals + 1
        q == Append(buffer, e)
        full == Len(q) >= size
        pops == (IF full /\ autoDequeueFull THEN 1 ELSE 0) + (IF Serves THEN 1 ELSE 0)
    IN  /\ arrivals < MaxArrivals
        /\ HasRoom
        /\ arrivals' = e
        /\ notice' = IF full THEN "full" ELSE "not_full"
        /\ Publish(q, pops)
        /\ dequeueFirst' = (dequeueFirst /\ ~AutoDequeueFirst)
        /\ dequeueWhenAvailable' = RequestAfter
        /\ UNCHANGED <<settings, showAmEmpty, report, dropped, flushed>>

EnqueueDropped ==
    /\ arrivals < MaxArrivals
    /\ ~HasRoom
    /\ arrivals' = arrivals + 1
    /\ dropped' = dropped \union {arrivals + 1}
    /\ UNCHANGED <<buffer, settings, flags, notice, report, out, flushed>>

-----------------------------------------------------------------------------
(* dequeue *)

\* Mutant: the element is published and left in the buffer.
PublishAndKeep == out' = Append(out, Head(buffer)) /\ buffer' = buffer

PublishHead == Publish(buffer, 1)

Dequeue ==
    /\ buffer # <<>>
    /\ PublishHead
    /\ UNCHANGED <<settings, flags, notice, report, arrivals, dropped, flushed>>

\* Mutant: the request is forgotten.
ForgetRequest == dequeueWhenAvailable

Remember == dequeueWhenAvailable \/ KeepDequeueState

DequeueEmpty ==
    /\ buffer = <<>>
    /\ dequeueWhenAvailable' = Remember
    /\ notice' = "empty"
    /\ UNCHANGED <<buffer, settings, dequeueFirst, showAmEmpty, report, arrivals,
                   out, dropped, flushed>>

\* A request for n elements is answered with as many as there are, and with
\* their number; -1 says the buffer is empty, -2 that the request makes no
\* sense.  The request is one that pmt::is_real and pmt::to_long both take; a
\* double passes the first and raises in the second, at line 193, before
\* anything has changed: the block ends there and is not followed.
DequeueMany(n) ==
    LET k == IF n < Len(buffer) THEN n ELSE Len(buffer) IN
    /\ IF buffer # <<>> /\ n > 0
       THEN report' = k /\ Publish(buffer, k)
       ELSE /\ report' = IF buffer = <<>> THEN -1 ELSE -2
            /\ UNCHANGED <<buffer, out>>
    /\ UNCHANGED <<settings, flags, notice, arrivals, dropped, flushed>>

-----------------------------------------------------------------------------
(* The other ports. *)

Held == {buffer[i] : i \in 1 .. Len(buffer)}

Flush ==
    /\ buffer' = <<>>
    /\ flushed' = flushed \union Held
    /\ UNCHANGED <<settings, flags, notice, report, arrivals, out, dropped>>

ResetSize ==
    /\ size' \in Sizes
    /\ UNCHANGED <<buffer, autoDequeueFull, flags, notice, report, arrivals, out,
                   dropped, flushed>>
    /\ SizeFits'

\* The first indication is answered in any case, a later one if it is a frame.
Indicate ==
    /\ notice' = "not_full" \/ (~showAmEmpty /\ UNCHANGED notice)
    /\ showAmEmpty' = FALSE
    /\ UNCHANGED <<buffer, settings, dequeueFirst, dequeueWhenAvailable, report,
                   arrivals, out, dropped, flushed>>

Next ==
    \/ Enqueue \/ EnqueueDropped
    \/ Dequeue \/ DequeueEmpty \/ (\E n \in 0 .. MaxArrivals : DequeueMany(n))
    \/ Flush \/ ResetSize \/ Indicate

Spec == Init /\ [][Next]_vars

-----------------------------------------------------------------------------
(* Properties. *)

TypeOK ==
    /\ buffer \in Seq(Nat)
    /\ \E s \in Sizes : Len(buffer) <= s
    /\ size \in Sizes
    /\ autoDequeueFull \in FullModes
    /\ SizeFits
    /\ dequeueFirst \in BOOLEAN
    /\ dequeueWhenAvailable \in BOOLEAN
    /\ showAmEmpty \in BOOLEAN
    /\ notice \in {"none", "not_full", "full", "empty"}
    /\ report \in Int
    /\ arrivals \in 0 .. MaxArrivals
    /\ out \in Seq(Nat)
    /\ dropped \subseteq Nat
    /\ flushed \subseteq Nat

\* Elements leave in the order of their arrival, none twice and none after a
\* later one: what was published, followed by what is buffered, ascends.
InOrder ==
    LET all == out \o buffer IN
    \A i \in 1 .. Len(all) - 1 : all[i] < all[i + 1]

\* Every element that arrived was published, dropped, flushed or is buffered.
NothingVanishes ==
    1 .. arrivals = {out[i] : i \in 1 .. Len(out)} \union Held \union dropped \union flushed

\* A remembered request never waits while an element is there: neither the
\* first element, nor one that made the buffer full, nor a flush or a change of
\* size can leave the two side by side.
RequestWaitsOnlyWhenEmpty == dequeueWhenAvailable => buffer = <<>>
=============================================================================
