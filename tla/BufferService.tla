---------------------------- MODULE BufferService ----------------------------
(***************************************************************************)
(* The frame buffer in the service loop of the flow graphs                  *)
(* (examples/Tests/csma_rtscts_80211.py): an element published on           *)
(* dequeue_element is transmitted, and the end of its transmission -        *)
(* acknowledged or given up - sends one request to the dequeue port.  The   *)
(* requests on their way to the buffer are counted.  Blocks outside the     *)
(* loop may ask for several elements at once, flush or resize the buffer    *)
(* and let it indicate that it is empty.                                    *)
(***************************************************************************)
EXTENDS FrameBuffer

\* The loop is started by the first element and kept up by waiting requests.
ASSUME LoopAssumption == AutoDequeueFirst /\ KeepDequeueState

VARIABLES
    serving,    \* elements published and not finished
    requests,   \* dequeue messages in the queue of the buffer's port
    strangers   \* history: elements published to blocks outside the loop

serviceVars == <<vars, serving, requests, strangers>>

ServiceInit == Init /\ serving = 0 /\ requests = 0 /\ strangers = 0

Published == Len(out') - Len(out)

\* The producer fills the buffer.
Produce ==
    /\ Enqueue \/ EnqueueDropped
    /\ serving' = serving + Published
    /\ UNCHANGED <<requests, strangers>>

\* The sender is done with an element and asks for the next one.
Finish ==
    /\ serving > 0
    /\ serving' = serving - 1
    /\ requests' = requests + 1
    /\ UNCHANGED <<vars, strangers>>

\* The buffer handles a request.
Request ==
    /\ requests > 0
    /\ requests' = requests - 1
    /\ Dequeue \/ DequeueEmpty
    /\ serving' = serving + Published
    /\ UNCHANGED strangers

\* A block outside the loop asks for elements; they too are transmitted.
Stranger ==
    /\ \E n \in 0 .. MaxArrivals : DequeueMany(n)
    /\ serving' = serving + Published
    /\ strangers' = strangers + Published
    /\ UNCHANGED requests

\* The buffer is flushed, given another size or asked whether it is empty.
Manage ==
    /\ Flush \/ ResetSize \/ Indicate
    /\ UNCHANGED <<serving, requests, strangers>>

ServiceNext == Produce \/ Finish \/ Request \/ Stranger \/ Manage

ServiceSpec == ServiceInit /\ [][ServiceNext]_serviceVars

\* Every transmission ends and every message is handled.
FairServiceSpec ==
    /\ ServiceSpec
    /\ WF_serviceVars(Finish)
    /\ WF_serviceVars(Request)

-----------------------------------------------------------------------------
(* Properties. *)

Bit(b) == IF b THEN 1 ELSE 0

\* The right to transmit: with the sender, in a request, remembered by the
\* buffer, or still to be given to the first element.
Tokens ==
    serving + requests + Bit(dequeueWhenAvailable)
        + Bit(dequeueFirst /\ AutoDequeueFirst)

\* The right to transmit is never lost, so the loop cannot stall, and unless
\* the buffer pushes elements out when full it is never doubled but by a block
\* that takes elements from outside the loop: without one, at most one element
\* is being transmitted at a time.
OneToken ==
    /\ Tokens >= 1
    /\ ~autoDequeueFull => Tokens <= 1 + strangers

\* A buffered element is transmitted or flushed.
ElementServed ==
    \A e \in 1 .. MaxArrivals : e \in Held ~> e \notin Held
=============================================================================
