--------------------------- MODULE StopAndWaitArq ---------------------------
(***************************************************************************)
(* The stop-and-wait ARQ block of src/python/stop_and_wait_arq.py, one      *)
(* instance per node, over the half-duplex radio between two nodes.         *)
(*                                                                          *)
(* GNU Radio runs the message handlers of a block one at a time, so each    *)
(* handler is one action: AppMessage is handle_app_message (with the        *)
(* handle_queue calls of its loop), PhyMessage is handle_phy_message (with  *)
(* the handle_queue call of an acknowledgement).  The radio keeps order and *)
(* loses frames.  A payload is the number of the fragment it carries.       *)
(***************************************************************************)
EXTENDS Integers, Sequences

CONSTANTS
    Node,       \* the two radio nodes
    Talkers,    \* the nodes whose application sends messages
    SeqMod,     \* how many sequence numbers there are: 256 in the code
    AckModes,   \* the values of the block's use_ack parameter
    MaxMtus,    \* most fragments of one message (the index has 6 bits: 64)
    MaxFrags,   \* bound: fragments the application of one node hands over
    LinkCap     \* bound: frames on the air towards one node

ASSUME NodeAssumption == \E a, b \in Node : a # b /\ Node = {a, b}
ASSUME TalkersAssumption == Talkers \subseteq Node
ASSUME SeqAssumption == SeqMod \in Nat /\ SeqMod >= 2
ASSUME AckModesAssumption == AckModes \subseteq BOOLEAN
ASSUME MtuAssumption == MaxMtus \in Nat /\ MaxMtus >= 1 /\ MaxMtus <= SeqMod
ASSUME BoundAssumption == MaxFrags \in Nat /\ LinkCap \in Nat

VARIABLES
    useAck,       \* use_ack of both blocks, set by the constructor
    state,        \* "idle" or "wait"
    appQueue,     \* app_queue: fragments not sent yet
    lastTx,       \* last_tx_packet
    currSeq,      \* curr_packet_seq
    txSeq,        \* tx_seq_num
    lastSeq,      \* last_seq_num: of the last frame received, -1 before
    packetBuffer, \* packet_buffer: fragments of the message being received
    link,         \* link[n]: frames on the air towards n
    \* history, read by no action of the code
    submitted,    \* messages of n's application, each a sequence of fragments
    offered,      \* how many fragments those are
    arrived,      \* fragments handle_phy_message of n has seen
    accepted,     \* fragments it passed to process_fragment, in order
    delivered,    \* messages it published on to_app, in order
    lost          \* whether a frame towards n has been lost

blockVars == <<useAck, state, appQueue, lastTx, currSeq, txSeq, lastSeq, packetBuffer>>
history == <<submitted, offered, arrived, accepted, delivered, lost>>
vars == <<blockVars, link, history>>

Peer(n) == CHOOSE m \in Node : m # n

\* The fragment bits of the third byte: not fragmented, fragment, last one.
FragBits == {"whole", "part", "end"}
DataFrame(s, i, b) == [type |-> "data", seq |-> s, id |-> i, frag |-> b]
AckFrame(s) == [type |-> "ack", seq |-> s, id |-> 0, frag |-> "whole"]
SeqNum == 0 .. SeqMod - 1
Frame == [type : {"data", "ack"}, seq : SeqNum, id : Nat, frag : FragBits]
NoFrame == AckFrame(0)   \* last_tx_packet before the first one: never sent

Init ==
    /\ useAck \in AckModes
    /\ state = [n \in Node |-> "idle"]
    /\ appQueue = [n \in Node |-> <<>>]
    /\ lastTx = [n \in Node |-> NoFrame]
    /\ currSeq = [n \in Node |-> 0]
    /\ txSeq = [n \in Node |-> 0]
    /\ lastSeq = [n \in Node |-> -1]
    /\ packetBuffer = [n \in Node |-> <<>>]
    /\ link = [n \in Node |-> <<>>]
    /\ submitted = [n \in Node |-> <<>>]
    /\ offered = [n \in Node |-> 0]
    /\ arrived = [n \in Node |-> {}]
    /\ accepted = [n \in Node |-> <<>>]
    /\ delivered = [n \in Node |-> <<>>]
    /\ lost = [n \in Node |-> FALSE]

-----------------------------------------------------------------------------
(* The radio: frames beyond LinkCap are lost. *)

OnAir(l, f) == IF Len(l) < LinkCap THEN Append(l, f) ELSE l

\* n transmits frame f; the frame at the head of its own link stays there.
Transmit(n, f) ==
    /\ link' = [link EXCEPT ![Peer(n)] = OnAir(@, f)]
    /\ lost' = [lost EXCEPT ![Peer(n)] = @ \/ Len(link[Peer(n)]) >= LinkCap]

\* A frame is not received: collision, noise, a failed checksum.
Lose(n) ==
    /\ link[n] # <<>>
    /\ link' = [link EXCEPT ![n] = Tail(@)]
    /\ lost' = [lost EXCEPT ![n] = TRUE]
    /\ UNCHANGED <<blockVars, submitted, offered, arrived, accepted, delivered>>

-----------------------------------------------------------------------------
(* Sending. *)

\* Mutant: the sequence number is not wrapped.
NoWrap(s) == s

\* The steps of tx_seq_num wrap after the largest number of a byte.
Wrap(s) == IF s < SeqMod THEN s ELSE s - SeqMod

\* Mutant: the fragment before the last one is marked as the last.
LastBitEarly(i, k) == IF k = 1 THEN "whole" ELSE IF i < k - 1 THEN "part" ELSE "end"

\* The fragment bits add_frag_hdr gives the i-th of k fragments.
FragBit(i, k) == IF k = 1 THEN "whole" ELSE IF i < k THEN "part" ELSE "end"

\* fragment_packet and the headers handle_app_message adds: k fragments.
Fragments(n, k) ==
    [i \in 1..k |->
        DataFrame(Wrap(txSeq[n] + i - 1), offered[n] + i, FragBit(i, k))]

\* handle_queue in STATE_IDLE with the queue q, not empty.
SendHead(n, q) ==
    /\ lastTx' = [lastTx EXCEPT ![n] = Head(q)]
    /\ currSeq' = [currSeq EXCEPT ![n] = Head(q).seq]
    /\ state' = [state EXCEPT ![n] = "wait"]
    /\ appQueue' = [appQueue EXCEPT ![n] = Tail(q)]

\* The application of n hands over a message of k fragments.
Submit(n, k) ==
    /\ n \in Talkers
    /\ offered[n] + k <= MaxFrags
    /\ txSeq' = [txSeq EXCEPT ![n] = Wrap(@ + k)]
    /\ offered' = [offered EXCEPT ![n] = @ + k]
    /\ submitted' = [submitted EXCEPT ![n] =
                        Append(@, [i \in 1..k |-> offered[n] + i])]
    /\ UNCHANGED <<useAck, lastSeq, packetBuffer, arrived, accepted, delivered>>

\* Idle: the first fragment goes out, the loop queues the others behind it
\* (the acknowledgement timeout cannot have passed since).
AppMessageIdle(n, k) ==
    /\ useAck
    /\ state[n] = "idle"
    /\ Submit(n, k)
    /\ SendHead(n, appQueue[n] \o Fragments(n, k))
    /\ Transmit(n, Head(appQueue[n] \o Fragments(n, k)))

\* Waiting: the fragments are queued; if the timeout has passed, one of the
\* handle_queue calls retransmits the outstanding frame.
AppMessageWaiting(n, k) ==
    /\ state[n] = "wait"
    /\ Submit(n, k)
    /\ appQueue' = [appQueue EXCEPT ![n] = @ \o Fragments(n, k)]
    /\ \/ Transmit(n, lastTx[n])
       \/ UNCHANGED <<link, lost>>
    /\ UNCHANGED <<state, lastTx, currSeq>>

\* Without acknowledgements the state stays idle, so each handle_queue call of
\* the loop sends one fragment: as many go out as came in.
AppMessageNoAck(n, k) ==
    LET all == appQueue[n] \o Fragments(n, k)
        room == LinkCap - Len(link[Peer(n)])
    IN  /\ ~useAck
        /\ state[n] = "idle"
        /\ Submit(n, k)
        /\ lastTx' = [lastTx EXCEPT ![n] = all[k]]
        /\ currSeq' = [currSeq EXCEPT ![n] = all[k].seq]
        /\ appQueue' = [appQueue EXCEPT ![n] = SubSeq(all, k + 1, Len(all))]
        /\ link' = [link EXCEPT ![Peer(n)] =
                        @ \o SubSeq(all, 1, IF k <= room THEN k ELSE room)]
        /\ lost' = [lost EXCEPT ![Peer(n)] = @ \/ k > room]
        /\ UNCHANGED state

AppMessage(n) ==
    \E k \in 1..MaxMtus :
        AppMessageIdle(n, k) \/ AppMessageWaiting(n, k) \/ AppMessageNoAck(n, k)

\* Once MaxFrags fragments are tracked, the application goes on sending:
\* messages that queue behind everything modelled, and whose handle_queue
\* calls still look at the timeout.
AppBeyondBound(n) ==
    /\ n \in Talkers
    /\ state[n] = "wait"
    /\ offered[n] + MaxMtus > MaxFrags
    /\ Transmit(n, lastTx[n])
    /\ UNCHANGED <<blockVars, submitted, offered, arrived, accepted, delivered>>

-----------------------------------------------------------------------------
(* Receiving. *)

\* process_fragment: a message that is not fragmented is published at once and
\* leaves packet_buffer alone; the last fragment publishes and clears it.
ProcessFragment(n, f) ==
    /\ accepted' = [accepted EXCEPT ![n] = Append(@, f.id)]
    /\ packetBuffer' = [packetBuffer EXCEPT ![n] =
            CASE f.frag = "whole" -> @
              [] f.frag = "part"  -> Append(@, f.id)
              [] f.frag = "end"   -> <<>>]
    /\ delivered' = [delivered EXCEPT ![n] =
            CASE f.frag = "whole" -> Append(@, <<f.id>>)
              [] f.frag = "part"  -> @
              [] f.frag = "end"   -> Append(@, Append(packetBuffer[n], f.id))]

\* Mutants: no duplicate test; a test that takes a wrapped number for an old one.
NeverDuplicate(n, f) == FALSE
StaleNumber(n, f) == f.seq <= lastSeq[n]

\* The duplicate test: the sequence number of the last frame of any type.
Duplicate(n, f) == lastSeq[n] = f.seq

\* Data: acknowledged in any case, processed unless taken for a duplicate.
PhyData(n) ==
    LET f == Head(link[n]) IN
    /\ link[n] # <<>>
    /\ f.type = "data"
    /\ lastSeq' = [lastSeq EXCEPT ![n] = f.seq]
    /\ arrived' = [arrived EXCEPT ![n] = @ \union {f.id}]
    /\ IF Duplicate(n, f)
       THEN UNCHANGED <<accepted, packetBuffer, delivered>>
       ELSE ProcessFragment(n, f)
    /\ link' = [link EXCEPT ![n] = Tail(@),
                            ![Peer(n)] = IF useAck THEN OnAir(@, AckFrame(f.seq))
                                                   ELSE @]
    /\ lost' = [lost EXCEPT ![Peer(n)] =
                    @ \/ (useAck /\ Len(link[Peer(n)]) >= LinkCap)]
    /\ UNCHANGED <<useAck, state, appQueue, lastTx, currSeq, txSeq, submitted,
                   offered>>

\* Mutant: any acknowledgement counts.
AnyAck(n, f) == TRUE

\* The number an acknowledgement must carry.  The state is not looked at.
AckMatches(n, f) == f.seq = currSeq[n]

\* Mutant: handle_queue is not called after an acknowledgement.
NeverMore(n) == FALSE

MoreToSend(n) == appQueue[n] # <<>>

\* An acknowledgement: the outstanding frame is done and handle_queue sends the
\* next one.
PhyAck(n) ==
    LET f == Head(link[n])
        rest == [link EXCEPT ![n] = Tail(@)]
    IN  /\ link[n] # <<>>
        /\ f.type = "ack"
        /\ lastSeq' = [lastSeq EXCEPT ![n] = f.seq]
        /\ IF AckMatches(n, f) /\ MoreToSend(n)
           THEN /\ SendHead(n, appQueue[n])
                /\ link' = [rest EXCEPT ![Peer(n)] = OnAir(@, Head(appQueue[n]))]
                /\ lost' = [lost EXCEPT ![Peer(n)] =
                                @ \/ Len(link[Peer(n)]) >= LinkCap]
           ELSE /\ state' = [state EXCEPT ![n] =
                                IF AckMatches(n, f) THEN "idle" ELSE @]
                /\ link' = rest
                /\ UNCHANGED <<appQueue, lastTx, currSeq, lost>>
        /\ UNCHANGED <<useAck, txSeq, packetBuffer, submitted, offered, arrived,
                       accepted, delivered>>

PhyMessage(n) == PhyData(n) \/ PhyAck(n)

Next == \E n \in Node :
    AppMessage(n) \/ AppBeyondBound(n) \/ PhyMessage(n) \/ Lose(n)

Spec == Init /\ [][Next]_vars

\* The application goes on sending, and a radio that carries frames again and
\* again does not lose every one of them.
FairSpec ==
    /\ Spec
    /\ \A n \in Talkers : WF_vars(AppMessage(n)) /\ WF_vars(AppBeyondBound(n))
    /\ \A n \in Node : SF_vars(PhyData(n)) /\ SF_vars(PhyAck(n))

-----------------------------------------------------------------------------
(* Properties. *)

TypeOK ==
    /\ useAck \in AckModes
    /\ state \in [Node -> {"idle", "wait"}]
    /\ appQueue \in [Node -> Seq(Frame)]
    /\ lastTx \in [Node -> Frame]
    /\ currSeq \in [Node -> SeqNum]
    /\ txSeq \in [Node -> SeqNum]
    /\ lastSeq \in [Node -> SeqNum \union {-1}]
    /\ packetBuffer \in [Node -> Seq(Nat)]
    /\ link \in [Node -> Seq(Frame)]
    /\ submitted \in [Node -> Seq(Seq(Nat))]
    /\ offered \in [Node -> Nat]
    /\ arrived \in [Node -> SUBSET Nat]
    /\ accepted \in [Node -> Seq(Nat)]
    /\ delivered \in [Node -> Seq(Seq(Nat))]
    /\ lost \in [Node -> BOOLEAN]

\* What a node has finished sending: everything before the outstanding frame.
Finished(n) == IF state[n] = "wait" THEN 1 .. lastTx[n].id - 1 ELSE 1 .. lastTx[n].id

Accepted(n) == {accepted[n][i] : i \in 1 .. Len(accepted[n])}

\* An acknowledged fragment has reached the radio block of the peer: the test
\* against curr_packet_seq never takes an old acknowledgement for a new one,
\* although the numbers repeat and a retransmission is acknowledged twice.
AckedHasArrived ==
    useAck => \A n \in Node : Finished(n) \subseteq arrived[Peer(n)]

\* An acknowledged fragment has been handed to the peer's application side.
AckedIsAccepted ==
    useAck => \A n \in Node : Finished(n) \subseteq Accepted(Peer(n))

\* "duplicate packet. dropping...": only fragments that were processed before
\* are dropped, so all that arrives is processed.
OnlyDuplicatesDropped == \A n \in Node : arrived[n] = Accepted(n)

\* The fragments are processed in the order they were sent, each of them once
\* and none left out.
FragmentsInOrder ==
    \A n \in Node : accepted[n] = [i \in 1 .. Len(accepted[n]) |-> i]

\* On a radio that has lost nothing so far, the block without acknowledgements
\* delivers the messages intact and in order, in both directions at once.
IntactUnlessLost ==
    ~useAck => \A n \in Node : ~lost[Peer(n)] =>
        /\ Len(delivered[Peer(n)]) <= Len(submitted[n])
        /\ \A i \in 1 .. Len(delivered[Peer(n)]) :
                delivered[Peer(n)][i] = submitted[n][i]

\* The reliable transfer of whole messages that one talking node is promised.
Transfer ==
    INSTANCE ReliableTransfer WITH Node <- Node, MaxMtus <- MaxMtus, MaxFrags <- MaxFrags,
                                   submitted <- submitted, delivered <- delivered
ReliableDelivery == Transfer!Spec

\* Every message of a talking node is delivered.
EventuallyDelivered ==
    \A n \in Talkers : \A k \in 1 .. MaxFrags :
        Len(submitted[n]) >= k ~> Len(delivered[Peer(n)]) >= k
=============================================================================
