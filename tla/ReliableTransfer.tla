-------------------------- MODULE ReliableTransfer --------------------------
(***************************************************************************)
(* What a sender of messages wants from an ARQ block and the radio below    *)
(* it: every node's messages are handed to its peer in the order they were  *)
(* submitted, each one once and complete.  This is the abstract             *)
(* specification that StopAndWaitArq implements while one node talks.       *)
(***************************************************************************)
EXTENDS Naturals, Sequences

CONSTANTS
    Node,       \* the two nodes
    MaxMtus,    \* most fragments of one message
    MaxFrags    \* bound: fragments one node submits

VARIABLES
    submitted,  \* submitted[n]: the messages of n, each a sequence of fragments
    delivered   \* delivered[n]: the messages handed to the application of n

vars == <<submitted, delivered>>

Peer(n) == CHOOSE m \in Node : m # n

Message == UNION {[1..k -> 1..MaxFrags] : k \in 1..MaxMtus}

Init ==
    /\ submitted = [n \in Node |-> <<>>]
    /\ delivered = [n \in Node |-> <<>>]

Submit(n) ==
    /\ \E m \in Message : submitted' = [submitted EXCEPT ![n] = Append(@, m)]
    /\ UNCHANGED delivered

Deliver(n) ==
    LET i == Len(delivered[n]) + 1 IN
    /\ i <= Len(submitted[Peer(n)])
    /\ delivered' = [delivered EXCEPT ![n] = Append(@, submitted[Peer(n)][i])]
    /\ UNCHANGED submitted

Next == \E n \in Node : Submit(n) \/ Deliver(n)

Spec == Init /\ [][Next]_vars
=============================================================================
