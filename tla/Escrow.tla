------------------------------- MODULE Escrow -------------------------------
(***************************************************************************)
(* What every escrow of the node promises, on a chain or in memory: the    *)
(* funds of a deal are put aside once, and paid out once, in full, between *)
(* its node and its client.                                                *)
(***************************************************************************)
EXTENDS Integers

CONSTANTS Deals,   \* what funds are put aside for
          Amounts  \* what can be put aside

VARIABLES held,      \* the funds put aside for each deal
          toNode,    \* what its node was paid
          toClient,  \* what its client got back
          phase      \* "none", "held" or "paid"

escrowVars == <<held, toNode, toClient, phase>>

Init ==
    /\ held = [d \in Deals |-> 0]
    /\ toNode = [d \in Deals |-> 0]
    /\ toClient = [d \in Deals |-> 0]
    /\ phase = [d \in Deals |-> "none"]

Open(d, amount) ==
    /\ phase[d] = "none"
    /\ phase' = [phase EXCEPT ![d] = "held"]
    /\ held' = [held EXCEPT ![d] = amount]
    /\ UNCHANGED <<toNode, toClient>>

\* The node is paid its share of what is held, the client gets the rest.
Settle(d, share) ==
    /\ phase[d] = "held"
    /\ share \in 0..held[d]
    /\ phase' = [phase EXCEPT ![d] = "paid"]
    /\ toNode' = [toNode EXCEPT ![d] = share]
    /\ toClient' = [toClient EXCEPT ![d] = held[d] - share]
    /\ held' = [held EXCEPT ![d] = 0]

Next == \E d \in Deals : \/ \E amount \in Amounts : Open(d, amount)
                         \/ \E share \in 0..held[d] : Settle(d, share)

Spec == Init /\ [][Next]_escrowVars
=============================================================================
