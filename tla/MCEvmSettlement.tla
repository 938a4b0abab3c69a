--------------------------- MODULE MCEvmSettlement ---------------------------
(***************************************************************************)
(* Bounds for EvmSettlement.                                               *)
(***************************************************************************)
EXTENDS EvmSettlement

ByClient == {i \in 1..Len(escrows) : escrows[i].payer = Client}

Registering == \E t \in Registrars : pc[t] # "idle"

\* Settlements differ in their name only: let them start in one order.  The
\* client makes one escrow, for the first of them.  The registration takes the place of
\* the second settlement in the race for nonces, and comes without the client.
Bounds ==
    /\ \A t, u \in Tasks \ Registrars : (t < u /\ pc'[u] # "idle") => pc'[t] # "idle"
    /\ Cardinality(ByClient') <= 1
    /\ \A i \in ByClient' : escrows'[i].requestId = 1
    /\ Registering' => ByClient' = {} /\ \E t \in Tasks \ Registrars : pc'[t] = "idle"
==============================================================================
