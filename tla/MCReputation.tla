---------------------------- MODULE MCReputation ----------------------------
(***************************************************************************)
(* The proofs Reputation is checked with.                                  *)
(***************************************************************************)
EXTENDS Reputation

CONSTANTS p1, id1, id2, id3, id4, id5, id6

MCIds == {id1, id2, id3, id4, id5, id6}

\* All but one carry the id that the store was made with, as in its tests.
MCNodeOf == [id \in MCIds |-> IF id = id6 THEN p1 ELSE "self"]

\* How the proofs are numbered does not matter: each is recorded for the first time after
\* those before it, and those that a restart lost are recorded again in their order.  In one
\* behaviour one thing goes wrong.
Order == <<id1, id6, id2, id3, id4, id5>>
Place(id) == CHOOSE i \in 1..Len(Order) : Order[i] = id
InOrder ==
    /\ \A i \in 2..Len(Order) : Order[i] \in acked' => Order[i - 1] \in acked'
    /\ \A n \in Nodes : \A i \in 2..Len(tree'[n]) : Place(tree'[n][i - 1]) < Place(tree'[n][i])
OneMishap == failures' + misreads' <= 1

MCReputationNext == ReputationNext /\ InOrder /\ OneMishap
MCReputationSpec == ReputationInit /\ [][MCReputationNext]_reputationVars
=============================================================================
