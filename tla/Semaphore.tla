----------------------------- MODULE Semaphore -----------------------------
(***************************************************************************)
(* What an admission gate promises, whatever its implementation: at most   *)
(* Limit users are inside it at any time; a user enters alone, and one or  *)
(* several of them leave (a crash empties a gate at once).  There is one   *)
(* gate per replica; an observer sees only who is inside each.             *)
(***************************************************************************)
EXTENDS Integers

CONSTANTS Gates,   \* the gates
          Users,   \* who may ask to enter
          Limit,   \* how many may be inside a gate together
          Size(_)  \* the number of elements of a set of users

VARIABLE inside    \* the users inside each gate

Init == inside = [g \in Gates |-> {}]

Enter(g, u) ==
    /\ u \notin inside[g]
    /\ Size(inside[g]) < Limit
    /\ inside' = [inside EXCEPT ![g] = @ \union {u}]

Leave(g, group) ==
    inside' = [inside EXCEPT ![g] = @ \ group]

Next == \E g \in Gates : \/ \E u \in Users : Enter(g, u)
                         \/ \E group \in SUBSET Users : Leave(g, group)

Spec == Init /\ [][Next]_inside
=============================================================================
