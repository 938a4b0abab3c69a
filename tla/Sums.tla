-------------------------------- MODULE Sums --------------------------------
(***************************************************************************)
(* Sums of amounts over a finite set, as a number of units: f[x] units for *)
(* each x; and the longest end of a sequence of costs that fits a budget.  *)
(* Nothing is folded, so the provers can reason about them.                *)
(***************************************************************************)
EXTENDS Integers, FiniteSets, Sequences

Units(f, S) == UNION {{x} \X (1..f[x]) : x \in S}

SumOver(f, S) == Cardinality(Units(f, S))

\* From the last cost back, up to the first that does not fit: where the kept ones
\* begin and what they cost.
LongestEnd(costs, budget) ==
    LET from[i \in 1..(Len(costs) + 1)] ==
            IF i > Len(costs) THEN [first |-> i, used |-> 0]
            ELSE LET later == from[i + 1]
                     used == later.used + costs[i]
                 IN IF later.first = i + 1 /\ used <= budget
                    THEN [first |-> i, used |-> used] ELSE later
    IN from[1]
=============================================================================
