----------------------------- MODULE MCJobQueue -----------------------------
(* Instances of JobQueue for TLC. *)
EXTENDS JobQueue, TLC

CONSTANTS n1, n2, r1, r2, r3

\* One replica, three requests for two permits.
MCHomeOne == [r \in {r1, r2, r3} |-> n1]

\* Two replicas over one Postgres, one request each.
MCHomeTwo == (r1 :> n1) @@ (r2 :> n2)
=============================================================================
