----------------------------- MODULE MCAdapters -----------------------------
(***************************************************************************)
(* Bounds for SolanaSettlement, SuiSettlement and Receipts.  They share no *)
(* state: every behaviour is of one of them.                               *)
(***************************************************************************)
EXTENDS SolanaSettlement, SuiSettlement, Receipts, TLC

VARIABLE part   \* which of them the behaviour is of

\* Two coins of the wallet, the first too small to pay a lock's gas.
MCBalances == <<2, 3>>
MCGasBudget == [lock |-> 3, release |-> 2, refund |-> 2, anchor |-> 2]

\* Every adapter there is; a chain's without its settings; none at all.
Adapter(id, complete) == [id |-> id, complete |-> complete]
MCConfigs ==
    {<<Adapter("chain", TRUE), Adapter("arc-gateway", TRUE), Adapter("receipt", TRUE)>>,
     <<Adapter("chain", FALSE), Adapter("receipt", TRUE), Adapter("free", TRUE)>>,
     <<>>}
MCWants == {Unsaid, <<"free", "arc-gateway">>, <<"chain", "free">>, <<"other">>}

\* Solana's settlements differ in their name only, and so do the requests of the
\* others; the run checks no liveness property.
Symmetry == Permutations(Tasks) \union Permutations(Paid)

MCInit ==
    /\ part \in {"solana", "sui", "receipts"} /\ Init /\ SuiInit /\ ReceiptsInit
    /\ part # "receipts" => config = <<>> /\ wants = [r \in Paid |-> Unsaid]

MCNext ==
    /\ UNCHANGED part
    /\ \/ part = "solana" /\ Next /\ UNCHANGED <<suiVars, receiptVars>>
       \/ part = "sui" /\ SuiNext /\ UNCHANGED <<vars, receiptVars>>
       \/ part = "receipts" /\ ReceiptsNext /\ UNCHANGED <<vars, suiVars>>

MCSpec == MCInit /\ [][MCNext]_<<part, vars, suiVars, receiptVars>>
=============================================================================
