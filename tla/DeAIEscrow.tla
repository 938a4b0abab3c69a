----------------------------- MODULE DeAIEscrow -----------------------------
(***************************************************************************)
(* The escrow contract contracts/evm/DeAIEscrow.sol: one action per        *)
(* transaction that does not revert.  A transaction that reverts leaves    *)
(* everything as it was.                                                   *)
(***************************************************************************)
EXTENDS Integers, Sequences, Sums

CONSTANTS Accounts,   \* addresses, the zero address excepted
          Rejecting,  \* those whose code refuses a transfer
          Requests,   \* request ids
          Values,     \* what a transaction may carry (msg.value)
          Timeout,    \* REFUND_TIMEOUT
          MaxEscrows, \* bound: escrows made
          MaxTime,    \* bound: block.timestamp
          Zero        \* the zero address; the request id of no escrow

ASSUME ContractAssumption ==
    /\ IsFiniteSet(Accounts) /\ Rejecting \subseteq Accounts
    /\ Values \subseteq Nat
    /\ Timeout \in Nat /\ MaxEscrows \in Nat /\ MaxTime \in Nat
    /\ Zero \notin Accounts \union Requests

VARIABLES escrows,          \* the escrows made; the index is the escrow id
          escrowByRequest,  \* the reverse lookup, 0 when there is none
          balance,          \* the ether the contract holds
          received,         \* what each account was sent by it
          events,           \* EscrowReleased and EscrowRefunded, with their escrow id
          now               \* block.timestamp

contractVars == <<escrows, escrowByRequest, balance, received, events, now>>

EscrowIds == 1..MaxEscrows

ContractInit ==
    /\ escrows = <<>>
    /\ escrowByRequest = [r \in Requests |-> 0]
    /\ balance = 0
    /\ received = [a \in Accounts |-> 0]
    /\ events = {}
    /\ now = 0

\* The mapping holds zeroes where no escrow was ever made.
NoEscrow == [requestId |-> Zero, payer |-> Zero, node |-> Zero,
             amount |-> 0, createdAt |-> 0, settled |-> FALSE]

At(id) == IF id \in 1..Len(escrows) THEN escrows[id] ELSE NoEscrow

\* ZeroValue, InvalidNode.
LockReverts(amount, node) == amount = 0 \/ node = Zero

lockEscrow(sender, amount, requestId, node) ==
    /\ ~LockReverts(amount, node)
    /\ Len(escrows) < MaxEscrows
    /\ escrows' = Append(escrows, [requestId |-> requestId, payer |-> sender, node |-> node,
                                   amount |-> amount, createdAt |-> now, settled |-> FALSE])
    /\ escrowByRequest' = IF escrowByRequest[requestId] = 0
                          THEN [escrowByRequest EXCEPT ![requestId] = Len(escrows) + 1]
                          ELSE escrowByRequest
    /\ balance' = balance + amount
    /\ UNCHANGED <<received, events, now>>

Settled(e) == [requestId |-> e.requestId, payer |-> e.payer, node |-> e.node,
               amount |-> e.amount, createdAt |-> e.createdAt, settled |-> TRUE]

\* The escrow is settled, its amount sent, and the event emitted.
payOut(id, to, event) ==
    /\ escrows' = [escrows EXCEPT ![id] = Settled(@)]
    /\ balance' = balance - escrows[id].amount
    /\ received' = [received EXCEPT ![to] = @ + escrows[id].amount]
    /\ events' = events \union {[event |-> event, id |-> id]}
    /\ UNCHANGED <<escrowByRequest, now>>

\* Mutated form: a settled escrow can be released again.
ReleaseReverts_Unchecked(sender, id) ==
    \/ sender \notin {At(id).node, At(id).payer}
    \/ At(id).node \in Rejecting

\* AlreadySettled, NotAuthorized, TransferFailed.
ReleaseReverts(sender, id) ==
    \/ At(id).settled
    \/ sender \notin {At(id).node, At(id).payer}
    \/ At(id).node \in Rejecting

\* The node is paid, by itself or by the payer.
releaseEscrow(sender, id) ==
    /\ ~ReleaseReverts(sender, id)
    /\ payOut(id, At(id).node, "EscrowReleased")

\* Mutated form: a settled escrow can be refunded.
RefundReverts_Unchecked(sender, id) ==
    \/ now < At(id).createdAt + Timeout
    \/ sender # At(id).payer
    \/ At(id).payer \in Rejecting

\* AlreadySettled, TimeoutNotElapsed, NotAuthorized, TransferFailed.
RefundReverts(sender, id) ==
    \/ At(id).settled
    \/ now < At(id).createdAt + Timeout
    \/ sender # At(id).payer
    \/ At(id).payer \in Rejecting

\* The payer takes its funds back after the timeout.
refundEscrow(sender, id) ==
    /\ ~RefundReverts(sender, id)
    /\ payOut(id, At(id).payer, "EscrowRefunded")

\* The next block has a later timestamp.
AdvanceTime ==
    /\ now < MaxTime
    /\ now' = now + 1
    /\ UNCHANGED <<escrows, escrowByRequest, balance, received, events>>

Transaction(sender) ==
    \/ \E amount \in Values, r \in Requests, node \in Accounts : lockEscrow(sender, amount, r, node)
    \/ \E id \in EscrowIds : releaseEscrow(sender, id) \/ refundEscrow(sender, id)

ContractNext == AdvanceTime \/ \E sender \in Accounts : Transaction(sender)

ContractSpec == ContractInit /\ [][ContractNext]_contractVars

-----------------------------------------------------------------------------
(* Properties.                                                             *)

EscrowRecord == [requestId : Requests, payer : Accounts, node : Accounts,
                 amount : Nat \ {0}, createdAt : 0..MaxTime, settled : BOOLEAN]

ContractTypeOK ==
    /\ escrows \in Seq(EscrowRecord) /\ Len(escrows) <= MaxEscrows
    /\ escrowByRequest \in [Requests -> 0..MaxEscrows]
    /\ balance \in Int
    /\ received \in [Accounts -> Nat]
    /\ events \subseteq [event : {"EscrowReleased", "EscrowRefunded"}, id : EscrowIds]
    /\ now \in 0..MaxTime

Emitted(event, id) == [event |-> event, id |-> id] \in events

Held(id)     == IF At(id).settled THEN 0 ELSE At(id).amount
ToNode(id)   == IF Emitted("EscrowReleased", id) THEN At(id).amount ELSE 0
ToClient(id) == IF Emitted("EscrowRefunded", id) THEN At(id).amount ELSE 0
Phase(id)    == IF id > Len(escrows) THEN "none" ELSE IF At(id).settled THEN "paid" ELSE "held"

E == INSTANCE Escrow WITH
        Deals <- EscrowIds,
        Amounts <- Values,
        held <- [id \in EscrowIds |-> Held(id)],
        toNode <- [id \in EscrowIds |-> ToNode(id)],
        toClient <- [id \in EscrowIds |-> ToClient(id)],
        phase <- [id \in EscrowIds |-> Phase(id)]

Made == 1..Len(escrows)
Amount == [id \in Made |-> escrows[id].amount]
Unsettled == {id \in Made : ~escrows[id].settled}

\* The contract holds what is in the escrows that are not settled, and has sent
\* what was in the others: nothing is paid twice, nothing is kept.
Conservation ==
    /\ balance = SumOver(Amount, Unsettled)
    /\ SumOver(received, Accounts) = SumOver(Amount, Made \ Unsettled)

\* Whoever sends which transactions in whatever order, an escrow is made once
\* and settled once, and its whole amount goes to its node or to its payer.
EscrowSpec == E!Spec

=============================================================================
