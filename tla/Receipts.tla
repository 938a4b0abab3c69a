------------------------------ MODULE Receipts ------------------------------
(***************************************************************************)
(* What a handler does once a prompt has been answered:                    *)
(* settle_and_build_receipt (node/src/api/mod.rs) on the adapters the      *)
(* daemon has loaded, those without a chain in full: FreeSettlement,       *)
(* SignedReceiptSettlement and ArcGatewaySettlement.  An adapter with a    *)
(* chain is taken here for its answers: Ok once the endpoint has taken a   *)
(* transaction, whatever becomes of it.  EvmSettlement, SolanaSettlement   *)
(* and SuiSettlement say how it comes by them.                             *)
(*                                                                         *)
(* The handler is the one of /v1/infer_encrypted, which goes past the      *)
(* admission gate and the job store; the others settle in the same way.    *)
(***************************************************************************)
EXTENDS Integers, Sequences, SequencesExt

CONSTANTS
    Paid,           \* requests
    Configs,        \* [[settlement.adapters]]: sequences of [id, complete]
    Wants,          \* accepted_settlements: sequences of ids, or Unsaid
    Unsaid,
    NoReceipt,
    NoTx,
    MadeUp,         \* the payment id of an answer that names none
    MaxPayFaults,   \* bound: calls of a request that fail, or whose answer is lost
    MaxPayHangups   \* bound: clients that hang up

\* Those without a chain, and any that has one.
AdapterIds == {"free", "receipt", "arc-gateway", "chain"}

ASSUME ReceiptsAssumption ==
    /\ Configs \subseteq Seq([id : AdapterIds, complete : BOOLEAN])
    /\ NoReceipt \notin [adapter : AdapterIds, tx : Paid \union {NoTx, MadeUp}]
    /\ NoTx \notin Paid \union {MadeUp} /\ MadeUp \notin Paid
    /\ MaxPayFaults \in Nat /\ MaxPayHangups \in Nat

VARIABLES
    config,     \* the node's configuration
    wants,      \* what each client accepts
    stage,      \* where each handler is
    proofOf,    \* what build_receipt has made of each request
    receipts,   \* the log of SignedReceiptSettlement
    intent,     \* Circle's payment of each request: "none", "created", "confirmed"
    lockTx,     \* its lock on the chain: "none", "sent", "landed", "lost"
    releaseTx,  \* its release
    payFaults,  \* of each request, the calls that failed
    payHangups

receiptVars == <<config, wants, stage, proofOf, receipts, intent, lockTx, releaseTx,
               payFaults, payHangups>>

ReceiptsInit ==
    /\ config \in Configs /\ wants \in [Paid -> Wants]
    /\ stage = [r \in Paid |-> "received"]
    /\ proofOf = [r \in Paid |-> NoReceipt]
    /\ receipts = <<>>
    /\ intent = [r \in Paid |-> "none"]
    /\ lockTx = [r \in Paid |-> "none"] /\ releaseTx = [r \in Paid |-> "none"]
    /\ payFaults = [r \in Paid |-> 0] /\ payHangups = 0

PayFault(r) == payFaults[r] < MaxPayFaults /\ payFaults' = [payFaults EXCEPT ![r] = @ + 1]
StageGoes(r, to) == stage' = [stage EXCEPT ![r] = to]

\* The adapters that lack no setting, by their place in the configuration.
Ready == {i \in DOMAIN config : config[i].complete}

Wanted(r) == IF wants[r] = Unsaid THEN <<"receipt", "free">> ELSE wants[r]

Matching(r) == {i \in Ready : config[i].id \in ToSet(Wanted(r))}

\* select_adapter: the node's order wins; ensure_free_fallback has put a free
\* adapter after the others.
Selects(r, id) ==
    \/ \E i \in Matching(r) : config[i].id = id /\ \A j \in Matching(r) : i <= j
    \/ Matching(r) = {} /\ id = "free"

\* The prompt is not what the client's key and this node's make readable.
BadRequest(r) ==
    /\ stage[r] = "received"
    /\ StageGoes(r, "refused")
    /\ UNCHANGED <<config, wants, proofOf, receipts, intent, lockTx, releaseTx, payFaults, payHangups>>

Decrypt(r) ==
    /\ stage[r] = "received"
    /\ StageGoes(r, "running")
    /\ UNCHANGED <<config, wants, proofOf, receipts, intent, lockTx, releaseTx, payFaults, payHangups>>

EngineFails(r) ==
    /\ stage[r] = "running"
    /\ StageGoes(r, "refused")
    /\ UNCHANGED <<config, wants, proofOf, receipts, intent, lockTx, releaseTx, payFaults, payHangups>>

\* The lock is taken out when the prompt has been answered.
AfterAnswer(id) ==
    CASE id = "arc-gateway" -> "paying"
      [] id = "chain"       -> "locking"
      [] OTHER              -> "releasing"

\* build_receipt names the adapter and the transaction of the lock.
Sign(r, id, tx) == proofOf' = [proofOf EXCEPT ![r] = [adapter |-> id, tx |-> tx]]

\* The free and the receipt adapter lock nothing.
EngineAnswers(r) ==
    LET selected == {id \in ToSet(Wanted(r)) : Selects(r, id)} IN
    /\ stage[r] = "running"
    /\ \/ selected = {} /\ StageGoes(r, "answered") /\ UNCHANGED proofOf
       \/ \E id \in selected :
             /\ StageGoes(r, AfterAnswer(id))
             /\ IF AfterAnswer(id) = "releasing" THEN Sign(r, id, NoTx) ELSE UNCHANGED proofOf
    /\ UNCHANGED <<config, wants, receipts, intent, lockTx, releaseTx, payFaults, payHangups>>

\* release_funds of the two: nothing, and an entry of the log.
ReleaseOffChain(r) ==
    /\ stage[r] = "releasing" /\ proofOf[r].adapter \in {"free", "receipt"}
    /\ receipts' = IF proofOf[r].adapter = "receipt" THEN Append(receipts, r) ELSE receipts
    /\ StageGoes(r, "answered")
    /\ UNCHANGED <<config, wants, proofOf, intent, lockTx, releaseTx, payFaults, payHangups>>
-----------------------------------------------------------------------------
(***************************************************************************)
(* The Arc gateway, and Circle's service, which is external.               *)
(***************************************************************************)

CircleCreates(r) ==
    /\ stage[r] = "paying" /\ intent[r] = "none"
    /\ intent' = [intent EXCEPT ![r] = "created"]
    /\ UNCHANGED <<config, wants, stage, proofOf, receipts, lockTx, releaseTx, payFaults, payHangups>>

\* A payment that could not be made is no error: there is a receipt, without it.
\* An answer that has no id is given one.
PaymentMade(r) ==
    /\ stage[r] = "paying"
    /\ \/ intent[r] = "created" /\ Sign(r, "arc-gateway", r) /\ UNCHANGED payFaults
       \/ Sign(r, "arc-gateway", MadeUp) /\ UNCHANGED payFaults
       \/ PayFault(r) /\ Sign(r, "arc-gateway", NoTx)
    /\ StageGoes(r, "releasing")
    /\ UNCHANGED <<config, wants, receipts, intent, lockTx, releaseTx, payHangups>>

CircleConfirms(r) ==
    /\ stage[r] = "releasing" /\ proofOf[r].tx = r /\ intent[r] = "created"
    /\ intent' = [intent EXCEPT ![r] = "confirmed"]
    /\ UNCHANGED <<config, wants, stage, proofOf, receipts, lockTx, releaseTx, payFaults, payHangups>>

\* Mutated form: the test of payment_id inverted.
NothingToConfirm_Inverted(r) == proofOf[r].tx # NoTx

\* Circle was out of reach when the payment was to be made.
NothingToConfirm(r) == proofOf[r].tx = NoTx

\* release_funds: a confirmation that fails is a warning.  Circle has no payment
\* of a name that was made up here.
PaymentConfirmed(r) ==
    /\ stage[r] = "releasing" /\ proofOf[r].adapter = "arc-gateway"
    /\ \/ (NothingToConfirm(r) \/ proofOf[r].tx = MadeUp) /\ UNCHANGED payFaults
       \/ intent[r] = "confirmed" /\ UNCHANGED payFaults
       \/ ~NothingToConfirm(r) /\ PayFault(r)
    /\ StageGoes(r, "answered")
    /\ UNCHANGED <<config, wants, proofOf, receipts, intent, lockTx, releaseTx, payHangups>>
-----------------------------------------------------------------------------
(***************************************************************************)
(* An adapter with a chain.  Its endpoint takes a transaction and answers; *)
(* the chain executes it at some later time, or never: it is replaced,     *)
(* expires, or reverts.                                                    *)
(***************************************************************************)

LockTaken(r) ==
    /\ stage[r] = "locking" /\ lockTx[r] = "none"
    /\ lockTx' = [lockTx EXCEPT ![r] = "sent"]
    /\ UNCHANGED <<config, wants, stage, proofOf, receipts, intent, releaseTx, payFaults, payHangups>>

\* Without a lock there is no receipt, and no other adapter is tried.
LockAnswered(r) ==
    /\ stage[r] = "locking"
    /\ \/ /\ lockTx[r] # "none" /\ Sign(r, "chain", r) /\ StageGoes(r, "releasing")
          /\ UNCHANGED payFaults
       \/ PayFault(r) /\ StageGoes(r, "answered") /\ UNCHANGED proofOf
    /\ UNCHANGED <<config, wants, receipts, intent, lockTx, releaseTx, payHangups>>

ReleaseTaken(r) ==
    /\ stage[r] = "releasing" /\ proofOf[r].adapter = "chain" /\ releaseTx[r] = "none"
    /\ releaseTx' = [releaseTx EXCEPT ![r] = "sent"]
    /\ UNCHANGED <<config, wants, stage, proofOf, receipts, intent, lockTx, payFaults, payHangups>>

\* The receipt is the same whether the release succeeded or not.
ReleaseAnswered(r) ==
    /\ stage[r] = "releasing" /\ proofOf[r].adapter = "chain"
    /\ \/ releaseTx[r] # "none" /\ UNCHANGED payFaults
       \/ PayFault(r)
    /\ StageGoes(r, "answered")
    /\ UNCHANGED <<config, wants, proofOf, receipts, intent, lockTx, releaseTx, payHangups>>

LockSettles(r) == \E end \in {"landed", "lost"} :
    /\ lockTx[r] = "sent"
    /\ lockTx' = [lockTx EXCEPT ![r] = end]
    /\ UNCHANGED <<config, wants, stage, proofOf, receipts, intent, releaseTx, payFaults, payHangups>>

\* There is nothing to release before the lock has landed.
ReleaseSettles(r) == \E end \in {"landed", "lost"} :
    /\ releaseTx[r] = "sent" /\ (end = "landed" => lockTx[r] = "landed")
    /\ releaseTx' = [releaseTx EXCEPT ![r] = end]
    /\ UNCHANGED <<config, wants, stage, proofOf, receipts, intent, lockTx, payFaults, payHangups>>

\* The client hangs up: the handler is dropped where it waits.
PayerLeaves(r) ==
    /\ stage[r] \in {"running", "paying", "locking", "releasing"}
    /\ payHangups < MaxPayHangups /\ payHangups' = payHangups + 1
    /\ StageGoes(r, "dropped")
    /\ UNCHANGED <<config, wants, proofOf, receipts, intent, lockTx, releaseTx, payFaults>>

ReceiptsNext == \E r \in Paid :
    \/ BadRequest(r) \/ Decrypt(r) \/ EngineFails(r) \/ EngineAnswers(r)
    \/ ReleaseOffChain(r)
    \/ CircleCreates(r) \/ PaymentMade(r) \/ CircleConfirms(r) \/ PaymentConfirmed(r)
    \/ LockTaken(r) \/ LockAnswered(r) \/ LockSettles(r)
    \/ ReleaseTaken(r) \/ ReleaseAnswered(r) \/ ReleaseSettles(r)
    \/ PayerLeaves(r)

ReceiptsSpec == ReceiptsInit /\ [][ReceiptsNext]_receiptVars
-----------------------------------------------------------------------------
(* Properties.                                                             *)

Told(r) == stage[r] = "answered" /\ proofOf[r] # NoReceipt

Names(r, tx) == proofOf[r] # NoReceipt /\ proofOf[r].tx = tx

\* What a client holds is what the node's log has, what Circle was asked for, or
\* what a chain's endpoint has taken; it names nothing only when nothing was
\* reserved, or after a call that failed.  Not that it is there: a transaction that was
\* taken may be lost, an id may be made up, and all of it follows the answer, where
\* adapter.rs:43 says "On-chain TX ID" and adapter.rs:91 "before the job starts".
ReceiptIsBacked(r) ==
    Told(r) =>
        /\ proofOf[r].adapter \in ToSet(Wanted(r))
        /\ proofOf[r].adapter = "receipt" <=> r \in ToSet(receipts)
        /\ Names(r, r) => intent[r] # "none" \/ lockTx[r] # "none"
        /\ Names(r, NoTx) => lockTx[r] = "none" /\ (intent[r] # "none" => payFaults[r] > 0)
        /\ Names(r, MadeUp) => proofOf[r].adapter = "arc-gateway"

\* What is reserved and not passed on: a call of the request failed, Circle's answer
\* had no id, or the release was taken and has not landed.  Nothing is reserved for
\* a prompt that is not answered, and by default every answer has a receipt.
NothingIsStranded(r) ==
    LET reserved == intent[r] = "created" \/ (lockTx[r] = "landed" /\ releaseTx[r] # "landed") IN
    /\ stage[r] = "answered" /\ reserved =>
          payFaults[r] > 0 \/ Names(r, MadeUp) \/ releaseTx[r] # "none"
    /\ stage[r] = "refused" => intent[r] = "none" /\ lockTx[r] = "none" /\ r \notin ToSet(receipts)
    /\ stage[r] = "answered" /\ payFaults[r] = 0 /\ wants[r] = Unsaid => Told(r)

\* Each job is in the log once.
LoggedOnce == \A i, j \in DOMAIN receipts : receipts[i] = receipts[j] => i = j

\* Receipts say what was asked for and taken, with handlers that are dropped at any
\* step and services that fail, whose answers are lost or have no id, and chains
\* that do not execute what they took (api/mod.rs:1090-1160, receipt.rs,
\* arc_gateway.rs).
ReceiptsAreTrue == LoggedOnce /\ \A r \in Paid : ReceiptIsBacked(r) /\ NothingIsStranded(r)
=============================================================================
