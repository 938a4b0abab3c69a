--------------------------- MODULE PaymentChannel ---------------------------
(***************************************************************************)
(* The payment-channel settlement adapter                                  *)
(* (crates/settlement/src/channel.rs): a ledger of channels behind one     *)
(* asynchronous mutex, which a call holds across its JSON-RPC exchanges    *)
(* with the chain.                                                         *)
(*                                                                         *)
(* A call is a task that runs one of lock_funds, release_funds and         *)
(* refund_funds.  It reads the wallet's nonce, sends a transaction with    *)
(* it, and waits for the answer.  The task can be dropped at any of these  *)
(* awaits, with the handler that made it; the guard of the mutex goes with *)
(* it, a request already on the wire does not.                             *)
(***************************************************************************)
EXTENDS Integers, Sequences, FiniteSets

CONSTANTS Calls,     \* calls of the adapter
          Requests,  \* request ids
          Amounts,   \* what a client may lock (amount_nanox)
          Costs,     \* what a proof may charge (price_paid_nanox)
          MaxFaults, \* bound: failed or lost RPCs
          MaxDrops,  \* bound: calls dropped at an await
          None       \* no call; no channel

ASSUME ConstantsAssumption ==
    /\ Amounts \subseteq Nat
    /\ Costs \subseteq Nat
    /\ MaxFaults \in Nat
    /\ MaxDrops \in Nat
    /\ None \notin Calls

VARIABLES channels,  \* ChannelState by request, None when there is none
          total,     \* total_settled_nanox
          owner,     \* the call that holds the mutex
          queue,     \* the calls that wait for it, first come first served
          call,      \* operation, request and amount of each call
          pc,        \* where each call is
          onChain,   \* whether a ChannelChainConfig was given
          nonce,     \* the nonce each call has read
          wire,      \* calls whose transaction is on its way to the chain
          chain,     \* the transactions the chain has accepted, in order
          stale,     \* how many it refused for their nonce
          faults, drops

ledger == <<channels, total>>
mutex  == <<owner, queue>>
net    == <<onChain, nonce, wire, chain, stale>>
vars == <<channels, total, owner, queue, call, pc, onChain, nonce, wire, chain, stale, faults, drops>>

Ops == {"lock", "release", "refund"}

\* A call waits for the mutex, for the nonce, for the answer to its
\* transaction (which the chain then accepts or refuses).
Waiting  == {"queued", "reading", "sending", "accepted", "refused"}
Finished == {"ok", "error", "dropped"}

Noop == [op |-> "none", req |-> None, amount |-> 0]

Init ==
    /\ channels = [r \in Requests |-> None]
    /\ total = 0
    /\ owner = None
    /\ queue = <<>>
    /\ call = [c \in Calls |-> Noop]
    /\ pc = [c \in Calls |-> "idle"]
    /\ onChain \in BOOLEAN
    /\ nonce = [c \in Calls |-> 0]
    /\ wire = {}
    /\ chain = <<>>
    /\ stale = 0
    /\ faults = 0
    /\ drops = 0

-----------------------------------------------------------------------------
(* Helpers.                                                                *)
(* A definition named X_Y is a mutated form of X: the runs must refute it. *)

\* lock_funds, release_funds and refund_funds each begin by locking `channels`.
\* A handle for release or refund comes from a lock that succeeded; the cost
\* of a release comes from its proof.
Start(c, op, r, amount) ==
    /\ pc[c] = "idle"
    /\ op # "lock" => \E k \in Calls : call[k].op = "lock" /\ call[k].req = r /\ pc[k] = "ok"
    /\ pc' = [pc EXCEPT ![c] = "queued"]
    /\ call' = [call EXCEPT ![c] = [op |-> op, req |-> r, amount |-> amount]]
    /\ queue' = Append(queue, c)
    /\ UNCHANGED <<ledger, owner, net, faults, drops>>

\* The mutex is free and c is first in line.
First(c, op) ==
    /\ owner = None
    /\ queue # <<>> /\ c = Head(queue)
    /\ call[c].op = op
    /\ queue' = Tail(queue)

\* The call returns before its first await inside the critical section.
ReturnAtOnce(c, result) ==
    /\ pc' = [pc EXCEPT ![c] = result]
    /\ UNCHANGED <<owner, call, net, faults, drops>>

\* Mutated form: the guard is released before the exchange with the chain.
Proceed_UnlocksFirst(c) ==
    IF onChain THEN /\ pc' = [pc EXCEPT ![c] = "reading"]
                    /\ UNCHANGED <<owner, call, net, faults, drops>>
               ELSE ReturnAtOnce(c, "ok")

\* ... or keeps the mutex and asks the chain for its nonce.
Proceed(c) ==
    IF onChain THEN /\ pc' = [pc EXCEPT ![c] = "reading"]
                    /\ owner' = c
                    /\ UNCHANGED <<call, net, faults, drops>>
               ELSE ReturnAtOnce(c, "ok")

\* The call returns after the exchange with the chain, and frees the mutex.
Return(c, result) ==
    /\ pc' = [pc EXCEPT ![c] = result]
    /\ owner' = None

\* A call that waits for the mutex gives up its place.
LeaveQueue(c) ==
    \/ /\ pc[c] # "queued"
       /\ queue' = queue
    \/ \E i \in 1..Len(queue) :
          /\ queue[i] = c
          /\ queue' = SubSeq(queue, 1, i - 1) \o SubSeq(queue, i + 1, Len(queue))

Fault == faults < MaxFaults /\ faults' = faults + 1

NewChannel(amount) == [client |-> amount, node |-> 0, seq |-> 0, settled |-> FALSE]

\* Mutated form: the channel is charged and left open.
Charged_LeavesOpen(ch, cost) == [client |-> ch.client - cost, node |-> ch.node + cost,
                                 seq |-> ch.seq + 1, settled |-> FALSE]

Charged(ch, cost) == [client |-> ch.client - cost, node |-> ch.node + cost,
                      seq |-> ch.seq + 1, settled |-> TRUE]

Refunded(ch) == [client |-> ch.client, node |-> ch.node, seq |-> ch.seq, settled |-> TRUE]

-----------------------------------------------------------------------------
(* lock_funds.                                                             *)

LockDuplicate(c) ==
    /\ First(c, "lock")
    /\ channels[call[c].req] # None
    /\ ReturnAtOnce(c, "error")
    /\ UNCHANGED ledger

LockInMemory(c) ==
    /\ ~onChain
    /\ First(c, "lock")
    /\ channels[call[c].req] = None
    /\ channels' = [channels EXCEPT ![call[c].req] = NewChannel(call[c].amount)]
    /\ ReturnAtOnce(c, "ok")
    /\ UNCHANGED total

\* Mutated form: a retried lock opens the channel again.
LockOnChain_NoDuplicateCheck(c) ==
    /\ onChain
    /\ First(c, "lock")
    /\ Proceed(c)
    /\ UNCHANGED ledger

\* openChannel comes first, the channel is recorded when it has been accepted.
LockOnChain(c) ==
    /\ onChain
    /\ First(c, "lock")
    /\ channels[call[c].req] = None
    /\ Proceed(c)
    /\ UNCHANGED ledger

-----------------------------------------------------------------------------
(* release_funds and refund_funds.                                         *)

\* The channel was settled before: a warning, and Ok.
AlreadySettled(c) ==
    /\ First(c, "release") \/ First(c, "refund")
    /\ channels[call[c].req].settled
    /\ ReturnAtOnce(c, "ok")
    /\ UNCHANGED ledger

CostTooHigh(c) ==
    /\ First(c, "release")
    /\ ~channels[call[c].req].settled
    /\ call[c].amount > channels[call[c].req].client
    /\ ReturnAtOnce(c, "error")
    /\ UNCHANGED ledger

\* The ledger is settled first, the channel closed on the chain afterwards.
Release(c) ==
    /\ First(c, "release")
    /\ ~channels[call[c].req].settled
    /\ call[c].amount <= channels[call[c].req].client
    /\ channels' = [channels EXCEPT ![call[c].req] = Charged(@, call[c].amount)]
    /\ total' = total + call[c].amount
    /\ Proceed(c)

\* Mutated form: the channel stays open after its refund.
Refund_LeavesOpen(c) ==
    /\ First(c, "refund")
    /\ ~channels[call[c].req].settled
    /\ Proceed(c)
    /\ UNCHANGED ledger

Refund(c) ==
    /\ First(c, "refund")
    /\ ~channels[call[c].req].settled
    /\ channels' = [channels EXCEPT ![call[c].req] = Refunded(@)]
    /\ Proceed(c)
    /\ UNCHANGED total

-----------------------------------------------------------------------------
(* send_tx: the nonce, then the transaction.                               *)

\* eth_getTransactionCount "pending", the fees and the gas; then the signed
\* transaction leaves.
ReadNonce(c) ==
    /\ pc[c] = "reading"
    /\ nonce' = [nonce EXCEPT ![c] = Len(chain)]
    /\ wire' = wire \union {c}
    /\ pc' = [pc EXCEPT ![c] = "sending"]
    /\ UNCHANGED <<ledger, mutex, call, onChain, chain, stale, faults, drops>>

\* One of these RPCs fails, before anything was sent.
ReadNonceFails(c) ==
    /\ pc[c] = "reading"
    /\ Fault
    /\ pc' = [pc EXCEPT ![c] = "refused"]
    /\ UNCHANGED <<ledger, mutex, call, net, drops>>

\* The request is lost on the way.
SendFails(c) ==
    /\ pc[c] = "sending" /\ c \in wire
    /\ Fault
    /\ wire' = wire \ {c}
    /\ pc' = [pc EXCEPT ![c] = "refused"]
    /\ UNCHANGED <<ledger, mutex, call, onChain, nonce, chain, stale, drops>>

\* The chain takes the transaction when its nonce is the next one of the
\* wallet, also when the call that sent it is gone; its answer can be lost.
Accept(c) ==
    /\ c \in wire
    /\ nonce[c] = Len(chain)
    /\ wire' = wire \ {c}
    /\ chain' = Append(chain, c)
    /\ \/ pc' = [pc EXCEPT ![c] = IF @ = "sending" THEN "accepted" ELSE @] /\ UNCHANGED faults
       \/ pc[c] = "sending" /\ Fault /\ pc' = [pc EXCEPT ![c] = "refused"]
    /\ UNCHANGED <<ledger, mutex, call, onChain, nonce, stale, drops>>

RefuseStale(c) ==
    /\ c \in wire
    /\ nonce[c] # Len(chain)
    /\ wire' = wire \ {c}
    /\ stale' = stale + 1
    /\ pc' = [pc EXCEPT ![c] = IF @ = "sending" THEN "refused" ELSE @]
    /\ UNCHANGED <<ledger, mutex, call, onChain, nonce, chain, faults, drops>>

-----------------------------------------------------------------------------
(* The answer is back in the critical section.                             *)

\* openChannel was accepted: record the channel and hand out its handle.
Opened(c) ==
    /\ pc[c] = "accepted" /\ call[c].op = "lock"
    /\ channels' = [channels EXCEPT ![call[c].req] = NewChannel(call[c].amount)]
    /\ Return(c, "ok")
    /\ UNCHANGED <<total, queue, call, net, faults, drops>>

\* It failed, or its answer was lost: an error, and nothing is recorded.
OpenFailed(c) ==
    /\ pc[c] = "refused" /\ call[c].op = "lock"
    /\ Return(c, "error")
    /\ UNCHANGED <<ledger, queue, call, net, faults, drops>>

\* closeChannel or refundChannel succeeded, or failed with a warning: Ok.
Closed(c) ==
    /\ pc[c] \in {"accepted", "refused"} /\ call[c].op # "lock"
    /\ Return(c, "ok")
    /\ UNCHANGED <<ledger, queue, call, net, faults, drops>>

\* Mutated form: the mutex is not freed with the dropped call.
Drop_KeepsMutex(c) ==
    /\ pc[c] \in Waiting
    /\ drops < MaxDrops
    /\ drops' = drops + 1
    /\ pc' = [pc EXCEPT ![c] = "dropped"]
    /\ LeaveQueue(c)
    /\ UNCHANGED <<ledger, owner, call, net, faults>>

\* Dropped with the handler that made it, where it waits; the guard of the
\* mutex, or its place in the queue, is given up.
Drop(c) ==
    /\ pc[c] \in Waiting
    /\ drops < MaxDrops
    /\ drops' = drops + 1
    /\ pc' = [pc EXCEPT ![c] = "dropped"]
    /\ owner' = IF owner = c THEN None ELSE owner
    /\ LeaveQueue(c)
    /\ UNCHANGED <<ledger, call, net, faults>>

Locking(c)   == LockDuplicate(c) \/ LockInMemory(c) \/ LockOnChain(c)
Settling(c)  == AlreadySettled(c) \/ CostTooHigh(c) \/ Release(c) \/ Refund(c)
Rpc(c)       == ReadNonce(c) \/ ReadNonceFails(c) \/ SendFails(c) \/ Accept(c) \/ RefuseStale(c)
Answering(c) == Opened(c) \/ OpenFailed(c) \/ Closed(c)

Work(c) == Locking(c) \/ Settling(c) \/ Rpc(c) \/ Answering(c)

StartAny(c) ==
    \E r \in Requests : \/ \E a \in Amounts : Start(c, "lock", r, a)
                        \/ \E a \in Costs : Start(c, "release", r, a)
                        \/ Start(c, "refund", r, 0)

Next == \E c \in Calls : StartAny(c) \/ Work(c) \/ Drop(c)

Spec == Init /\ [][Next]_vars

\* Tasks are scheduled and the chain's endpoint answers.  The second half is
\* an assumption on the endpoint: the HTTP client has no timeout.
FairSpec == Spec /\ \A c \in Calls : WF_vars(Work(c))

-----------------------------------------------------------------------------
(* Properties.                                                             *)

Channel == [client : Nat, node : Nat, seq : {0, 1}, settled : BOOLEAN]

ASSUME NoneAssumption == None \notin Channel

\* Every variable has its type: the HashMap<String, ChannelState> of
\* PaymentChannel, its counter, and what the calls and the wallet hold.
TypeOK ==
    /\ channels \in [Requests -> Channel \union {None}]
    /\ total \in Nat
    /\ owner \in Calls \union {None}
    /\ queue \in Seq(Calls)
    /\ call \in [Calls -> [op : Ops \union {"none"}, req : Requests \union {None}, amount : Nat]]
    /\ pc \in [Calls -> {"idle"} \union Waiting \union Finished]
    /\ onChain \in BOOLEAN
    /\ nonce \in [Calls -> Nat]
    /\ wire \subseteq Calls
    /\ chain \in Seq(Calls)
    /\ stale \in Nat
    /\ faults \in 0..MaxFaults
    /\ drops \in 0..MaxDrops

Open(r)    == channels[r] # None
Settled(r) == Open(r) /\ channels[r].settled

Held(r)     == IF Open(r) /\ ~Settled(r) THEN channels[r].client ELSE 0
ToNode(r)   == IF Settled(r) THEN channels[r].node ELSE 0
ToClient(r) == IF Settled(r) THEN channels[r].client ELSE 0
Phase(r)    == IF Settled(r) THEN "paid" ELSE IF Open(r) THEN "held" ELSE "none"

E == INSTANCE Escrow WITH
        Deals <- Requests,
        held <- [r \in Requests |-> Held(r)],
        toNode <- [r \in Requests |-> ToNode(r)],
        toClient <- [r \in Requests |-> ToClient(r)],
        phase <- [r \in Requests |-> Phase(r)]

\* The ledger is an escrow: whatever calls run, wait, fail or are dropped, a
\* channel is opened once, and settled once, and a settlement pays out all of
\* what was locked (release_funds and refund_funds against lock_funds).
EscrowSpec == E!Spec

\* The transactions of an operation on a request that the chain accepted.
AcceptedTxs(ops, r) ==
    {i \in 1..Len(chain) : call[chain[i]].op \in ops /\ call[chain[i]].req = r}

\* One wallet signs for every call.  Because a call keeps the mutex from
\* reading the nonce until its transaction is answered, two calls never race
\* for a nonce: every transaction refused for its nonce is explained by a
\* call that was dropped while its own was on the wire.
NonceRaceNeedsDrop == stale <= drops

\* The chain knows what the ledger records: a recorded channel was opened on it
\* before for the same amount (lock_funds), and a channel is closed on it once at
\* most, after it was settled in the ledger and with the node's balance there
\* (release_funds, refund_funds).
LedgerIsOnChain ==
    onChain =>
    \A r \in Requests :
        LET opened == AcceptedTxs({"lock"}, r)
            closed == AcceptedTxs({"release", "refund"}, r)
        IN /\ Open(r) => \E i \in opened : call[chain[i]].amount = channels[r].client + channels[r].node
           /\ Cardinality(closed) <= 1
           /\ \A i \in closed :
                 /\ Settled(r) /\ channels[r].node = call[chain[i]].amount
                 /\ \E j \in opened : j < i

\* Calls on r that still hold the mutex and may tell the chain, or the ledger.
AtWork(ops, r) == \E c \in Calls : owner = c /\ call[c].op \in ops /\ call[c].req = r

\* A channel that is open on the chain and unknown to the ledger, or settled in the
\* ledger and open on the chain, cost a failed RPC or a dropped call: nothing in
\* the code finds it again (lock_funds; the "non-fatal" warning of release_funds).
DivergenceNeedsFailures ==
    /\ Cardinality({i \in 1..Len(chain) : call[chain[i]].op = "lock"})
          <= Cardinality({r \in Requests : Open(r)})
             + (IF \E r \in Requests : AtWork({"lock"}, r) THEN 1 ELSE 0) + faults + drops
    /\ onChain =>
          Cardinality({r \in Requests :
                  /\ Settled(r) /\ ~AtWork({"release", "refund"}, r)
                  /\ AcceptedTxs({"release", "refund"}, r) = {}}) <= faults + drops

\* Every call gets the mutex and returns, unless it is dropped: no path, and
\* no dropped call, leaves the mutex locked.
EveryCallReturns == \A c \in Calls : pc[c] = "queued" ~> pc[c] \in Finished
=============================================================================
