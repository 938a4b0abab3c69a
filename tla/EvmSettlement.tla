--------------------------- MODULE EvmSettlement ---------------------------
(***************************************************************************)
(* The EVM settlement adapter (crates/settlement/src/evm.rs) and the chain *)
(* its transactions end up on, with the contract DeAIEscrow.               *)
(*                                                                         *)
(* Every settlement of a node is a task that calls lock_funds, then        *)
(* release_funds.  Each reads the wallet's pending nonce and sends one     *)
(* transaction with it; no lock is held in between, so tasks race for      *)
(* nonces.  A call succeeds when its transaction is in the pool, long      *)
(* before it is mined.  On Arc the node also registers as an agent         *)
(* (ERC-8004) when it starts: a task with one transaction to a registry.   *)
(***************************************************************************)
EXTENDS DeAIEscrow, FiniteSets

CONSTANTS Tasks,     \* settlements of the node; each is its own request
          Registrars,\* of the tasks, those that register the node instead
          Wallet,    \* the node's account, payer of every lock
          Client,    \* another account, that uses the contract by itself
          MaxFaults, \* bound: failed or lost RPCs
          MaxDrops   \* bound: tasks dropped at an await

ASSUME AdapterAssumption ==
    /\ Tasks \subseteq Requests /\ Registrars \subseteq Tasks
    /\ Wallet \in Accounts /\ Client \in Accounts \ {Wallet}
    /\ MaxFaults \in Nat /\ MaxDrops \in Nat

VARIABLES pc,      \* where each task is
          value,   \* the amount it locks
          nonce,   \* the nonces its transactions have read
          pool,    \* the wallet's transactions that wait to be mined
          mined,   \* those mined, in order; the next nonce is its length
          faults, drops

chainVars == <<contractVars, mined>>
vars == <<contractVars, pc, value, nonce, pool, mined, faults, drops>>

\* The transactions a task sends; it is there, or at its "Send" once it has the nonce.
Steps == {"lock", "release", "register"}
Sending == {"lockSend", "releaseSend", "registerSend"}
Working == Steps \union Sending
\* "receipt": a receipt was answered, whatever release_funds returned.
Ended == {"receipt", "registered", "none", "dropped"}

Step(p) == IF p \in {"lock", "lockSend"} THEN "lock"
           ELSE IF p \in {"register", "registerSend"} THEN "register" ELSE "release"
Send(step) == IF step = "lock" THEN "lockSend"
              ELSE IF step = "register" THEN "registerSend" ELSE "releaseSend"

Tx(t, step) == [nonce |-> nonce[t][step], step |-> step, task |-> t]

Init ==
    /\ ContractInit
    /\ pc = [t \in Tasks |-> "idle"]
    /\ value = [t \in Tasks |-> 0]
    /\ nonce = [t \in Tasks |-> [s \in Steps |-> 0]]
    /\ pool = {}
    /\ mined = <<>>
    /\ faults = 0
    /\ drops = 0

Goto(t, to) == pc' = [pc EXCEPT ![t] = to]
Fault == faults < MaxFaults /\ faults' = faults + 1

-----------------------------------------------------------------------------
(* The task: settle_and_build_receipt.                                     *)

\* An answer is ready to be paid for; the amount is what the client asked for.
Settle(t) ==
    /\ t \notin Registrars /\ pc[t] = "idle"
    /\ Goto(t, "lock")
    /\ \E v \in Values : value' = [value EXCEPT ![t] = v]
    /\ UNCHANGED <<contractVars, nonce, pool, mined, faults, drops>>

\* The node has started and spawns the task that registers it.
Register(t) ==
    /\ t \in Registrars /\ pc[t] = "idle"
    /\ Goto(t, "register")
    /\ UNCHANGED <<contractVars, value, nonce, pool, mined, faults, drops>>

\* Mutated form: "latest" instead of "pending".
PendingNonce_Latest == Len(mined)

\* eth_getTransactionCount "pending": what is mined and what waits.
PendingNonce == Len(mined) + Cardinality(pool)

get_nonce(t) ==
    /\ pc[t] \in Steps
    /\ nonce' = [nonce EXCEPT ![t][pc[t]] = PendingNonce]
    /\ Goto(t, Send(pc[t]))
    /\ UNCHANGED <<contractVars, value, pool, mined, faults, drops>>

\* Mutated form: what failed is tried again.
Failed_Retry(t) == Goto(t, Step(pc[t]))

\* lock_funds failed: no receipt.  release_funds failed: a warning.  The registration
\* failed: a line in the log.
Failed(t) == Goto(t, IF Step(pc[t]) = "release" THEN "receipt" ELSE "none")

\* lock_funds returns a handle, release_funds and the registration return Ok.
Succeeded(t) == Goto(t, IF Step(pc[t]) = "lock" THEN "release"
                        ELSE IF Step(pc[t]) = "register" THEN "registered" ELSE "receipt")

\* An RPC before the transaction is sent fails, or the request is lost.
RpcFails(t) ==
    /\ pc[t] \in Working
    /\ Fault
    /\ Failed(t)
    /\ UNCHANGED <<contractVars, value, nonce, pool, mined, drops>>

\* The pool takes the transaction when its nonce is free.  Its answer can be
\* lost.
SendAccepted(t) ==
    /\ pc[t] \in Sending
    /\ nonce[t][Step(pc[t])] = PendingNonce
    /\ pool' = pool \union {Tx(t, Step(pc[t]))}
    /\ \/ Succeeded(t) /\ UNCHANGED faults
       \/ Fault /\ Failed(t)
    /\ UNCHANGED <<contractVars, value, nonce, mined, drops>>

\* Mutated form: a refused transaction is waited for.
SendRefused_Ignored(t) ==
    /\ pc[t] \in Sending
    /\ nonce[t][Step(pc[t])] < PendingNonce
    /\ UNCHANGED vars

\* Its nonce is taken by another transaction of the wallet: it is refused,
SendRefused(t) ==
    /\ pc[t] \in Sending
    /\ nonce[t][Step(pc[t])] < PendingNonce
    /\ Failed(t)
    /\ UNCHANGED <<contractVars, value, nonce, pool, mined, faults, drops>>

\* or, while that one waits and when its own fees are higher, it replaces it.
SendReplaces(t) ==
    /\ pc[t] \in Sending
    /\ \E tx \in pool :
          /\ tx.nonce = nonce[t][Step(pc[t])]
          /\ pool' = (pool \ {tx}) \union {Tx(t, Step(pc[t]))}
    /\ Succeeded(t)
    /\ UNCHANGED <<contractVars, value, nonce, mined, faults, drops>>

\* The handler is dropped; what it has sent stays sent.  The registration has a task
\* of its own that nobody drops.
Drop(t) ==
    /\ t \notin Registrars /\ pc[t] \in Working
    /\ drops < MaxDrops
    /\ drops' = drops + 1
    /\ Goto(t, "dropped")
    /\ UNCHANGED <<contractVars, value, nonce, pool, mined, faults>>

-----------------------------------------------------------------------------
(* The chain.                                                              *)

\* The id that release_funds passes on: the first 64 bits of the hash of the
\* lock's transaction.  No counter of the contract ever gets there.
tx_hash_to_escrow_id(t) == MaxEscrows + 1

\* The node's address of a bid is not one of the chain's: the wallet is both
\* the payer and the node.
Execute(tx) ==
    LET id == tx_hash_to_escrow_id(tx.task) IN
    \/ /\ tx.step = "lock" /\ LockReverts(value[tx.task], Wallet)
       /\ UNCHANGED contractVars
    \/ /\ tx.step = "lock"
       /\ lockEscrow(Wallet, value[tx.task], tx.task, Wallet)
    \/ /\ tx.step = "release" /\ ReleaseReverts(Wallet, id)
       /\ UNCHANGED contractVars
    \/ /\ tx.step = "release"
       /\ releaseEscrow(Wallet, id)
    \/ /\ tx.step = "register"
       /\ UNCHANGED contractVars

\* The wallet's next transaction is mined; one that reverts is mined as well.
Mine ==
    \E tx \in pool :
        /\ tx.nonce = Len(mined)
        /\ pool' = pool \ {tx}
        /\ mined' = Append(mined, tx)
        /\ Execute(tx)
        /\ UNCHANGED <<pc, value, nonce, faults, drops>>

\* The client's own transactions, with the ids the contract gave it.
ClientTransaction ==
    /\ Transaction(Client)
    /\ UNCHANGED <<pc, value, nonce, pool, mined, faults, drops>>

NextBlock ==
    /\ AdvanceTime
    /\ UNCHANGED <<pc, value, nonce, pool, mined, faults, drops>>

Work(t) == get_nonce(t) \/ SendAccepted(t) \/ SendRefused(t) \/ SendReplaces(t)

Next ==
    \/ \E t \in Tasks : Settle(t) \/ Register(t) \/ Work(t) \/ RpcFails(t) \/ Drop(t)
    \/ Mine \/ ClientTransaction \/ NextBlock

Spec == Init /\ [][Next]_vars

\* Tasks are scheduled, the endpoint answers, and the chain mines what is next.
FairSpec == Spec /\ WF_vars(Mine) /\ \A t \in Tasks : WF_vars(Work(t))

-----------------------------------------------------------------------------
(* Properties.                                                             *)

AllTxs == [nonce : Nat, step : Steps, task : Tasks]

\* Every variable has its type.
TypeOK ==
    /\ ContractTypeOK
    /\ pc \in [Tasks -> {"idle"} \union Working \union Ended]
    /\ value \in [Tasks -> Values \union {0}]
    /\ nonce \in [Tasks -> [Steps -> Nat]]
    /\ pool \subseteq AllTxs
    /\ mined \in Seq(AllTxs)
    /\ faults \in 0..MaxFaults
    /\ drops \in 0..MaxDrops

MinedTxs == {mined[i] : i \in 1..Len(mined)}

\* The caller was told that this transaction was sent: lock_funds returned a handle, or
\* the node logged that it is registered.
Told(t, step) ==
    \/ step = "lock" /\ t \notin Registrars /\ pc[t] \in {"release", "releaseSend", "receipt"}
    \/ step = "register" /\ pc[t] = "registered"

\* A lock or a registration that was reported and that the chain will never execute was
\* lost in a race: another task took, or replaced, the transaction with the nonce it
\* had read (evm.rs:414-453, 507-549).
LostLockWasRaced ==
    \A t \in Tasks, step \in Steps :
        Told(t, step) =>
            \/ Tx(t, step) \in pool \union MinedTxs
            \/ \E tx \in pool \union MinedTxs :
                  tx.task # t /\ tx.nonce = nonce[t][step]

\* A settlement locks funds once at most, though an answer is lost, its nonce
\* is taken or its handler is dropped; and locks what it was asked to.
LockedAtMostOnce ==
    \A t \in Tasks :
        LET ids == {id \in 1..Len(escrows) : escrows[id].payer = Wallet /\ escrows[id].requestId = t}
        IN  Cardinality(ids) <= 1 /\ \A id \in ids : escrows[id].amount = value[t]

\* Every settlement comes to an end, and the registration: no nonce makes a task wait
\* for another.
SettlementEnds == \A t \in Tasks : pc[t] \in {"lock", "register"} ~> pc[t] \in Ended

\* "Release escrowed funds to the node after successful inference": once its
\* lock is in an escrow and release_funds has returned Ok, the node is paid.
ReleaseReachesNode ==
    \A t \in Tasks :
        /\ Tx(t, "lock") \in MinedTxs /\ value[t] # 0
        /\ Tx(t, "release") \in pool \union MinedTxs
        ~> \E id \in 1..Len(escrows) : escrows[id].requestId = t /\ escrows[id].settled
=============================================================================
