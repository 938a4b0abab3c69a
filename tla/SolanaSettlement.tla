--------------------------- MODULE SolanaSettlement ---------------------------
(***************************************************************************)
(* The Solana adapter settlement/src/solana.rs, called for several requests*)
(* at a time, on the program it drives.  A call reads the latest blockhash *)
(* and sends one signed transaction, which the endpoint simulates before   *)
(* it takes it; the transaction lands later, fails, or is lost when its    *)
(* blockhash expires.  The adapter does not wait for any of this.          *)
(***************************************************************************)
EXTENDS SolanaProgram

CONSTANTS Tasks,     \* settlements; a task is its request id too
          Wallet,    \* the account of keypair_hex
          NodeKey,   \* the node's P2P key
          Client,    \* another user of the program
          MaxFaults, \* bound: failed RPCs, lost answers, expired transactions
          MaxDrops   \* bound: handlers that hyper drops

ASSUME AdapterAssumption ==
    /\ Tasks \subseteq Requests
    /\ Wallet \in Wallets /\ Client \in Wallets \ {Wallet} /\ NodeKey \in NodeKeys
    /\ MaxFaults \in Nat /\ MaxDrops \in Nat

VARIABLES pc,      \* where each settlement is
          value,   \* amount_nanox, kept by the handle
          tx,      \* what became of the transaction of each step
          faults,
          drops

adapterVars == <<pc, value, tx, faults, drops>>
vars == <<programVars, adapterVars>>

Steps == {"lock", "release", "refund"}

Init ==
    /\ ProgramInit
    /\ pc = [t \in Tasks |-> "idle"]
    /\ value = [t \in Tasks |-> 0]
    /\ tx = [t \in Tasks |-> [s \in Steps |-> "unsent"]]
    /\ faults = 0
    /\ drops = 0

\* Where a task awaits the blockhash, and where it awaits sendTransaction.
Sending == [lock |-> "lockSend", release |-> "releaseSend", refund |-> "refundSend"]
Working == Steps \union {Sending[s] : s \in Steps}
Ended   == {"none", "receipt", "done", "dropped"}

Step(p) == CHOOSE s \in Steps : p \in {s, Sending[s]}
Goto(t, p) == pc' = [pc EXCEPT ![t] = p]
Fault == faults < MaxFaults /\ faults' = faults + 1

\* An answer is ready to be paid for.  The node passes the hex form of its P2P
\* key, which is not base58 of 32 bytes: lock_funds fails before any RPC.  With
\* the address of its wallet it goes on.
Settle(t) ==
    /\ pc[t] = "idle"
    /\ \E v \in Amounts : value' = [value EXCEPT ![t] = v]
    /\ \E nodeAddress \in {"hex", "base58"} :
          Goto(t, IF nodeAddress = "hex" THEN "none" ELSE "lock")
    /\ UNCHANGED <<programVars, tx, faults, drops>>

\* The caller of refund_funds has the handle that lock_funds gave it.
Refund(t) ==
    /\ pc[t] = "receipt"
    /\ Goto(t, "refund")
    /\ UNCHANGED <<programVars, value, tx, faults, drops>>

latest_blockhash(t) ==
    /\ pc[t] \in Steps
    /\ Goto(t, Sending[pc[t]])
    /\ UNCHANGED <<programVars, value, tx, faults, drops>>

\* No receipt without a lock; a release that fails is a warning.
Failed(t) ==
    Goto(t, [lock |-> "none", release |-> "receipt", refund |-> "done"][Step(pc[t])])

Succeeded(t) ==
    Goto(t, [lock |-> "release", release |-> "receipt", refund |-> "done"][Step(pc[t])])

RpcFails(t) ==
    /\ pc[t] \in Working
    /\ Fault
    /\ Failed(t)
    /\ UNCHANGED <<programVars, value, tx, drops>>

\* The transaction of a step succeeds on the chain as it is now.
Succeeds(t, s) ==
    CASE s = "lock"    -> CanLock(Wallet, t, value[t])
      [] s = "release" -> CanRelease(Wallet, t) /\ CanSubmit(Wallet, NodeKey, t)
      [] s = "refund"  -> CanRefund(Wallet, t)

\* Mutated form: skipPreflight.
Simulates_Skipped(t, s) == TRUE

\* The endpoint tries the transaction at the commitment "confirmed".
Simulates(t, s) == Succeeds(t, s)

\* The endpoint takes the transaction; its answer can be lost.
SendAccepted(t) ==
    LET s == Step(pc[t]) IN
    /\ pc[t] \in {Sending[u] : u \in Steps}
    /\ Simulates(t, s)
    /\ tx' = [tx EXCEPT ![t][s] = "sent"]
    /\ \/ Succeeded(t) /\ UNCHANGED faults
       \/ Fault /\ Failed(t)
    /\ UNCHANGED <<programVars, value, drops>>

\* The simulation fails: a release whose lock has not landed yet, a node
\* without a score account, an expired escrow, a wallet that is empty.
SendRefused(t) ==
    /\ pc[t] \in {Sending[u] : u \in Steps}
    /\ ~Simulates(t, Step(pc[t]))
    /\ Failed(t)
    /\ UNCHANGED <<programVars, value, tx, faults, drops>>

Drop(t) ==
    /\ pc[t] \in Working
    /\ drops < MaxDrops
    /\ drops' = drops + 1
    /\ Goto(t, "dropped")
    /\ UNCHANGED <<programVars, value, tx, faults>>

-----------------------------------------------------------------------------
(* The chain.                                                              *)

\* Mutated form: two transactions instead of two instructions of one.
ReleaseAndProve_Separate(t) ==
    /\ release_escrow(Wallet, t, t)
    /\ \/ \E latency \in Latencies : submit_proof(Wallet, NodeKey, t, latency, value[t])
       \/ UNCHANGED score

\* "One atomic transaction: release escrow AND record the proof".
ReleaseAndProve(t) ==
    /\ release_escrow(Wallet, t, t)
    /\ \E latency \in Latencies : submit_proof(Wallet, NodeKey, t, latency, value[t])

\* A transaction that was sent is executed if it still can be,
Land(t, s) ==
    /\ tx[t][s] = "sent"
    /\ tx' = [tx EXCEPT ![t][s] = IF Succeeds(t, s) THEN "landed" ELSE "failed"]
    /\ \/ /\ ~Succeeds(t, s)
          /\ UNCHANGED <<escrow, score, state, lamports>>
       \/ /\ s = "lock"
          /\ lock_escrow(Wallet, t, Wallet, value[t], 0)
          /\ UNCHANGED <<score, state>>
       \/ /\ s = "release"
          /\ ReleaseAndProve(t)
       \/ /\ s = "refund"
          /\ refund_escrow(Wallet, t)
          /\ UNCHANGED <<score, state>>
    /\ UNCHANGED <<registration, clock, pc, value, faults, drops>>

\* or is not included before its blockhash expires.
Expire(t, s) ==
    /\ tx[t][s] = "sent"
    /\ Fault
    /\ tx' = [tx EXCEPT ![t][s] = "lost"]
    /\ UNCHANGED <<programVars, pc, value, drops>>

\* The adapter's anchor_hash, which nothing awaits a step of.
Anchor ==
    /\ \E root \in Roots : anchor_merkle_root(Wallet, NodeKey, root)
    /\ UNCHANGED <<escrow, registration, state, lamports, clock, adapterVars>>

\* The deployer sets the node's accounts up, some time.
SetUp ==
    /\ \/ /\ initialize_score(Wallet, NodeKey)
          /\ UNCHANGED <<registration, state>>
       \/ /\ register_node(Wallet, NodeKey)
          /\ UNCHANGED score
       \/ /\ \E active \in BOOLEAN : update_node(Wallet, NodeKey, active)
          /\ UNCHANGED <<score, state>>
    /\ UNCHANGED <<escrow, lamports, clock, adapterVars>>

\* A client uses the program with request ids of its own, for this node or for
\* one it runs itself.
ClientTransaction ==
    /\ \E r \in Requests \ Tasks :
          \/ \E node \in {Wallet, Client}, amount \in Amounts, timeout \in Timeouts :
                lock_escrow(Client, r, node, amount, timeout) /\ UNCHANGED state
          \/ release_escrow(Client, r, r)
          \/ refund_escrow(Client, r) /\ UNCHANGED state
    /\ UNCHANGED <<score, registration, clock, adapterVars>>

Tick == AdvanceClock /\ UNCHANGED adapterVars

Work(t) == latest_blockhash(t) \/ SendAccepted(t) \/ SendRefused(t)

Next ==
    \/ \E t \in Tasks : Settle(t) \/ Refund(t) \/ Work(t) \/ RpcFails(t) \/ Drop(t)
    \/ \E t \in Tasks, s \in Steps : Land(t, s) \/ Expire(t, s)
    \/ Anchor \/ SetUp \/ ClientTransaction \/ Tick

Spec == Init /\ [][Next]_vars

-----------------------------------------------------------------------------
(* Properties.                                                             *)

\* Every variable has its type.
TypeOK ==
    /\ ProgramTypeOK
    /\ pc \in [Tasks -> {"idle"} \union Working \union Ended]
    /\ value \in [Tasks -> Amounts \union {0}]
    /\ tx \in [Tasks -> [Steps -> {"unsent", "sent", "landed", "failed", "lost"}]]
    /\ faults \in 0..MaxFaults
    /\ drops \in 0..MaxDrops

EscrowsAreFunded ==
    \A r \in Requests : lamports[r] = Held(r)

\* Each escrow account holds the amount of its escrow while it is locked and
\* nothing after, and lamports are neither made nor lost.
Solvent ==
    /\ EscrowsAreFunded
    /\ SumOver(lamports, Wallets \union Requests) = Funds * Cardinality(Wallets)

Released(node) == {r \in Requests : InState(r, "Released") /\ escrow[r].node = node}
AllReleased == UNION {Released(w) : w \in Wallets}
Earned == [r \in Requests |-> ToNode(r)]

\* "One atomic transaction: release escrow AND record the proof": the node's
\* score counts the jobs it was paid for and what they paid, and the program's
\* statistics count everyone's, though any of the transactions may be refused,
\* fail on the chain, be lost, or have its answer lost.
LeaderboardIsEarned ==
    /\ score[NodeKey] = Nil => Released(Wallet) = {}
    /\ score[NodeKey] # Nil =>
          /\ score[NodeKey].jobs = Cardinality(Released(Wallet))
          /\ score[NodeKey].earned = SumOver(Earned, Released(Wallet))
    /\ state.jobs = Cardinality(AllReleased) /\ state.volume = SumOver(Earned, AllReleased)

\* What the endpoint took fails on the chain for one reason only: a release, when
\* the escrow expired in between.  (A lock can find the wallet emptied by another
\* settlement; nobody but the wallet can take its refund.)
ReleaseFailsOnlyLate ==
    \A t \in Tasks :
        /\ tx[t]["release"] = "failed" => escrow[t] # Nil /\ clock > escrow[t].expires
        /\ tx[t]["refund"] # "failed"
=============================================================================
