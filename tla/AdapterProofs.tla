---------------------------- MODULE AdapterProofs ----------------------------
(***************************************************************************)
(* Solana: the Anchor program implements Escrow, whoever sends which       *)
(* transactions to it; each escrow account holds what is locked in it and  *)
(* lamports are neither made nor lost; what the endpoint took fails on the *)
(* chain only when it comes too late; and the leaderboard is earned.       *)
(* Receipts: what is signed and answered is what was settled.              *)
(* Sui: the escrows are what their handles say, and no coin is spent twice.*)
(***************************************************************************)
EXTENDS SolanaSettlement, SuiSettlement, Receipts, SumTheorems

-----------------------------------------------------------------------------
(* The steps of a call.                                                    *)

LEMMA StepOfPlace ==
    /\ Step("lock") = "lock" /\ Step("lockSend") = "lock"
    /\ Step("release") = "release" /\ Step("releaseSend") = "release"
    /\ Step("refund") = "refund" /\ Step("refundSend") = "refund"
  BY DEF Step, Steps, Sending

LEMMA Places ==
    /\ Working = {"lock", "release", "refund", "lockSend", "releaseSend", "refundSend"}
    /\ {Sending[u] : u \in Steps} = {"lockSend", "releaseSend", "refundSend"}
    /\ \A p \in Working : Step(p) \in Steps
    /\ \A s \in Steps : Step(Sending[s]) = s
<1>1. /\ Sending["lock"] = "lockSend" /\ Sending["release"] = "releaseSend"
      /\ Sending["refund"] = "refundSend"
  BY DEF Sending
<1>2. {Sending[u] : u \in Steps} = {"lockSend", "releaseSend", "refundSend"}
  BY <1>1 DEF Steps
<1>3. Working = {"lock", "release", "refund", "lockSend", "releaseSend", "refundSend"}
  BY <1>2 DEF Working, Steps
<1>4. \A s \in Steps : Step(Sending[s]) = s
  BY <1>1, StepOfPlace DEF Steps
<1>5. \A p \in Working : Step(p) \in Steps
  BY <1>3, StepOfPlace DEF Steps
<1>. QED  BY <1>2, <1>3, <1>4, <1>5

-----------------------------------------------------------------------------
(* The instructions of the program.                                        *)

EscrowTypes == escrow \in [Requests -> EscrowAccount \union {Nil}]

FundTypes == lamports \in [Wallets \union Requests -> Nat]

\* Every escrow account holds what is locked in it.
EscrowInv == EscrowTypes /\ FundTypes /\ clock \in 0..MaxTime /\ EscrowsAreFunded

\* Nothing of the escrows moves.
LEMMA EscrowsKept ==
    ASSUME EscrowInv, UNCHANGED <<escrow, lamports, clock>>
    PROVE  EscrowInv' /\ UNCHANGED E!escrowVars
<1>1. UNCHANGED E!escrowVars
  BY DEF E!escrowVars, Held, ToNode, ToClient, Phase, Locked, InState
<1>. QED  BY <1>1 DEF EscrowInv, EscrowTypes, FundTypes, EscrowsAreFunded, Held, Locked

LEMMA OthersKept ==
    ASSUME NEW q \in Requests, escrow'[q] = escrow[q]
    PROVE  /\ Held(q)' = Held(q) /\ Phase(q)' = Phase(q)
           /\ ToNode(q)' = ToNode(q) /\ ToClient(q)' = ToClient(q)
  BY DEF Held, Phase, ToNode, ToClient, Locked, InState

\* lock_escrow puts the amount aside, once for each request.
LEMMA LockOpens ==
    ASSUME EscrowInv, UNCHANGED clock,
           NEW client \in Wallets, NEW r \in Requests, NEW node \in Wallets, NEW amount \in Amounts,
           NEW timeout \in Int, lock_escrow(client, r, node, amount, timeout)
    PROVE  /\ EscrowInv' /\ E!Open(r, amount)
           /\ escrow[r] = Nil /\ escrow'[r] # Nil /\ \A q \in Requests \ {r} : escrow'[q] = escrow[q]
<1>. DEFINE new == [client |-> client, node |-> node, amount |-> amount, state |-> "Locked",
                    expires |-> clock + (IF timeout > 0 THEN timeout ELSE DefaultTimeout), proof |-> Nil]
<1>1. /\ escrow[r] = Nil /\ lamports[client] >= amount /\ escrow' = [escrow EXCEPT ![r] = new]
      /\ lamports' = [lamports EXCEPT ![client] = @ - amount, ![r] = @ + amount]
  BY DEF lock_escrow, CanLock, Transfer
<1>2. new \in EscrowAccount /\ new # Nil /\ new.state = "Locked" /\ new.amount = amount
  <2>1. new.expires \in Nat
    BY ProgramAssumption DEF EscrowInv
  <2>2. new \in EscrowAccount
    BY <2>1 DEF EscrowAccount
  <2>. QED  BY <2>2, NilAssumption
<1>. HIDE DEF new
<1>3. escrow'[r] = new /\ \A q \in Requests \ {r} : escrow'[q] = escrow[q]
  BY <1>1 DEF EscrowInv, EscrowTypes
<1>4. EscrowTypes'
  BY <1>1, <1>2 DEF EscrowInv, EscrowTypes
<1>5. amount \in Nat /\ client # r /\ client \notin Requests
  BY ProgramAssumption
<1>6. /\ lamports' \in [Wallets \union Requests -> Nat] /\ lamports'[r] = lamports[r] + amount
      /\ \A q \in Requests \ {r} : lamports'[q] = lamports[q]
  BY <1>1, <1>5 DEF EscrowInv, FundTypes
<1>7. EscrowsAreFunded'
  <2>1. ~Locked(r) /\ lamports[r] = 0
    BY <1>1 DEF EscrowInv, EscrowsAreFunded, Held, Locked
  <2>2. Locked(r)' /\ lamports'[r] = amount /\ escrow'[r].amount = amount
    BY <1>2, <1>3, <1>5, <1>6, <2>1 DEF Locked
  <2>3. \A q \in Requests \ {r} : lamports'[q] = Held(q)'
    BY <1>3, <1>6 DEF EscrowInv, EscrowsAreFunded, Held, Locked
  <2>. QED  BY <2>2, <2>3 DEF EscrowsAreFunded, Held
<1>8. E!Open(r, amount)
  <2>1. /\ Phase(r) = "none" /\ Phase(r)' = "held" /\ Held(r)' = amount
        /\ ToNode(r)' = ToNode(r) /\ ToClient(r)' = ToClient(r)
    BY <1>1, <1>2, <1>3 DEF Phase, Held, ToNode, ToClient, Locked, InState
  <2>2. \A q \in Requests \ {r} : /\ Held(q)' = Held(q) /\ Phase(q)' = Phase(q)
                                  /\ ToNode(q)' = ToNode(q) /\ ToClient(q)' = ToClient(q)
    BY <1>3, OthersKept
  <2>. QED  BY <2>1, <2>2 DEF E!Open
<1>. QED  BY <1>1, <1>2, <1>3, <1>4, <1>6, <1>7, <1>8 DEF EscrowInv, FundTypes

\* A payout gives all that is held to one of the two.
LEMMA PayoutSettles ==
    ASSUME EscrowInv, UNCHANGED clock, NEW r \in Requests, NEW signer \in Wallets, Locked(r),
           NEW new \in EscrowAccount, new.state \in {"Released", "Refunded"}, new.amount = escrow[r].amount,
           NEW share, share = IF new.state = "Released" THEN escrow[r].amount ELSE 0,
           escrow' = [escrow EXCEPT ![r] = new], Transfer(r, signer, escrow[r].amount)
    PROVE  /\ EscrowInv'
           /\ E!Settle(r, share)
           /\ escrow[r].amount \in Nat
<1>. DEFINE amount == escrow[r].amount
<1>1. escrow[r] \in EscrowAccount /\ escrow[r] # Nil /\ new # Nil /\ amount \in Nat
  BY ProgramAssumption, NilAssumption DEF Locked, EscrowInv, EscrowTypes, EscrowAccount
<1>2. lamports[r] = amount
  BY DEF EscrowInv, EscrowsAreFunded, Held
<1>. HIDE DEF amount
<1>3. lamports' = [lamports EXCEPT ![r] = @ - amount, ![signer] = @ + amount]
  BY DEF Transfer, amount
<1>4. signer # r /\ signer \notin Requests
  BY ProgramAssumption
<1>5. /\ lamports' \in [Wallets \union Requests -> Nat] /\ lamports'[r] = 0
      /\ \A q \in Requests \ {r} : lamports'[q] = lamports[q]
  BY <1>1, <1>2, <1>3, <1>4 DEF EscrowInv, FundTypes
<1>6. escrow'[r] = new /\ \A q \in Requests \ {r} : escrow'[q] = escrow[q]
  BY DEF EscrowInv, EscrowTypes
<1>7. EscrowTypes'
  BY DEF EscrowInv, EscrowTypes
<1>8. EscrowsAreFunded'
  <2>1. ~Locked(r)' /\ lamports'[r] = 0
    BY <1>5, <1>6 DEF Locked
  <2>2. \A q \in Requests \ {r} : lamports'[q] = Held(q)'
    BY <1>5, <1>6 DEF EscrowInv, EscrowsAreFunded, Held, Locked
  <2>. QED  BY <2>1, <2>2 DEF EscrowsAreFunded, Held
<1>9. E!Settle(r, share)
  <2>1. share \in 0..Held(r) /\ Held(r) = amount
    BY <1>1 DEF Held, amount
  <2>2. /\ Phase(r) = "held" /\ Phase(r)' = "paid" /\ Held(r)' = 0
        /\ ToNode(r)' = share /\ ToClient(r)' = amount - share
    BY <1>1, <1>6 DEF Phase, Held, ToNode, ToClient, Locked, InState, amount
  <2>3. \A q \in Requests \ {r} : /\ Held(q)' = Held(q) /\ Phase(q)' = Phase(q)
                                  /\ ToNode(q)' = ToNode(q) /\ ToClient(q)' = ToClient(q)
    BY <1>6, OthersKept
  <2>. QED  BY <2>1, <2>2, <2>3 DEF E!Settle
<1>. QED  BY <1>1, <1>5, <1>7, <1>8, <1>9 DEF EscrowInv, FundTypes, amount

LEMMA ReleaseEndsEscrow ==
    ASSUME EscrowInv, UNCHANGED clock, NEW r \in Requests, NEW signer \in Wallets, NEW proof \in Requests,
           release_escrow(signer, r, proof)
    PROVE  /\ EscrowInv' /\ E!Settle(r, escrow[r].amount) /\ escrow[r].amount \in Nat
           /\ Locked(r) /\ clock <= escrow[r].expires
           /\ \A q \in Requests \ {r} : escrow'[q] = escrow[q]
           /\ escrow'[r] # Nil /\ escrow'[r].expires = escrow[r].expires
<1>. DEFINE new == [escrow[r] EXCEPT !.state = "Released", !.proof = proof]
<1>1. /\ Locked(r) /\ clock <= escrow[r].expires
      /\ escrow' = [escrow EXCEPT ![r] = new] /\ Transfer(r, signer, escrow[r].amount)
  BY DEF release_escrow, CanRelease
<1>2. escrow[r] \in EscrowAccount
  BY <1>1 DEF Locked, EscrowInv, EscrowTypes
<1>3. /\ new \in EscrowAccount /\ new # Nil /\ new.state = "Released"
      /\ new.amount = escrow[r].amount /\ new.expires = escrow[r].expires
  BY <1>2, NilAssumption DEF EscrowAccount
<1>. HIDE DEF new
<1>4. EscrowInv' /\ E!Settle(r, escrow[r].amount) /\ escrow[r].amount \in Nat
  BY <1>1, <1>3, PayoutSettles
<1>5. escrow'[r] = new /\ \A q \in Requests \ {r} : escrow'[q] = escrow[q]
  BY <1>1 DEF EscrowInv, EscrowTypes
<1>. QED  BY <1>1, <1>3, <1>4, <1>5

LEMMA RefundEndsEscrow ==
    ASSUME EscrowInv, UNCHANGED clock, NEW r \in Requests, NEW signer \in Wallets, refund_escrow(signer, r)
    PROVE  /\ EscrowInv' /\ E!Settle(r, 0) /\ escrow[r].amount \in Nat
           /\ Locked(r) /\ clock > escrow[r].expires
           /\ \A q \in Requests \ {r} : escrow'[q] = escrow[q]
           /\ escrow'[r] # Nil /\ escrow'[r].expires = escrow[r].expires /\ escrow'[r].node = escrow[r].node
<1>. DEFINE new == [escrow[r] EXCEPT !.state = "Refunded"]
<1>1. /\ Locked(r) /\ clock > escrow[r].expires
      /\ escrow' = [escrow EXCEPT ![r] = new] /\ Transfer(r, signer, escrow[r].amount)
  BY DEF refund_escrow, CanRefund
<1>2. escrow[r] \in EscrowAccount
  BY <1>1 DEF Locked, EscrowInv, EscrowTypes
<1>3. /\ new \in EscrowAccount /\ new # Nil /\ new.state = "Refunded"
      /\ new.amount = escrow[r].amount /\ new.expires = escrow[r].expires /\ new.node = escrow[r].node
  BY <1>2, NilAssumption DEF EscrowAccount
<1>. HIDE DEF new
<1>4. EscrowInv' /\ E!Settle(r, 0) /\ escrow[r].amount \in Nat
  BY <1>1, <1>3, PayoutSettles
<1>5. escrow'[r] = new /\ \A q \in Requests \ {r} : escrow'[q] = escrow[q]
  BY <1>1 DEF EscrowInv, EscrowTypes
<1>. QED  BY <1>1, <1>3, <1>4, <1>5

-----------------------------------------------------------------------------
(* The adapter and the cluster.                                            *)

TxStates == {"unsent", "sent", "landed", "failed", "lost"}

\* A transaction is of a settlement that has begun, and has an amount.
CallInv ==
    /\ pc \in [Tasks -> {"idle"} \union Working \union Ended]
    /\ value \in [Tasks -> Amounts \union {0}]
    /\ tx \in [Tasks -> [Steps -> TxStates]]
    /\ \A t \in Tasks : pc[t] # "idle" => value[t] \in Amounts
    /\ \A t \in Tasks : tx[t]["lock"] = "sent" => value[t] \in Amounts /\ pc[t] # "idle"

FundedInv == EscrowInv /\ CallInv

LEMMA FundedInit == Init => FundedInv /\ E!Init
<1>. SUFFICES ASSUME Init PROVE FundedInv /\ E!Init
  OBVIOUS
<1>1. EscrowInv
  BY ProgramAssumption
  DEF Init, ProgramInit, EscrowInv, EscrowTypes, FundTypes, EscrowsAreFunded, Held, Locked
<1>2. CallInv
  <2>1. /\ pc = [t \in Tasks |-> "idle"] /\ value = [t \in Tasks |-> 0]
        /\ tx = [t \in Tasks |-> [s \in Steps |-> "unsent"]]
    BY DEF Init
  <2>2. tx \in [Tasks -> [Steps -> TxStates]]
    BY <2>1 DEF TxStates
  <2>3. \A t \in Tasks : tx[t]["lock"] = "unsent"
    BY <2>1 DEF Steps
  <2>. QED  BY <2>1, <2>2, <2>3 DEF CallInv
<1>3. E!Init
  BY DEF Init, ProgramInit, E!Init, Held, ToNode, ToClient, Phase, Locked, InState
<1>. QED  BY <1>1, <1>2, <1>3 DEF FundedInv

\* A call goes on: no step leads back to where it began.
LEMMA CallGoes ==
    ASSUME CallInv, NEW t \in Tasks, pc[t] # "idle", NEW p \in Working \union Ended, Goto(t, p), UNCHANGED value,
           tx' = tx \/ \E s \in Steps, x \in TxStates : tx' = [tx EXCEPT ![t][s] = x]
    PROVE  CallInv'
<1>1. p # "idle"
  BY Places DEF Ended
<1>2. pc' = [pc EXCEPT ![t] = p] /\ tx' \in [Tasks -> [Steps -> TxStates]]
  <2>1. tx' = tx => tx' \in [Tasks -> [Steps -> TxStates]]
    BY DEF CallInv
  <2>2. ASSUME NEW s \in Steps, NEW x \in TxStates, tx' = [tx EXCEPT ![t][s] = x]
        PROVE  tx' \in [Tasks -> [Steps -> TxStates]]
    BY <2>2 DEF CallInv
  <2>. QED  BY <2>1, <2>2 DEF Goto
<1>3. \A u \in Tasks : pc'[u] # "idle" => value[u] \in Amounts
  BY <1>1, <1>2 DEF CallInv
<1>4. \A u \in Tasks : u # t => tx'[u] = tx[u] /\ pc'[u] = pc[u]
  BY <1>2 DEF CallInv
<1>5. pc'[t] # "idle"
  BY <1>1, <1>2 DEF CallInv
<1>. QED  BY <1>2, <1>3, <1>4, <1>5 DEF CallInv

LEMMA Answers ==
    ASSUME NEW t \in Tasks, pc[t] \in Working, Succeeded(t) \/ Failed(t)
    PROVE  \E p \in Working \union Ended : Goto(t, p)
<1>1. Step(pc[t]) \in Steps
  BY Places
<1>2. /\ [lock |-> "none", release |-> "receipt", refund |-> "done"][Step(pc[t])] \in Working \union Ended
      /\ [lock |-> "release", release |-> "receipt", refund |-> "done"][Step(pc[t])] \in Working \union Ended
  BY <1>1, Places DEF Steps, Ended
<1>. QED  BY <1>2 DEF Succeeded, Failed

LEMMA CallStep ==
    ASSUME CallInv, [Next]_vars
    PROVE  CallInv'
<1>1. CASE UNCHANGED <<pc, value, tx>>
  BY <1>1 DEF CallInv
<1>2. ASSUME NEW t \in Tasks, Settle(t)
      PROVE  CallInv'
  <2>1. PICK p \in {"none", "lock"}, v \in Amounts :
          /\ pc' = [pc EXCEPT ![t] = p] /\ value' = [value EXCEPT ![t] = v] /\ UNCHANGED tx
          /\ pc[t] = "idle"
    BY <1>2 DEF Settle, Goto
  <2>2. p \in Working \union Ended
    BY Places DEF Ended
  <2>. QED  BY <2>1, <2>2 DEF CallInv
<1>3. ASSUME NEW t \in Tasks, Refund(t)
      PROVE  CallInv'
  <2>1. "refund" \in Working \union Ended
    BY Places
  <2>. QED  BY <1>3, <2>1, CallGoes DEF Refund
<1>4. ASSUME NEW t \in Tasks, latest_blockhash(t)
      PROVE  CallInv'
  <2>1. pc[t] \in Steps /\ Goto(t, Sending[pc[t]]) /\ UNCHANGED <<value, tx>>
    BY <1>4 DEF latest_blockhash
  <2>2. Sending[pc[t]] \in Working /\ pc[t] # "idle"
    BY <2>1 DEF Working, Steps
  <2>. QED  BY <2>1, <2>2, CallGoes
<1>5. ASSUME NEW t \in Tasks, SendAccepted(t) \/ SendRefused(t) \/ RpcFails(t) \/ Drop(t)
      PROVE  CallInv'
  <2>1. pc[t] \in Working /\ pc[t] # "idle" /\ UNCHANGED value
    BY <1>5, Places DEF SendAccepted, SendRefused, RpcFails, Drop, Working
  <2>2. \E p \in Working \union Ended : Goto(t, p)
    BY <1>5, <2>1, Answers DEF SendAccepted, SendRefused, RpcFails, Drop, Ended
  <2>3. tx' = tx \/ \E s \in Steps, x \in TxStates : tx' = [tx EXCEPT ![t][s] = x]
    <3>1. Step(pc[t]) \in Steps
      BY <2>1, Places
    <3>. QED  BY <1>5, <3>1 DEF SendAccepted, SendRefused, RpcFails, Drop, TxStates
  <2>. QED  BY <2>1, <2>2, <2>3, CallGoes
<1>6. ASSUME NEW t \in Tasks, NEW s \in Steps, Land(t, s) \/ Expire(t, s)
      PROVE  CallInv'
  <2>1. PICK x \in {"landed", "failed", "lost"} : tx' = [tx EXCEPT ![t][s] = x] /\ UNCHANGED <<pc, value>>
    BY <1>6 DEF Land, Expire
  <2>. QED  BY <2>1 DEF CallInv, TxStates
<1>7. CASE Anchor \/ SetUp \/ ClientTransaction \/ Tick \/ UNCHANGED vars
  <2>1. UNCHANGED <<pc, value, tx>>
    BY <1>7 DEF Anchor, SetUp, ClientTransaction, Tick, adapterVars, vars
  <2>. QED  BY <1>1, <2>1
<1>. QED  BY <1>2, <1>3, <1>4, <1>5, <1>6, <1>7 DEF Next, Work

-----------------------------------------------------------------------------
(* Every step opens an escrow, settles one, or leaves them all as they are.*)

LEMMA OpenIsNext ==
    ASSUME NEW r \in Requests, NEW amount \in Amounts, E!Open(r, amount)
    PROVE  E!Next
  BY DEF E!Next

LEMMA SettleIsNext ==
    ASSUME NEW r \in Requests, NEW share, E!Settle(r, share)
    PROVE  E!Next
<1>1. share \in 0..[q \in Requests |-> Held(q)][r]
  BY DEF E!Settle
<1>. QED  BY <1>1 DEF E!Next

LEMMA LandSteps ==
    ASSUME EscrowInv, CallInv, NEW t \in Tasks, NEW s \in Steps, Land(t, s)
    PROVE  EscrowInv' /\ (E!Next \/ UNCHANGED E!escrowVars)
<1>1. t \in Requests /\ Wallet \in Wallets /\ 0 \in Int /\ UNCHANGED clock
  BY AdapterAssumption DEF Land
<1>2. CASE UNCHANGED <<escrow, lamports>>
  BY <1>1, <1>2, EscrowsKept
<1>3. CASE s = "lock" /\ lock_escrow(Wallet, t, Wallet, value[t], 0)
  <2>1. value[t] \in Amounts
    BY <1>3 DEF Land, CallInv
  <2>2. EscrowInv' /\ E!Open(t, value[t])
    BY <1>1, <1>3, <2>1, LockOpens
  <2>. QED  BY <1>1, <2>1, <2>2, OpenIsNext
<1>4. CASE release_escrow(Wallet, t, t)
  <2>1. EscrowInv' /\ E!Settle(t, escrow[t].amount)
    BY <1>1, <1>4, ReleaseEndsEscrow
  <2>. QED  BY <1>1, <2>1, SettleIsNext
<1>5. CASE refund_escrow(Wallet, t)
  <2>1. EscrowInv' /\ E!Settle(t, 0)
    BY <1>1, <1>5, RefundEndsEscrow
  <2>. QED  BY <1>1, <2>1, SettleIsNext
<1>. QED  BY <1>2, <1>3, <1>4, <1>5 DEF Land, ReleaseAndProve

LEMMA ClientSteps ==
    ASSUME EscrowInv, ClientTransaction
    PROVE  /\ EscrowInv' /\ (E!Next \/ UNCHANGED E!escrowVars)
           /\ \A t \in Tasks : escrow'[t] = escrow[t]
<1>1. PICK r \in Requests \ Tasks :
          \/ \E node \in {Wallet, Client}, amount \in Amounts, timeout \in Timeouts :
                lock_escrow(Client, r, node, amount, timeout)
          \/ release_escrow(Client, r, r)
          \/ refund_escrow(Client, r)
  BY DEF ClientTransaction
<1>2. /\ Client \in Wallets /\ {Wallet, Client} \subseteq Wallets /\ Timeouts \subseteq Int
      /\ UNCHANGED clock /\ \A t \in Tasks : t \in Requests \ {r}
  BY AdapterAssumption, ProgramAssumption DEF ClientTransaction
<1>3. ASSUME NEW node \in {Wallet, Client}, NEW amount \in Amounts, NEW timeout \in Timeouts,
             lock_escrow(Client, r, node, amount, timeout)
      PROVE  EscrowInv' /\ E!Next /\ \A q \in Requests \ {r} : escrow'[q] = escrow[q]
  <2>1. node \in Wallets /\ timeout \in Int
    BY <1>2
  <2>2. EscrowInv' /\ E!Open(r, amount) /\ \A q \in Requests \ {r} : escrow'[q] = escrow[q]
    BY <1>2, <1>3, <2>1, LockOpens
  <2>. QED  BY <2>2, OpenIsNext
<1>4. ASSUME release_escrow(Client, r, r)
      PROVE  EscrowInv' /\ E!Next /\ \A q \in Requests \ {r} : escrow'[q] = escrow[q]
  <2>1. EscrowInv' /\ E!Settle(r, escrow[r].amount) /\ \A q \in Requests \ {r} : escrow'[q] = escrow[q]
    BY <1>2, <1>4, ReleaseEndsEscrow
  <2>. QED  BY <2>1, SettleIsNext
<1>5. ASSUME refund_escrow(Client, r)
      PROVE  EscrowInv' /\ E!Next /\ \A q \in Requests \ {r} : escrow'[q] = escrow[q]
  <2>1. EscrowInv' /\ E!Settle(r, 0) /\ \A q \in Requests \ {r} : escrow'[q] = escrow[q]
    BY <1>2, <1>5, RefundEndsEscrow
  <2>. QED  BY <2>1, SettleIsNext
<1>. QED  BY <1>1, <1>2, <1>3, <1>4, <1>5

LEMMA TickKeeps ==
    ASSUME EscrowInv, Tick
    PROVE  EscrowInv' /\ UNCHANGED E!escrowVars
<1>1. UNCHANGED <<escrow, lamports>> /\ clock' = clock + 1 /\ clock < MaxTime
  BY DEF Tick, AdvanceClock
<1>2. UNCHANGED E!escrowVars
  BY <1>1 DEF E!escrowVars, Held, ToNode, ToClient, Phase, Locked, InState
<1>3. clock' \in 0..MaxTime
  BY <1>1, ProgramAssumption DEF EscrowInv
<1>. QED  BY <1>1, <1>2, <1>3 DEF EscrowInv, EscrowTypes, FundTypes, EscrowsAreFunded, Held, Locked

\* Every other step leaves the escrows and the lamports alone.
LEMMA OthersKeep ==
    ASSUME NEW t \in Tasks, NEW s \in Steps,
           \/ Settle(t) \/ Refund(t) \/ Work(t) \/ RpcFails(t) \/ Drop(t)
           \/ Expire(t, s) \/ Anchor \/ SetUp \/ UNCHANGED vars
    PROVE  UNCHANGED <<escrow, lamports, clock>>
<1>1. Settle(t) \/ Refund(t) \/ Work(t) \/ RpcFails(t) \/ Drop(t) \/ Expire(t, s)
      => UNCHANGED programVars
  BY DEF Settle, Refund, Work, latest_blockhash, SendAccepted, SendRefused, RpcFails, Drop, Expire
<1>2. Anchor \/ SetUp => UNCHANGED <<escrow, lamports, clock>>
  BY DEF Anchor, SetUp
<1>. QED  BY <1>1, <1>2 DEF programVars, vars

LEMMA FundedStep ==
    ASSUME FundedInv, [Next]_vars
    PROVE  FundedInv' /\ [E!Next]_(E!escrowVars)
<1>1. CallInv'
  BY CallStep DEF FundedInv
<1>2. CASE UNCHANGED <<escrow, lamports, clock>>
  BY <1>1, <1>2, EscrowsKept DEF FundedInv
<1>3. ASSUME NEW t \in Tasks, NEW s \in Steps, Land(t, s)
      PROVE  FundedInv' /\ [E!Next]_(E!escrowVars)
  BY <1>1, <1>3, LandSteps DEF FundedInv
<1>4. CASE ClientTransaction
  BY <1>1, <1>4, ClientSteps DEF FundedInv
<1>5. CASE Tick
  BY <1>1, <1>5, TickKeeps DEF FundedInv
<1>6. CASE Anchor \/ SetUp \/ UNCHANGED vars
  BY <1>2, <1>6 DEF Anchor, SetUp, vars, programVars
<1>7. ASSUME NEW t \in Tasks, NEW s \in Steps,
             \/ Settle(t) \/ Refund(t) \/ Work(t) \/ RpcFails(t) \/ Drop(t) \/ Expire(t, s)
      PROVE  FundedInv' /\ [E!Next]_(E!escrowVars)
  BY <1>2, <1>7, OthersKeep
<1>8. "lock" \in Steps
  BY DEF Steps
<1>. QED  BY <1>3, <1>4, <1>5, <1>6, <1>7, <1>8 DEF Next

\* Invariant of Spec: the escrows are what is locked in them, and the calls what
\* the adapter's handlers make of them.
LEMMA FundedHolds == Spec => []FundedInv
<1>1. Init => FundedInv
  BY FundedInit
<1>2. FundedInv /\ [Next]_vars => FundedInv'
  BY FundedStep
<1>. QED  BY <1>1, <1>2, PTL DEF Spec

\* Each escrow account holds the amount of its escrow while it is locked, and
\* nothing after (lock_escrow, release_escrow and refund_escrow of the program):
\* the first half of Solvent.
THEOREM EscrowAccountsAreFunded == Spec => []EscrowsAreFunded
<1>1. FundedInv => EscrowsAreFunded
  BY DEF FundedInv, EscrowInv
<1>. QED  BY <1>1, FundedHolds, PTL

\* The program implements Escrow, whoever sends it which transactions, in which
\* order and on whichever side of an expiry they land: an escrow is made once and
\* paid out once, all of it to the node (release_escrow) or all of it back to
\* the client (refund_escrow).
THEOREM ProgramImplementsEscrow == Spec => EscrowSpec
<1>1. Init => E!Init
  BY FundedInit
<1>2. FundedInv /\ [Next]_vars => [E!Next]_(E!escrowVars)
  BY FundedStep
<1>. QED  BY <1>1, <1>2, FundedHolds, PTL DEF Spec, EscrowSpec, E!Spec

-----------------------------------------------------------------------------
(* The accounts of the node, and the program's statistics.                 *)

ScoreTypes == score \in [NodeKeys -> NodeScore \union {Nil}]

RegistryTypes ==
    /\ registration \in [NodeKeys -> [authority : Wallets, active : BOOLEAN] \union {Nil}]
    /\ state \in [nodes : Nat, jobs : Nat, volume : Nat]

LEMMA MinOfTwo == \A a, b \in Nat : Min({a, b}) \in Nat /\ Min({a, b}) <= a /\ Min({a, b}) <= b
<1>. SUFFICES ASSUME NEW a \in Nat, NEW b \in Nat
              PROVE  Min({a, b}) \in Nat /\ Min({a, b}) <= a /\ Min({a, b}) <= b
  OBVIOUS
<1>1. \E x \in {a, b} : \A y \in {a, b} : x <= y
  OBVIOUS
<1>2. Min({a, b}) \in {a, b} /\ \A y \in {a, b} : Min({a, b}) <= y
  BY <1>1 DEF Min
<1>. QED  BY <1>2

LEMMA Weights ==
    ASSUME NEW j \in Int, NEW l \in Int, NEW s \in Int, 0 <= j, j <= 10000, 0 <= l, l <= 5000,
           s = 400000000 + 40000 * j + 40000 * (5000 - l)
    PROVE  s \in 0..MaxScore
<1>. DEFINE top == MaxScore
<1>1. 0 <= s
  BY SMT
<1>2. s <= 1000000000
  BY SMT
<1>3. top = 1000000000 /\ top \in Int
  BY SMT DEF MaxScore
<1>4. s <= top
  BY <1>2, <1>3, SMT
<1>5. top \in Int
  BY <1>3, SMT
<1>. HIDE DEF top
<1>6. s \in 0..top
  BY <1>1, <1>4, <1>5, SMT
<1>. QED  BY <1>6, SMT DEF top

LEMMA NoScore == 0 \in 0..MaxScore
<1>. DEFINE top == MaxScore
<1>1. top \in Nat
  BY SMT DEF MaxScore
<1>. HIDE DEF top
<1>2. 0 \in 0..top
  BY <1>1, SMT
<1>. QED  BY <1>2, SMT DEF top

LEMMA Capped ==
    ASSUME NEW a \in Nat, NEW cap \in Nat
    PROVE  \E m \in Int : m = Min({a, cap}) /\ 0 <= m /\ m <= cap
  BY MinOfTwo

\* The score stays within its scale.
LEMMA ScoreInScale ==
    ASSUME NEW jobs \in Nat, NEW latency \in Nat
    PROVE  recompute_score(jobs, latency) \in 0..MaxScore
<1>1. PICK j \in Int : j = Min({jobs, 10000}) /\ 0 <= j /\ j <= 10000
  <2>. DEFINE cap == 10000
  <2>1. cap \in Nat
    BY SMT
  <2>. HIDE DEF cap
  <2>2. \E m \in Int : m = Min({jobs, cap}) /\ 0 <= m /\ m <= cap
    BY <2>1, Capped
  <2>. QED  BY <2>2, SMT DEF cap
<1>2. PICK l \in Int : l = Min({latency, 5000}) /\ 0 <= l /\ l <= 5000
  <2>. DEFINE cap == 5000
  <2>1. cap \in Nat
    BY SMT
  <2>. HIDE DEF cap
  <2>2. \E m \in Int : m = Min({latency, cap}) /\ 0 <= m /\ m <= cap
    BY <2>1, Capped
  <2>. QED  BY <2>2, SMT DEF cap
<1>3. recompute_score(jobs, latency) = 400000000 + 40000 * j + 40000 * (5000 - l)
  BY <1>1, <1>2, SMT DEF recompute_score
<1>4. recompute_score(jobs, latency) \in Int
  BY <1>3, SMT
<1>. QED  BY <1>1, <1>2, <1>3, <1>4, Weights, SMT

LEMMA ProofIsCounted ==
    ASSUME ScoreTypes, NEW t \in Tasks, NEW latency \in Latencies, NEW earned \in Nat,
           submit_proof(Wallet, NodeKey, t, latency, earned)
    PROVE  ScoreTypes' /\ IsAuthority(Wallet, score[NodeKey])'
<1>. DEFINE old == score[NodeKey]
            mean == (old.latency * 9 + latency) \div 10
            new == [old EXCEPT !.jobs = @ + 1, !.earned = @ + earned, !.latency = mean,
                               !.score = recompute_score(old.jobs + 1, mean)]
<1>1. old # Nil /\ old.authority = Wallet /\ score' = [score EXCEPT ![NodeKey] = new]
  BY DEF submit_proof, CanSubmit, IsAuthority
<1>2. old \in NodeScore /\ NodeKey \in NodeKeys /\ latency \in Nat
  BY <1>1, AdapterAssumption, ProgramAssumption DEF ScoreTypes
<1>3. old.latency \in Nat /\ old.jobs \in Nat /\ old.earned \in Nat
  BY <1>2 DEF NodeScore
<1>. HIDE DEF old
<1>4. mean \in Nat
  BY <1>2, <1>3
<1>. HIDE DEF mean
<1>5. recompute_score(old.jobs + 1, mean) \in 0..MaxScore
  <2>. DEFINE jobs == old.jobs + 1
  <2>1. jobs \in Nat
    BY <1>3
  <2>. HIDE DEF jobs
  <2>2. recompute_score(jobs, mean) \in 0..MaxScore
    BY <1>4, <2>1, ScoreInScale
  <2>. QED  BY <2>2 DEF jobs
<1>6. new \in NodeScore /\ new.authority = Wallet
  <2>. DEFINE jobs == old.jobs + 1
              all == old.earned + earned
              merit == recompute_score(old.jobs + 1, mean)
  <2>1. jobs \in Nat /\ all \in Nat /\ merit \in 0..MaxScore
    BY <1>3, <1>5
  <2>2. new = [old EXCEPT !.jobs = jobs, !.earned = all, !.latency = mean, !.score = merit]
    OBVIOUS
  <2>. HIDE DEF new, jobs, all, merit
  <2>3. new \in NodeScore /\ new.authority = old.authority
    BY <1>2, <1>4, <2>1, <2>2 DEF NodeScore
  <2>. QED  BY <1>1, <2>3
<1>. HIDE DEF new
<1>. QED  BY <1>1, <1>2, <1>6, NilAssumption DEF ScoreTypes, IsAuthority

LEMMA JobIsCounted ==
    ASSUME RegistryTypes, UNCHANGED registration, NEW amount \in Nat,
           state' = [state EXCEPT !.jobs = @ + 1, !.volume = @ + amount]
    PROVE  RegistryTypes'
<1>. DEFINE jobs == state.jobs + 1
            volume == state.volume + amount
<1>1. jobs \in Nat /\ volume \in Nat
  BY DEF RegistryTypes
<1>2. state' = [state EXCEPT !.jobs = jobs, !.volume = volume]
  OBVIOUS
<1>. HIDE DEF jobs, volume
<1>. QED  BY <1>1, <1>2 DEF RegistryTypes

LEMMA AnchorKeeps ==
    ASSUME ScoreTypes, Anchor
    PROVE  ScoreTypes' /\ IsAuthority(Wallet, score[NodeKey])'
<1>1. PICK root \in Roots : /\ score' = [score EXCEPT ![NodeKey].root = root]
                            /\ score[NodeKey] # Nil /\ score[NodeKey].authority = Wallet
  BY DEF Anchor, anchor_merkle_root, IsAuthority
<1>. DEFINE new == [score[NodeKey] EXCEPT !.root = root]
<1>2. NodeKey \in NodeKeys /\ score[NodeKey] \in NodeScore
  BY <1>1, AdapterAssumption DEF ScoreTypes
<1>3. new \in NodeScore /\ new.authority = Wallet
  BY <1>1, <1>2 DEF NodeScore
<1>4. score' = [score EXCEPT ![NodeKey] = new]
  BY <1>1
<1>. HIDE DEF new
<1>. QED  BY <1>2, <1>3, <1>4, NilAssumption DEF ScoreTypes, IsAuthority

LEMMA SetUpKeeps ==
    ASSUME ScoreTypes, RegistryTypes, SetUp
    PROVE  /\ ScoreTypes' /\ RegistryTypes'
           /\ IsAuthority(Wallet, score[NodeKey]) => IsAuthority(Wallet, score[NodeKey])'
<1>1. Wallet \in Wallets /\ NodeKey \in NodeKeys
  BY AdapterAssumption
<1>2. CASE initialize_score(Wallet, NodeKey) /\ UNCHANGED <<registration, state>>
  <2>. DEFINE new == [authority |-> Wallet, root |-> Nil, jobs |-> 0, earned |-> 0,
                      latency |-> 0, score |-> 0]
  <2>1. new \in NodeScore
    BY <1>1, NoScore DEF NodeScore
  <2>2. score[NodeKey] = Nil /\ score' = [score EXCEPT ![NodeKey] = new]
    BY <1>2 DEF initialize_score
  <2>. HIDE DEF new
  <2>. QED  BY <1>1, <1>2, <2>1, <2>2 DEF ScoreTypes, RegistryTypes, IsAuthority
<1>3. CASE register_node(Wallet, NodeKey) /\ UNCHANGED score
  BY <1>1, <1>3 DEF register_node, ScoreTypes, RegistryTypes, IsAuthority
<1>4. ASSUME NEW active \in BOOLEAN, update_node(Wallet, NodeKey, active), UNCHANGED <<score, state>>
      PROVE  ScoreTypes' /\ RegistryTypes' /\ IsAuthority(Wallet, score[NodeKey])' = IsAuthority(Wallet, score[NodeKey])
  <2>1. registration[NodeKey] \in [authority : Wallets, active : BOOLEAN]
    BY <1>1, <1>4 DEF update_node, IsAuthority, RegistryTypes
  <2>2. [registration[NodeKey] EXCEPT !.active = active] \in [authority : Wallets, active : BOOLEAN]
    BY <2>1
  <2>3. RegistryTypes'
    BY <1>1, <1>4, <2>2 DEF update_node, RegistryTypes
  <2>. QED  BY <1>4, <2>3 DEF ScoreTypes, IsAuthority
<1>. QED  BY <1>2, <1>3, <1>4 DEF SetUp

TypeInv ==
    /\ FundedInv /\ ScoreTypes /\ RegistryTypes
    /\ faults \in 0..MaxFaults /\ drops \in 0..MaxDrops

-----------------------------------------------------------------------------
(* What the endpoint took.                                                 *)

\* A release that is sent was one that succeeds, and only its expiry can come in
\* between; a refund that is sent succeeds whenever it lands.
SentInv ==
    \A t \in Tasks :
        /\ tx[t]["release"] = "sent" =>
              /\ escrow[t] # Nil /\ escrow[t].node = Wallet
              /\ IsAuthority(Wallet, score[NodeKey])
              /\ Locked(t) \/ clock > escrow[t].expires
        /\ tx[t]["refund"] = "sent" => CanRefund(Wallet, t)

LateInv == TypeInv /\ SentInv /\ ReleaseFailsOnlyLate
\* A step that moves neither the wallet's escrows nor its authority.
LEMMA SentKept ==
    ASSUME LateInv, EscrowTypes, clock \in Nat, clock' \in Nat, clock <= clock',
           \A t \in Tasks : escrow'[t] = escrow[t] /\ (CanRefund(Wallet, t) => CanRefund(Wallet, t)'),
           IsAuthority(Wallet, score[NodeKey]) => IsAuthority(Wallet, score[NodeKey])',
           UNCHANGED tx
    PROVE  SentInv' /\ ReleaseFailsOnlyLate'
<1>1. \A t \in Tasks : escrow[t] # Nil => escrow[t].expires \in Int
  BY AdapterAssumption DEF EscrowTypes, EscrowAccount
<1>. QED  BY <1>1 DEF LateInv, SentInv, ReleaseFailsOnlyLate, Locked

LEMMA RefundStays ==
    ASSUME EscrowInv, NEW t \in Tasks, escrow'[t] = escrow[t], clock <= clock', clock' \in Nat,
           CanRefund(Wallet, t)
    PROVE  CanRefund(Wallet, t)'
<1>1. escrow[t].expires \in Int
  BY AdapterAssumption DEF CanRefund, Locked, EscrowInv, EscrowTypes, EscrowAccount
<1>. QED  BY <1>1 DEF CanRefund, Locked, EscrowInv

LEMMA SentBegins ==
    ASSUME LateInv, NEW t \in Tasks, SendAccepted(t)
    PROVE  SentInv' /\ ReleaseFailsOnlyLate'
<1>. DEFINE s == Step(pc[t])
<1>1. /\ s \in Steps /\ Succeeds(t, s) /\ tx' = [tx EXCEPT ![t][s] = "sent"]
      /\ UNCHANGED <<escrow, score, clock>>
  BY Places DEF SendAccepted, Simulates, programVars, Working
<1>. HIDE DEF s
<1>2. tx \in [Tasks -> [Steps -> TxStates]]
  BY DEF LateInv, TypeInv, FundedInv, CallInv
<1>3. \A u \in Tasks, c \in Steps :
         \/ tx'[u][c] = tx[u][c]
         \/ tx'[u][c] = "sent" /\ u = t /\ Succeeds(u, c)
  BY <1>1, <1>2
<1>4. "release" \in Steps /\ "refund" \in Steps
  BY DEF Steps
<1>5. /\ Succeeds(t, "release") => CanRelease(Wallet, t) /\ IsAuthority(Wallet, score[NodeKey])
      /\ Succeeds(t, "refund") => CanRefund(Wallet, t)
  BY DEF Succeeds, CanSubmit
<1>6. \A u \in Tasks : Locked(u)' = Locked(u) /\ CanRefund(Wallet, u)' = CanRefund(Wallet, u)
  BY <1>1 DEF Locked, CanRefund
<1>7. SentInv'
  <2>. SUFFICES ASSUME NEW u \in Tasks
                PROVE  /\ tx'[u]["release"] = "sent" =>
                            /\ escrow[u] # Nil /\ escrow[u].node = Wallet
                            /\ IsAuthority(Wallet, score[NodeKey])
                            /\ Locked(u) \/ clock > escrow[u].expires
                       /\ tx'[u]["refund"] = "sent" => CanRefund(Wallet, u)
    BY <1>1, <1>6 DEF SentInv, IsAuthority
  <2>1. CASE u = t
    BY <1>3, <1>4, <1>5, <2>1 DEF LateInv, SentInv, CanRelease, Locked
  <2>2. CASE u # t
    BY <1>3, <1>4, <2>2 DEF LateInv, SentInv
  <2>. QED  BY <2>1, <2>2
<1>8. ReleaseFailsOnlyLate'
  BY <1>1, <1>3, <1>4 DEF LateInv, ReleaseFailsOnlyLate
<1>. QED  BY <1>7, <1>8

LEMMA SentExpires ==
    ASSUME LateInv, NEW t \in Tasks, NEW s \in Steps, Expire(t, s)
    PROVE  SentInv' /\ ReleaseFailsOnlyLate'
<1>1. tx' = [tx EXCEPT ![t][s] = "lost"] /\ UNCHANGED <<escrow, score, clock>>
  BY DEF Expire, programVars
<1>2. \A u \in Tasks, c \in Steps : tx'[u][c] = tx[u][c] \/ tx'[u][c] = "lost"
  <2>1. tx \in [Tasks -> [Steps -> TxStates]]
    BY DEF LateInv, TypeInv, FundedInv, CallInv
  <2>. QED  BY <1>1, <2>1
<1>3. "release" \in Steps /\ "refund" \in Steps
  BY DEF Steps
<1>4. \A u \in Tasks : Locked(u)' = Locked(u) /\ CanRefund(Wallet, u)' = CanRefund(Wallet, u)
  BY <1>1 DEF Locked, CanRefund
<1>. QED  BY <1>1, <1>2, <1>3, <1>4 DEF LateInv, SentInv, ReleaseFailsOnlyLate, IsAuthority

LEMMA SentLands ==
    ASSUME LateInv, NEW t \in Tasks, NEW s \in Steps, Land(t, s),
           IsAuthority(Wallet, score[NodeKey]) => IsAuthority(Wallet, score[NodeKey])'
    PROVE  SentInv' /\ ReleaseFailsOnlyLate'
<1>1. /\ UNCHANGED clock /\ tx[t][s] = "sent"
      /\ tx' = [tx EXCEPT ![t][s] = IF Succeeds(t, s) THEN "landed" ELSE "failed"]
  BY DEF Land
<1>2. /\ tx'[t][s] = IF Succeeds(t, s) THEN "landed" ELSE "failed"
      /\ \A u \in Tasks, c \in Steps : u # t \/ c # s => tx'[u][c] = tx[u][c]
  <2>1. tx \in [Tasks -> [Steps -> TxStates]]
    BY DEF LateInv, TypeInv, FundedInv, CallInv
  <2>. QED  BY <1>1, <2>1
<1>3. EscrowInv /\ t \in Requests /\ Tasks \subseteq Requests /\ Wallet \in Wallets /\ "release" \in Steps /\ "refund" \in Steps
  BY AdapterAssumption DEF LateInv, TypeInv, FundedInv, Steps
<1>. DEFINE Good(u) ==
        /\ tx[u]["release"] = "sent" =>
              /\ escrow[u] # Nil /\ escrow[u].node = Wallet
              /\ IsAuthority(Wallet, score[NodeKey])
              /\ Locked(u) \/ clock > escrow[u].expires
        /\ tx[u]["refund"] = "sent" => CanRefund(Wallet, u)
        /\ tx[u]["release"] = "failed" => escrow[u] # Nil /\ clock > escrow[u].expires
        /\ tx[u]["refund"] # "failed"
<1>4. \A u \in Tasks : Good(u)
  BY DEF LateInv, SentInv, ReleaseFailsOnlyLate
<1>5. SUFFICES \A u \in Tasks : Good(u)'
  BY DEF SentInv, ReleaseFailsOnlyLate
<1>6. ASSUME NEW u \in Tasks, u # t, escrow'[u] = escrow[u]
      PROVE  Good(u)'
  BY <1>1, <1>2, <1>3, <1>4, <1>6 DEF Locked, CanRefund
<1>7. CASE UNCHANGED <<escrow, score>> /\ ~Succeeds(t, s)
  <2>1. s = "release" => clock > escrow[t].expires /\ escrow[t] # Nil
    <3>. SUFFICES ASSUME s = "release" PROVE clock > escrow[t].expires /\ escrow[t] # Nil
      OBVIOUS
    <3>1. CanSubmit(Wallet, NodeKey, t) /\ escrow[t] # Nil /\ escrow[t].node = Wallet
          /\ (Locked(t) \/ clock > escrow[t].expires)
      BY <1>1, <1>3, <1>4, ProgramAssumption DEF CanSubmit
    <3>2. ~CanRelease(Wallet, t)
      BY <1>7, <3>1 DEF Succeeds
    <3>3. escrow[t].expires \in Int /\ clock \in Int
      BY <1>3, <3>1 DEF EscrowInv, EscrowTypes, EscrowAccount
    <3>. QED  BY <3>1, <3>2, <3>3 DEF CanRelease
  <2>2. s # "refund"
    BY <1>1, <1>4, <1>7 DEF Succeeds
  <2>3. Good(t)'
    BY <1>1, <1>2, <1>3, <1>4, <1>7, <2>1, <2>2 DEF Locked, CanRefund
  <2>. QED  BY <1>6, <1>7, <2>3
<1>8. CASE s = "lock" /\ lock_escrow(Wallet, t, Wallet, value[t], 0) /\ UNCHANGED score
  <2>1. value[t] \in Amounts
    BY <1>1, <1>8 DEF LateInv, TypeInv, FundedInv, CallInv
  <2>2. escrow[t] = Nil /\ \A q \in Requests \ {t} : escrow'[q] = escrow[q]
    BY <1>1, <1>3, <1>8, <2>1, LockOpens
  <2>3. tx'[t]["release"] = tx[t]["release"] /\ tx'[t]["refund"] = tx[t]["refund"]
    BY <1>2, <1>3, <1>8
  <2>4. tx[t]["release"] \notin {"sent", "failed"} /\ tx[t]["refund"] \notin {"sent", "failed"}
    BY <1>4, <2>2 DEF CanRefund, Locked
  <2>5. Good(t)'
    BY <2>3, <2>4
  <2>. QED  BY <1>3, <1>6, <2>2, <2>5
<1>9. CASE s = "release" /\ ReleaseAndProve(t)
  <2>1. release_escrow(Wallet, t, t) /\ CanSubmit(Wallet, NodeKey, t)
    BY <1>9 DEF ReleaseAndProve, submit_proof
  <2>2. /\ Locked(t) /\ clock <= escrow[t].expires
        /\ \A q \in Requests \ {t} : escrow'[q] = escrow[q]
    BY <1>1, <1>3, <2>1, ReleaseEndsEscrow
  <2>3. Succeeds(t, s)
    BY <1>9, <2>1 DEF Succeeds, release_escrow
  <2>4. tx'[t]["release"] = "landed" /\ tx'[t]["refund"] = tx[t]["refund"]
    BY <1>2, <1>3, <1>9, <2>3
  <2>5. tx[t]["refund"] # "sent"
    <3>1. escrow[t].expires \in Int /\ clock \in Int
      BY <1>3, <2>2 DEF EscrowInv, EscrowTypes, EscrowAccount, Locked
    <3>. QED  BY <1>4, <2>2, <3>1 DEF CanRefund
  <2>6. Good(t)'
    BY <1>4, <2>4, <2>5
  <2>. QED  BY <1>3, <1>6, <2>2, <2>6
<1>10. CASE s = "refund" /\ refund_escrow(Wallet, t) /\ UNCHANGED score
  <2>1. /\ Locked(t) /\ clock > escrow[t].expires
        /\ \A q \in Requests \ {t} : escrow'[q] = escrow[q]
        /\ escrow'[t] # Nil /\ escrow'[t].expires = escrow[t].expires /\ escrow'[t].node = escrow[t].node
    BY <1>1, <1>3, <1>10, RefundEndsEscrow
  <2>2. Succeeds(t, s)
    BY <1>10 DEF Succeeds, refund_escrow
  <2>3. tx'[t]["refund"] = "landed" /\ tx'[t]["release"] = tx[t]["release"]
    BY <1>2, <1>3, <1>10, <2>2
  <2>4. Good(t)'
    BY <1>1, <1>4, <1>10, <2>1, <2>3
  <2>. QED  BY <1>3, <1>6, <2>1, <2>4
<1>. QED  BY <1>7, <1>8, <1>9, <1>10 DEF Land

-----------------------------------------------------------------------------
(* Every variable has its type, and what was sent succeeds unless it comes *)
(* too late.                                                               *)

LEMMA LateInit == Init => LateInv
<1>. SUFFICES ASSUME Init PROVE LateInv
  OBVIOUS
<1>1. FundedInv
  BY FundedInit
<1>2. ScoreTypes /\ RegistryTypes /\ faults \in 0..MaxFaults /\ drops \in 0..MaxDrops
  BY AdapterAssumption DEF Init, ProgramInit, ScoreTypes, RegistryTypes
<1>3. \A t \in Tasks : tx[t]["release"] = "unsent" /\ tx[t]["refund"] = "unsent"
  BY DEF Init, Steps
<1>. QED  BY <1>1, <1>2, <1>3 DEF LateInv, TypeInv, SentInv, ReleaseFailsOnlyLate

\* The program's statistics, the score and the bounds.
LEMMA TypesStep ==
    ASSUME TypeInv, [Next]_vars
    PROVE  TypeInv' /\ (IsAuthority(Wallet, score[NodeKey]) => IsAuthority(Wallet, score[NodeKey])')
<1>. DEFINE Kept == /\ ScoreTypes' /\ RegistryTypes'
                    /\ faults' \in 0..MaxFaults /\ drops' \in 0..MaxDrops
                    /\ IsAuthority(Wallet, score[NodeKey]) => IsAuthority(Wallet, score[NodeKey])'
<1>. SUFFICES Kept
  BY FundedStep DEF TypeInv
<1>1. /\ EscrowInv /\ CallInv /\ ScoreTypes /\ RegistryTypes
      /\ faults \in 0..MaxFaults /\ drops \in 0..MaxDrops
  BY DEF TypeInv, FundedInv
<1>2. CASE UNCHANGED <<score, registration, state, faults, drops>>
  BY <1>1, <1>2 DEF ScoreTypes, RegistryTypes, IsAuthority
<1>3. Fault => faults' \in 0..MaxFaults
  BY <1>1, AdapterAssumption DEF Fault
<1>4. ASSUME NEW t \in Tasks, Settle(t) \/ Refund(t) \/ Work(t) \/ RpcFails(t) \/ Drop(t)
      PROVE  Kept
  <2>1. UNCHANGED <<score, registration, state>>
    BY <1>4
    DEF Settle, Refund, Work, latest_blockhash, SendAccepted, SendRefused, RpcFails, Drop, programVars
  <2>2. faults' = faults \/ Fault
    BY <1>4 DEF Settle, Refund, Work, latest_blockhash, SendAccepted, SendRefused, RpcFails, Drop
  <2>3. drops' = drops \/ (drops < MaxDrops /\ drops' = drops + 1)
    BY <1>4 DEF Settle, Refund, Work, latest_blockhash, SendAccepted, SendRefused, RpcFails, Drop
  <2>4. drops' \in 0..MaxDrops
    BY <1>1, <2>3, AdapterAssumption
  <2>. QED  BY <1>1, <1>3, <2>1, <2>2, <2>4 DEF ScoreTypes, RegistryTypes, IsAuthority
<1>5. ASSUME NEW t \in Tasks, NEW s \in Steps, Expire(t, s)
      PROVE  Kept
  BY <1>1, <1>3, <1>5 DEF Expire, programVars, ScoreTypes, RegistryTypes, IsAuthority
<1>6. ASSUME NEW t \in Tasks, NEW s \in Steps, Land(t, s)
      PROVE  Kept
  <2>1. UNCHANGED <<registration, clock, faults, drops>>
    BY <1>6 DEF Land
  <2>2. CASE UNCHANGED <<score, state>>
    BY <1>2, <2>1, <2>2
  <2>3. CASE ReleaseAndProve(t)
    <3>1. PICK latency \in Latencies : submit_proof(Wallet, NodeKey, t, latency, value[t])
      BY <2>3 DEF ReleaseAndProve
    <3>2. value[t] \in Nat /\ t \in Requests /\ Wallet \in Wallets
      <4>1. value[t] \in Amounts \union {0}
        BY <1>1 DEF CallInv
      <4>2. Amounts \subseteq Nat /\ 0 \in Nat
        BY ProgramAssumption
      <4>3. t \in Requests /\ Wallet \in Wallets
        BY AdapterAssumption
      <4>. QED  BY <4>1, <4>2, <4>3
    <3>3. ScoreTypes' /\ IsAuthority(Wallet, score[NodeKey])'
      BY <1>1, <3>1, <3>2, ProofIsCounted
    <3>4. escrow[t].amount \in Nat
      BY <1>1, <2>1, <2>3, <3>2, ReleaseEndsEscrow DEF ReleaseAndProve
    <3>5. state' = [state EXCEPT !.jobs = @ + 1, !.volume = @ + escrow[t].amount]
      BY <2>3 DEF ReleaseAndProve, release_escrow
    <3>6. RegistryTypes'
      BY <1>1, <2>1, <3>4, <3>5, JobIsCounted
    <3>. QED  BY <1>1, <2>1, <3>3, <3>6
  <2>. QED  BY <1>6, <2>2, <2>3 DEF Land
<1>7. CASE Anchor
  <2>1. UNCHANGED <<registration, state, faults, drops>>
    BY <1>7 DEF Anchor, adapterVars
  <2>. QED  BY <1>1, <1>7, <2>1, AnchorKeeps DEF RegistryTypes
<1>8. CASE SetUp
  <2>1. UNCHANGED <<faults, drops>>
    BY <1>8 DEF SetUp, adapterVars
  <2>. QED  BY <1>1, <1>8, <2>1, SetUpKeeps
<1>9. CASE ClientTransaction
  <2>1. UNCHANGED <<score, registration, clock, faults, drops>>
    BY <1>9 DEF ClientTransaction, adapterVars
  <2>2. CASE UNCHANGED state
    BY <1>2, <2>1, <2>2
  <2>3. ASSUME NEW r \in Requests, release_escrow(Client, r, r)
        PROVE  Kept
    <3>1. escrow[r].amount \in Nat
      BY <1>1, <2>1, <2>3, AdapterAssumption, ReleaseEndsEscrow
    <3>2. state' = [state EXCEPT !.jobs = @ + 1, !.volume = @ + escrow[r].amount]
      BY <2>3 DEF release_escrow
    <3>3. RegistryTypes'
      BY <1>1, <2>1, <3>1, <3>2, JobIsCounted
    <3>. QED  BY <1>1, <2>1, <3>3 DEF ScoreTypes, IsAuthority
  <2>. QED  BY <1>9, <2>2, <2>3 DEF ClientTransaction
<1>10. CASE Tick \/ UNCHANGED vars
  BY <1>2, <1>10 DEF Tick, AdvanceClock, adapterVars, vars, programVars
<1>. QED  BY <1>4, <1>5, <1>6, <1>7, <1>8, <1>9, <1>10 DEF Next

LEMMA LateStep ==
    ASSUME LateInv, [Next]_vars
    PROVE  LateInv'
<1>1. /\ TypeInv' /\ (IsAuthority(Wallet, score[NodeKey]) => IsAuthority(Wallet, score[NodeKey])')
      /\ EscrowInv /\ EscrowInv' /\ EscrowTypes /\ clock \in Nat /\ clock' \in Nat
  BY TypesStep DEF LateInv, TypeInv, FundedInv, EscrowInv
<1>. SUFFICES SentInv' /\ ReleaseFailsOnlyLate'
  BY <1>1 DEF LateInv
<1>2. ASSUME UNCHANGED tx, \A t \in Tasks : escrow'[t] = escrow[t], clock <= clock'
      PROVE  SentInv' /\ ReleaseFailsOnlyLate'
  <2>1. \A t \in Tasks : CanRefund(Wallet, t) => CanRefund(Wallet, t)'
    BY <1>1, <1>2, RefundStays
  <2>. QED  BY <1>1, <1>2, <2>1, SentKept
<1>3. ASSUME NEW t \in Tasks, NEW s \in Steps, Land(t, s) \/ Expire(t, s)
      PROVE  SentInv' /\ ReleaseFailsOnlyLate'
  BY <1>1, <1>3, SentLands, SentExpires
<1>4. ASSUME NEW t \in Tasks, SendAccepted(t)
      PROVE  SentInv' /\ ReleaseFailsOnlyLate'
  BY <1>4, SentBegins
<1>5. ASSUME NEW t \in Tasks,
             Settle(t) \/ Refund(t) \/ latest_blockhash(t) \/ SendRefused(t) \/ RpcFails(t) \/ Drop(t)
      PROVE  SentInv' /\ ReleaseFailsOnlyLate'
  <2>1. UNCHANGED <<tx, escrow, clock>>
    BY <1>5 DEF Settle, Refund, latest_blockhash, SendRefused, RpcFails, Drop, programVars
  <2>. QED  BY <1>1, <1>2, <2>1
<1>6. CASE Anchor \/ SetUp \/ UNCHANGED vars
  <2>1. UNCHANGED <<tx, escrow, clock>>
    BY <1>6 DEF Anchor, SetUp, adapterVars, vars, programVars
  <2>. QED  BY <1>1, <1>2, <2>1
<1>7. CASE ClientTransaction
  <2>1. UNCHANGED <<tx, clock>> /\ \A t \in Tasks : escrow'[t] = escrow[t]
    BY <1>1, <1>7, ClientSteps DEF ClientTransaction, adapterVars
  <2>. QED  BY <1>1, <1>2, <2>1
<1>8. CASE Tick
  <2>1. UNCHANGED <<tx, escrow>> /\ clock' = clock + 1
    BY <1>8 DEF Tick, AdvanceClock, adapterVars
  <2>. QED  BY <1>1, <1>2, <2>1
<1>. QED  BY <1>3, <1>4, <1>5, <1>6, <1>7, <1>8 DEF Next, Work

LEMMA LateHolds == Spec => []LateInv
<1>1. Init => LateInv
  BY LateInit
<1>2. LateInv /\ [Next]_vars => LateInv'
  BY LateStep
<1>. QED  BY <1>1, <1>2, PTL DEF Spec

\* Every variable of the program and of the adapter has its type: the score of
\* recompute_score stays in its scale, and a settlement's transaction carries
\* the amount of its handle.
THEOREM SettlementTypes == Spec => []TypeOK
<1>1. LateInv => TypeOK
  BY DEF LateInv, TypeInv, FundedInv, EscrowInv, EscrowTypes, FundTypes, CallInv, ScoreTypes,
         RegistryTypes, TypeOK, ProgramTypeOK, TxStates
<1>. QED  BY <1>1, LateHolds, PTL

\* What the endpoint took fails on the chain for one reason only: a release, when
\* the escrow expired in between (send_and_confirm waits for nothing, and the
\* simulation of sendTransaction is all that is checked before).
THEOREM ReleasesFailOnlyLate == Spec => []ReleaseFailsOnlyLate
<1>1. LateInv => ReleaseFailsOnlyLate
  BY DEF LateInv
<1>. QED  BY <1>1, LateHolds, PTL

-----------------------------------------------------------------------------
(* Lamports are neither made nor lost.                                     *)

Holders == Wallets \union Requests

\* What an instruction may do with lamports.
Moves ==
    lamports' = lamports
    \/ \E from, to \in Holders, amount \in Nat :
          from # to /\ amount <= lamports[from] /\ Transfer(from, to, amount)

LEMMA TransferConserves ==
    ASSUME FundTypes, Moves
    PROVE  SumOver(lamports', Holders) = SumOver(lamports, Holders)
<1>1. ASSUME NEW from \in Holders, NEW to \in Holders, NEW amount \in Nat,
             from # to, amount <= lamports[from], Transfer(from, to, amount)
      PROVE  SumOver(lamports', Holders) = SumOver(lamports, Holders)
  <2>1. PICK f : f = lamports
    OBVIOUS
  <2>2. PICK g : g = [f EXCEPT ![from] = @ - amount]
    OBVIOUS
  <2>3. PICK h : h = [g EXCEPT ![to] = @ + amount]
    OBVIOUS
  <2>4. f \in [Holders -> Nat] /\ f[from] \in Nat /\ f[to] \in Nat /\ amount <= f[from]
    BY <1>1, <2>1 DEF FundTypes, Holders
  <2>5. /\ g[from] = f[from] - amount /\ g[from] \in Nat
        /\ \A a \in Holders : a # from => g[a] = f[a]
    BY <2>2, <2>4
  <2>6. /\ g[to] = f[to] /\ h[to] = g[to] + amount /\ h[to] \in Nat
        /\ \A a \in Holders : a # to => h[a] = g[a]
    BY <1>1, <2>2, <2>3, <2>4, <2>5
  <2>7. lamports' = h
    <3>1. lamports' = [f EXCEPT ![from] = @ - amount, ![to] = @ + amount]
      BY <1>1, <2>1 DEF Transfer
    <3>. QED  BY <1>1, <3>1, <2>2, <2>3, <2>4
  <2>8. Amounting(f, Holders) /\ SumOver(f, Holders) \in Nat
    <3>1. IsFiniteSet(Holders)
      BY ProgramAssumption, FS_Union DEF Holders
    <3>2. Amounting(f, Holders)
      BY <2>4, <3>1 DEF Amounting
    <3>. QED  BY <3>2, SumType
  <2>9. Amounting(g, Holders) /\ SumOver(g, Holders) = SumOver(f, Holders) - f[from] + g[from]
    <3>1. Amounting(f, Holders)
      BY <2>8
    <3>2. g[from] \in Nat /\ DifferAt(f, g, Holders, from)
      BY <2>5 DEF DifferAt
    <3>. QED  BY <3>1, <3>2, SumPut
  <2>10. Amounting(h, Holders) /\ SumOver(h, Holders) = SumOver(g, Holders) - g[to] + h[to]
    <3>1. Amounting(g, Holders)
      BY <2>9
    <3>2. h[to] \in Nat /\ DifferAt(g, h, Holders, to)
      BY <2>6 DEF DifferAt
    <3>. QED  BY <3>1, <3>2, SumPut
  <2>11. SumOver(h, Holders) = SumOver(f, Holders)
    BY <2>4, <2>5, <2>6, <2>8, <2>9, <2>10
  <2>. QED  BY <2>1, <2>7, <2>11
<1>. QED  BY <1>1 DEF Moves

\* The instructions take from an account what is in it.
LEMMA InstructionMoves ==
    ASSUME EscrowInv, NEW signer \in Wallets, NEW r \in Requests,
           \/ \E node, timeout : \E amount \in Amounts : lock_escrow(signer, r, node, amount, timeout)
           \/ \E proof : release_escrow(signer, r, proof)
           \/ refund_escrow(signer, r)
    PROVE  Moves
<1>1. signer # r /\ signer \in Holders /\ r \in Holders /\ Amounts \subseteq Nat
  BY ProgramAssumption DEF Holders
<1>2. ASSUME NEW amount \in Amounts, amount <= lamports[signer], Transfer(signer, r, amount)
      PROVE  Moves
  BY <1>1, <1>2 DEF Moves
<1>3. ASSUME Locked(r), Transfer(r, signer, escrow[r].amount)
      PROVE  Moves
  <2>1. escrow[r].amount \in Nat
    BY <1>1, <1>3 DEF Locked, EscrowInv, EscrowTypes, EscrowAccount
  <2>2. lamports[r] = escrow[r].amount
    BY <1>3 DEF EscrowInv, EscrowsAreFunded, Held
  <2>. QED  BY <1>1, <1>3, <2>1, <2>2 DEF Moves
<1>4. ASSUME NEW node, NEW timeout, NEW amount \in Amounts, lock_escrow(signer, r, node, amount, timeout)
      PROVE  Moves
  <2>1. amount \in Nat /\ lamports[signer] \in Nat /\ lamports[signer] >= amount /\ Transfer(signer, r, amount)
    BY <1>1, <1>4 DEF lock_escrow, CanLock, EscrowInv, FundTypes, Holders
  <2>. QED  BY <1>2, <2>1
<1>. QED  BY <1>3, <1>4 DEF release_escrow, CanRelease, refund_escrow, CanRefund

LEMMA EveryStepMoves ==
    ASSUME FundedInv, [Next]_vars
    PROVE  Moves
<1>1. EscrowInv /\ CallInv /\ Wallet \in Wallets /\ Client \in Wallets /\ Tasks \subseteq Requests
  BY AdapterAssumption DEF FundedInv
<1>2. CASE lamports' = lamports
  BY <1>2 DEF Moves
<1>3. ASSUME NEW t \in Tasks, NEW s \in Steps, Land(t, s)
      PROVE  Moves
  <2>1. s = "lock" => value[t] \in Amounts
    BY <1>1, <1>3 DEF Land, CallInv
  <2>2. \/ lamports' = lamports
        \/ s = "lock" /\ lock_escrow(Wallet, t, Wallet, value[t], 0)
        \/ release_escrow(Wallet, t, t)
        \/ refund_escrow(Wallet, t)
    BY <1>3 DEF Land, ReleaseAndProve
  <2>. QED  BY <1>1, <1>2, <2>1, <2>2, InstructionMoves
<1>4. CASE ClientTransaction
  <2>1. PICK r \in Requests \ Tasks :
          \/ \E node \in {Wallet, Client}, amount \in Amounts, timeout \in Timeouts :
                lock_escrow(Client, r, node, amount, timeout)
          \/ release_escrow(Client, r, r)
          \/ refund_escrow(Client, r)
    BY <1>4 DEF ClientTransaction
  <2>. QED  BY <1>1, <2>1, InstructionMoves
<1>5. ASSUME NEW t \in Tasks, NEW s \in Steps,
             \/ Settle(t) \/ Refund(t) \/ Work(t) \/ RpcFails(t) \/ Drop(t) \/ Expire(t, s)
      PROVE  Moves
  BY <1>2, <1>5, OthersKeep
<1>6. CASE Anchor \/ SetUp \/ Tick \/ UNCHANGED vars
  BY <1>2, <1>6 DEF Anchor, SetUp, Tick, AdvanceClock, vars, programVars
<1>7. "lock" \in Steps
  BY DEF Steps
<1>. QED  BY <1>3, <1>4, <1>5, <1>6, <1>7 DEF Next

\* Each escrow account holds the amount of its escrow while it is locked and nothing
\* after, and what the wallets began with is in the wallets and the escrows, for any
\* wallets, requests and amounts (lock_escrow, release_escrow, refund_escrow).
THEOREM LamportsAreConserved == Spec => []Solvent
<1>. DEFINE Total == SumOver(lamports, Holders) = Funds * Cardinality(Wallets)
<1>1. Init => Total
  <2>. SUFFICES ASSUME Init PROVE Total
    OBVIOUS
  <2>1. /\ IsFiniteSet(Wallets) /\ IsFiniteSet(Requests) /\ Funds \in Nat
        /\ Wallets \intersect Requests = {}
    BY ProgramAssumption
  <2>2. (\A w \in Wallets : lamports[w] = Funds) /\ \A r \in Requests : lamports[r] = 0
    BY <2>1 DEF Init, ProgramInit
  <2>3. Amounting(lamports, Wallets) /\ Amounting(lamports, Requests)
    BY <2>1, <2>2 DEF Amounting
  <2>4. SumOver(lamports, Wallets) = Funds * Cardinality(Wallets)
    BY <2>1, <2>2, SumConstant
  <2>5. SumOver(lamports, Requests) = 0
    BY <2>2, SumZero
  <2>6. SumOver(lamports, Holders) = SumOver(lamports, Wallets) + SumOver(lamports, Requests)
    BY <2>1, <2>3, SumUnion DEF Holders
  <2>7. SumOver(lamports, Wallets) \in Nat
    BY <2>3, SumType
  <2>. QED  BY <2>4, <2>5, <2>6, <2>7
<1>2. FundedInv /\ Total /\ [Next]_vars => Total'
  <2>. SUFFICES ASSUME FundedInv, Total, [Next]_vars PROVE Total'
    OBVIOUS
  <2>1. FundTypes
    BY DEF FundedInv, EscrowInv
  <2>. QED  BY <2>1, EveryStepMoves, TransferConserves
<1>3. FundedInv /\ Total => Solvent
  BY DEF FundedInv, EscrowInv, Solvent, Holders
<1>. HIDE DEF Total
<1>. QED  BY <1>1, <1>2, <1>3, FundedHolds, PTL DEF Spec

-----------------------------------------------------------------------------
(* The leaderboard.                                                        *)

\* What was released is as it was.
ReleasedSame ==
    \A q \in Requests :
        /\ InState(q, "Released")' <=> InState(q, "Released")
        /\ InState(q, "Released") => escrow'[q] = escrow[q]

LEMMA SameReleased ==
    ASSUME ReleasedSame
    PROVE  /\ \A w : Released(w)' = Released(w)
           /\ AllReleased' = AllReleased /\ Earned' = Earned
<1>1. \A w : Released(w)' = Released(w)
  BY DEF ReleasedSame, Released
<1>2. \A q \in Requests : ToNode(q)' = ToNode(q)
  BY DEF ReleasedSame, ToNode
<1>. QED  BY <1>1, <1>2 DEF AllReleased, Earned

LEMMA NothingReleased ==
    ASSUME EscrowInv, NEW signer \in Wallets, NEW r \in Requests,
           \/ \E node, timeout : \E amount \in Amounts : lock_escrow(signer, r, node, amount, timeout)
           \/ refund_escrow(signer, r)
    PROVE  ReleasedSame
<1>1. PICK new : /\ escrow' = [escrow EXCEPT ![r] = new] /\ ~InState(r, "Released")
                 /\ new.state # "Released"
  <2>1. ASSUME NEW node, NEW timeout, NEW amount \in Amounts, lock_escrow(signer, r, node, amount, timeout)
        PROVE  \E new : /\ escrow' = [escrow EXCEPT ![r] = new] /\ ~InState(r, "Released")
                        /\ new.state # "Released"
    <3>. DEFINE new == [client |-> signer, node |-> node, amount |-> amount, state |-> "Locked",
                        expires |-> clock + (IF timeout > 0 THEN timeout ELSE DefaultTimeout), proof |-> Nil]
    <3>1. new.state # "Released" /\ escrow[r] = Nil /\ escrow' = [escrow EXCEPT ![r] = new]
      BY <2>1 DEF lock_escrow, CanLock
    <3>. HIDE DEF new
    <3>. QED  BY <3>1 DEF InState
  <2>2. ASSUME refund_escrow(signer, r)
        PROVE  \E new : /\ escrow' = [escrow EXCEPT ![r] = new] /\ ~InState(r, "Released")
                        /\ new.state # "Released"
    <3>. DEFINE new == [escrow[r] EXCEPT !.state = "Refunded"]
    <3>1. Locked(r) /\ escrow' = [escrow EXCEPT ![r] = new]
      BY <2>2 DEF refund_escrow, CanRefund
    <3>2. escrow[r] \in EscrowAccount
      BY <3>1 DEF Locked, EscrowInv, EscrowTypes
    <3>3. new.state # "Released"
      BY <3>2 DEF EscrowAccount
    <3>. HIDE DEF new
    <3>. QED  BY <3>1, <3>3 DEF InState, Locked
  <2>. QED  BY <2>1, <2>2
<1>2. escrow'[r] = new /\ \A q \in Requests \ {r} : escrow'[q] = escrow[q]
  BY <1>1 DEF EscrowInv, EscrowTypes
<1>. QED  BY <1>1, <1>2 DEF ReleasedSame, InState

\* The parts of what was released, and what they amount to.
LEMMA ReleasedParts ==
    ASSUME EscrowInv
    PROVE  /\ \A w : Released(w) \subseteq Requests /\ IsFiniteSet(Released(w)) /\ Amounting(Earned, Released(w))
           /\ AllReleased = {q \in Requests : InState(q, "Released")}
           /\ IsFiniteSet(AllReleased) /\ Amounting(Earned, AllReleased)
<1>1. IsFiniteSet(Requests)
  BY ProgramAssumption
<1>2. \A q \in Requests : Earned[q] \in Nat /\ (InState(q, "Released") => escrow[q].node \in Wallets)
  BY ProgramAssumption DEF Earned, ToNode, InState, EscrowInv, EscrowTypes, EscrowAccount
<1>3. AllReleased = {q \in Requests : InState(q, "Released")}
  BY <1>2 DEF AllReleased, Released
<1>4. \A S \in SUBSET Requests : IsFiniteSet(S) /\ Amounting(Earned, S)
  BY <1>1, <1>2, FS_Subset DEF Amounting
<1>5. \A w : Released(w) \in SUBSET Requests
  BY DEF Released
<1>6. AllReleased \in SUBSET Requests
  BY <1>3
<1>. QED  BY <1>3, <1>4, <1>5, <1>6

LEMMA OneReleased ==
    ASSUME EscrowInv, EscrowInv', NEW signer \in Wallets, NEW r \in Requests, NEW proof \in Requests,
           release_escrow(signer, r, proof)
    PROVE  /\ escrow[r].amount \in Nat /\ r \notin AllReleased
           /\ Released(signer)' = Released(signer) \union {r}
           /\ \A w \in Wallets \ {signer} : Released(w)' = Released(w)
           /\ AllReleased' = AllReleased \union {r}
           /\ Earned'[r] = escrow[r].amount /\ \A q \in Requests \ {r} : Earned'[q] = Earned[q]
<1>. DEFINE new == [escrow[r] EXCEPT !.state = "Released", !.proof = proof]
<1>1. Locked(r) /\ signer = escrow[r].node /\ escrow' = [escrow EXCEPT ![r] = new]
  BY DEF release_escrow, CanRelease
<1>2. escrow[r] \in EscrowAccount /\ escrow[r].amount \in Nat
  BY <1>1, ProgramAssumption DEF Locked, EscrowInv, EscrowTypes, EscrowAccount
<1>3. new.state = "Released" /\ new.amount = escrow[r].amount /\ new.node = signer /\ new # Nil
  BY <1>1, <1>2, NilAssumption DEF EscrowAccount
<1>. HIDE DEF new
<1>4. escrow'[r] = new /\ \A q \in Requests \ {r} : escrow'[q] = escrow[q]
  BY <1>1 DEF EscrowInv, EscrowTypes
<1>5. InState(r, "Released")' /\ ~InState(r, "Released")
  BY <1>1, <1>3, <1>4 DEF InState, Locked
<1>6. \A q \in Requests \ {r} : InState(q, "Released")' = InState(q, "Released") /\ ToNode(q)' = ToNode(q)
  BY <1>4 DEF InState, ToNode
<1>7. Released(signer)' = Released(signer) \union {r}
  BY <1>3, <1>4, <1>5, <1>6 DEF Released
<1>8. \A w \in Wallets \ {signer} : Released(w)' = Released(w)
  BY <1>3, <1>4, <1>5, <1>6 DEF Released
<1>9. /\ AllReleased = {q \in Requests : InState(q, "Released")}
      /\ AllReleased' = {q \in Requests : InState(q, "Released")'}
  <2>1. EscrowInv => AllReleased = {q \in Requests : InState(q, "Released")}
    BY ReleasedParts
  <2>2. AllReleased' = {q \in Requests : InState(q, "Released")'}
    <3>1. \A q \in Requests : InState(q, "Released")' => escrow'[q].node \in Wallets
      BY DEF InState, EscrowInv, EscrowTypes, EscrowAccount
    <3>. QED  BY <3>1 DEF AllReleased, Released
  <2>. QED  BY <2>1, <2>2
<1>10. AllReleased' = AllReleased \union {r} /\ r \notin AllReleased
  BY <1>5, <1>6, <1>9
<1>11. Earned'[r] = escrow[r].amount
  BY <1>3, <1>4, <1>5 DEF Earned, ToNode
<1>12. \A q \in Requests \ {r} : Earned'[q] = Earned[q]
  BY <1>6 DEF Earned
<1>. QED  BY <1>2, <1>7, <1>8, <1>10, <1>11, <1>12

\* The sums over what was released, after one more.
LEMMA OneMore ==
    ASSUME EscrowInv, NEW S, S \subseteq AllReleased, NEW r \in Requests, r \notin AllReleased,
           NEW amount \in Nat, Earned'[r] = amount, \A q \in Requests \ {r} : Earned'[q] = Earned[q]
    PROVE  /\ Cardinality(S \union {r}) = Cardinality(S) + 1
           /\ SumOver(Earned', S \union {r}) = SumOver(Earned, S) + amount
           /\ SumOver(Earned', S) = SumOver(Earned, S)
<1>1. /\ AllReleased \subseteq Requests /\ IsFiniteSet(AllReleased) /\ Amounting(Earned, AllReleased)
  BY ReleasedParts
<1>2. IsFiniteSet(S) /\ r \notin S /\ S \subseteq Requests \ {r}
  BY <1>1, FS_Subset
<1>3. \A q \in S : Earned'[q] = Earned[q]
  BY <1>2
<1>4. SumOver(Earned', S) = SumOver(Earned, S)
  BY <1>3, SumSame
<1>5. Amounting(Earned', S)
  BY <1>1, <1>2, <1>3 DEF Amounting
<1>6. SumOver(Earned', S \union {r}) = SumOver(Earned', S) + Earned'[r]
  BY <1>2, <1>5, SumAdd
<1>7. Cardinality(S \union {r}) = Cardinality(S) + 1
  BY <1>2, FS_AddElement
<1>. QED  BY <1>4, <1>6, <1>7

\* An escrow of the adapter is of what its handle says, and stays so.
TasksPriced ==
    \A t \in Tasks : escrow[t] # Nil => escrow[t].amount = value[t] /\ pc[t] # "idle"

\* A step that releases nothing counts nothing.
LEMMA LeadKept ==
    ASSUME LeaderboardIsEarned, ReleasedSame,
           state'.jobs = state.jobs, state'.volume = state.volume,
           NEW old, NEW new, old = score[NodeKey], new = score'[NodeKey],
           \/ new = old
           \/ old # Nil /\ new # Nil /\ new.jobs = old.jobs /\ new.earned = old.earned
           \/ old = Nil /\ new # Nil /\ new.jobs = 0 /\ new.earned = 0
    PROVE  LeaderboardIsEarned'
<1>1. Released(Wallet)' = Released(Wallet) /\ AllReleased' = AllReleased /\ Earned' = Earned
  BY SameReleased
<1>2. old = Nil => SumOver(Earned, Released(Wallet)) = 0 /\ Cardinality(Released(Wallet)) = 0
  BY SumEmpty, FS_EmptySet DEF LeaderboardIsEarned
<1>. QED  BY <1>1, <1>2 DEF LeaderboardIsEarned

\* A release of the wallet counts for both: it is one transaction with its proof.
LEMMA LeadProved ==
    ASSUME LeaderboardIsEarned, EscrowInv, EscrowInv', ScoreTypes, RegistryTypes, TasksPriced,
           NEW t \in Tasks, ReleaseAndProve(t)
    PROVE  LeaderboardIsEarned'
<1>1. PICK latency \in Latencies : submit_proof(Wallet, NodeKey, t, latency, value[t])
  BY DEF ReleaseAndProve
<1>2. t \in Requests /\ Wallet \in Wallets /\ NodeKey \in NodeKeys /\ release_escrow(Wallet, t, t)
  BY AdapterAssumption DEF ReleaseAndProve
<1>. DEFINE amount == escrow[t].amount
<1>3. /\ amount \in Nat /\ t \notin AllReleased
      /\ Released(Wallet)' = Released(Wallet) \union {t}
      /\ AllReleased' = AllReleased \union {t}
      /\ Earned'[t] = amount /\ \A q \in Requests \ {t} : Earned'[q] = Earned[q]
  BY <1>2, OneReleased
<1>4. value[t] = amount
  BY <1>2 DEF TasksPriced, release_escrow, CanRelease, Locked
<1>. HIDE DEF amount
<1>5. Released(Wallet) \subseteq AllReleased
  BY <1>2 DEF AllReleased
<1>6. /\ Cardinality(Released(Wallet)') = Cardinality(Released(Wallet)) + 1
      /\ SumOver(Earned', Released(Wallet)') = SumOver(Earned, Released(Wallet)) + amount
  BY <1>2, <1>3, <1>5, OneMore
<1>7. /\ Cardinality(AllReleased') = Cardinality(AllReleased) + 1
      /\ SumOver(Earned', AllReleased') = SumOver(Earned, AllReleased) + amount
  BY <1>2, <1>3, OneMore
<1>8. state'.jobs = state.jobs + 1 /\ state'.volume = state.volume + amount
  <2>1. state' = [state EXCEPT !.jobs = @ + 1, !.volume = @ + amount]
    BY <1>2 DEF release_escrow, amount
  <2>. QED  BY <2>1 DEF RegistryTypes
<1>9. /\ score[NodeKey] # Nil /\ score'[NodeKey] # Nil
      /\ score'[NodeKey].jobs = score[NodeKey].jobs + 1
      /\ score'[NodeKey].earned = score[NodeKey].earned + amount
  <2>. DEFINE old == score[NodeKey]
              mean == (old.latency * 9 + latency) \div 10
              merit == recompute_score(old.jobs + 1, mean)
              new == [old EXCEPT !.jobs = @ + 1, !.earned = @ + value[t], !.latency = mean, !.score = merit]
  <2>1. old # Nil /\ score' = [score EXCEPT ![NodeKey] = new]
    BY <1>1 DEF submit_proof, CanSubmit, IsAuthority
  <2>2. old \in NodeScore
    BY <1>2, <2>1 DEF ScoreTypes
  <2>. HIDE DEF old, merit, mean
  <2>3. new.jobs = old.jobs + 1 /\ new.earned = old.earned + value[t]
    BY <2>2 DEF NodeScore
  <2>. HIDE DEF new
  <2>4. score'[NodeKey] = new
    BY <1>2, <2>1 DEF ScoreTypes
  <2>5. score'[NodeKey] # Nil
    <3>1. value[t] \in Nat
      BY <1>3, <1>4
    <3>2. IsAuthority(Wallet, score[NodeKey])'
      BY <1>1, <3>1, ProofIsCounted
    <3>. QED  BY <3>2 DEF IsAuthority
  <2>. QED  BY <1>4, <2>1, <2>3, <2>4, <2>5 DEF old
<1>. QED  BY <1>6, <1>7, <1>8, <1>9 DEF LeaderboardIsEarned

\* A release of another node counts for the program's statistics alone.
LEMMA LeadOfOthers ==
    ASSUME LeaderboardIsEarned, EscrowInv, EscrowInv', RegistryTypes, NEW r \in Requests,
           release_escrow(Client, r, r), UNCHANGED score
    PROVE  LeaderboardIsEarned'
<1>1. Client \in Wallets \ {Wallet} /\ Wallet \in Wallets \ {Client}
  BY AdapterAssumption
<1>. DEFINE amount == escrow[r].amount
<1>2. /\ amount \in Nat /\ r \notin AllReleased
      /\ Released(Wallet)' = Released(Wallet)
      /\ AllReleased' = AllReleased \union {r}
      /\ Earned'[r] = amount /\ \A q \in Requests \ {r} : Earned'[q] = Earned[q]
  BY <1>1, OneReleased
<1>. HIDE DEF amount
<1>3. Released(Wallet) \subseteq AllReleased
  BY <1>1 DEF AllReleased
<1>4. SumOver(Earned', Released(Wallet)') = SumOver(Earned, Released(Wallet))
  BY <1>2, <1>3, OneMore
<1>5. /\ Cardinality(AllReleased') = Cardinality(AllReleased) + 1
      /\ SumOver(Earned', AllReleased') = SumOver(Earned, AllReleased) + amount
  BY <1>2, OneMore
<1>6. state'.jobs = state.jobs + 1 /\ state'.volume = state.volume + amount
  <2>1. state' = [state EXCEPT !.jobs = @ + 1, !.volume = @ + amount]
    BY DEF release_escrow, amount
  <2>. QED  BY <2>1 DEF RegistryTypes
<1>. QED  BY <1>2, <1>4, <1>5, <1>6 DEF LeaderboardIsEarned

\* The amount of a settlement is settled before its lock is sent.
LEMMA PricesKept ==
    ASSUME FundedInv, TasksPriced, [Next]_vars
    PROVE  TasksPriced'
<1>1. EscrowInv /\ CallInv /\ Tasks \subseteq Requests
  BY AdapterAssumption DEF FundedInv
<1>2. ASSUME \A t \in Tasks : escrow'[t] = escrow[t],
             \A t \in Tasks : pc[t] # "idle" => pc'[t] # "idle" /\ value'[t] = value[t]
      PROVE  TasksPriced'
  BY <1>2 DEF TasksPriced
<1>3. ASSUME NEW t \in Tasks, Settle(t) \/ Refund(t) \/ Work(t) \/ RpcFails(t) \/ Drop(t)
      PROVE  TasksPriced'
  <2>1. escrow' = escrow
    BY <1>3 DEF Settle, Refund, Work, latest_blockhash, SendAccepted, SendRefused, RpcFails, Drop, programVars
  <2>2. \A u \in Tasks : u # t => pc'[u] = pc[u] /\ value'[u] = value[u]
    BY <1>1, <1>3 DEF Settle, Refund, Work, latest_blockhash, SendAccepted, SendRefused, RpcFails, Drop,
                      Goto, Failed, Succeeded, CallInv
  <2>3. CASE Settle(t)
    BY <1>2, <2>1, <2>2, <2>3 DEF Settle
  <2>4. CASE ~Settle(t)
    <3>1. value' = value
      BY <1>3, <2>4 DEF Refund, Work, latest_blockhash, SendAccepted, SendRefused, RpcFails, Drop
    <3>2. PICK p \in Working \union Ended : pc' = [pc EXCEPT ![t] = p]
      <4>1. CASE Refund(t)
        BY <4>1, Places DEF Refund, Goto
      <4>2. CASE latest_blockhash(t)
        <5>1. Sending[pc[t]] \in Working
          BY <4>2 DEF latest_blockhash, Working
        <5>. QED  BY <4>2, <5>1 DEF latest_blockhash, Goto
      <4>3. CASE SendAccepted(t) \/ SendRefused(t) \/ RpcFails(t) \/ Drop(t)
        <5>1. pc[t] \in Working
          BY <4>3, Places DEF SendAccepted, SendRefused, RpcFails, Drop, Working
        <5>2. \E p \in Working \union Ended : Goto(t, p)
          BY <4>3, <5>1, Answers DEF SendAccepted, SendRefused, RpcFails, Drop, Ended
        <5>. QED  BY <5>2 DEF Goto
      <4>. QED  BY <1>3, <2>4, <4>1, <4>2, <4>3 DEF Work
    <3>3. pc'[t] # "idle"
      BY <1>1, <3>2, Places DEF Ended, CallInv
    <3>. QED  BY <1>2, <2>1, <2>2, <3>1, <3>3
  <2>. QED  BY <2>3, <2>4
<1>4. ASSUME NEW t \in Tasks, NEW s \in Steps, Land(t, s)
      PROVE  TasksPriced'
  <2>1. t \in Requests /\ Wallet \in Wallets /\ 0 \in Int /\ UNCHANGED <<pc, value, clock>>
    BY <1>4, AdapterAssumption DEF Land
  <2>2. CASE UNCHANGED escrow
    BY <1>2, <2>1, <2>2
  <2>3. CASE s = "lock" /\ lock_escrow(Wallet, t, Wallet, value[t], 0)
    <3>1. value[t] \in Amounts /\ pc[t] # "idle"
      BY <1>1, <1>4, <2>3 DEF Land, CallInv
    <3>2. \A q \in Requests \ {t} : escrow'[q] = escrow[q]
      BY <1>1, <2>1, <2>3, <3>1, LockOpens
    <3>3. escrow'[t].amount = value[t]
      BY <1>1, <2>1, <2>3 DEF lock_escrow, EscrowInv, EscrowTypes
    <3>. QED  BY <1>1, <2>1, <3>1, <3>2, <3>3 DEF TasksPriced
  <2>4. ASSUME release_escrow(Wallet, t, t) \/ refund_escrow(Wallet, t)
        PROVE  TasksPriced'
    <3>1. escrow[t] # Nil /\ \A q \in Requests \ {t} : escrow'[q] = escrow[q]
      BY <1>1, <2>1, <2>4, ReleaseEndsEscrow, RefundEndsEscrow DEF Locked
    <3>2. escrow'[t].amount = escrow[t].amount
      <4>1. escrow[t] \in EscrowAccount
        BY <1>1, <2>1, <3>1 DEF EscrowInv, EscrowTypes
      <4>2. PICK new \in {[escrow[t] EXCEPT !.state = "Released", !.proof = t], [escrow[t] EXCEPT !.state = "Refunded"]} :
               escrow' = [escrow EXCEPT ![t] = new]
        BY <2>4 DEF release_escrow, refund_escrow
      <4>3. new.amount = escrow[t].amount
        BY <4>1 DEF EscrowAccount
      <4>. QED  BY <1>1, <2>1, <4>2, <4>3 DEF EscrowInv, EscrowTypes
    <3>. QED  BY <1>1, <2>1, <3>1, <3>2 DEF TasksPriced
  <2>. QED  BY <1>4, <2>2, <2>3, <2>4 DEF Land, ReleaseAndProve
<1>5. CASE ClientTransaction
  <2>1. (\A t \in Tasks : escrow'[t] = escrow[t]) /\ UNCHANGED <<pc, value>>
    BY <1>1, <1>5, ClientSteps DEF ClientTransaction, adapterVars
  <2>. QED  BY <1>2, <2>1
<1>6. CASE (\E t \in Tasks, s \in Steps : Expire(t, s)) \/ Anchor \/ SetUp \/ Tick \/ UNCHANGED vars
  <2>1. UNCHANGED <<escrow, pc, value>>
    BY <1>6 DEF Expire, Anchor, SetUp, Tick, AdvanceClock, adapterVars, programVars, vars
  <2>. QED  BY <1>2, <2>1
<1>. QED  BY <1>3, <1>4, <1>5, <1>6 DEF Next

LEMMA LeadStep ==
    ASSUME TypeInv, TypeInv', TasksPriced, LeaderboardIsEarned, [Next]_vars
    PROVE  LeaderboardIsEarned'
<1>1. /\ EscrowInv /\ EscrowInv' /\ CallInv /\ ScoreTypes /\ RegistryTypes
      /\ Wallet \in Wallets /\ Client \in Wallets /\ Tasks \subseteq Requests /\ NodeKey \in NodeKeys
  BY AdapterAssumption DEF TypeInv, FundedInv
<1>2. ASSUME ReleasedSame, UNCHANGED <<score, state>>
      PROVE  LeaderboardIsEarned'
  BY <1>2, LeadKept
<1>3. ASSUME UNCHANGED escrow
      PROVE  ReleasedSame
  BY <1>3 DEF ReleasedSame, InState
<1>4. ASSUME NEW t \in Tasks, NEW s \in Steps, Land(t, s)
      PROVE  LeaderboardIsEarned'
  <2>1. s = "lock" => value[t] \in Amounts
    BY <1>1, <1>4 DEF Land, CallInv
  <2>2. \/ UNCHANGED <<escrow, score, state>>
        \/ s = "lock" /\ lock_escrow(Wallet, t, Wallet, value[t], 0) /\ UNCHANGED <<score, state>>
        \/ ReleaseAndProve(t)
        \/ refund_escrow(Wallet, t) /\ UNCHANGED <<score, state>>
    BY <1>4 DEF Land
  <2>3. CASE ReleaseAndProve(t)
    BY <1>1, <2>3, LeadProved
  <2>4. CASE ~ReleaseAndProve(t)
    <3>1. ReleasedSame
      BY <1>1, <1>3, <2>1, <2>2, <2>4, NothingReleased
    <3>. QED  BY <1>2, <2>2, <2>4, <3>1
  <2>. QED  BY <2>3, <2>4
<1>5. CASE ClientTransaction
  <2>1. PICK r \in Requests \ Tasks :
          \/ (\E node \in {Wallet, Client}, amount \in Amounts, timeout \in Timeouts :
                lock_escrow(Client, r, node, amount, timeout)) /\ UNCHANGED state
          \/ release_escrow(Client, r, r)
          \/ refund_escrow(Client, r) /\ UNCHANGED state
    BY <1>5 DEF ClientTransaction
  <2>2. UNCHANGED score
    BY <1>5 DEF ClientTransaction
  <2>3. CASE release_escrow(Client, r, r)
    BY <1>1, <2>2, <2>3, LeadOfOthers
  <2>4. CASE ~release_escrow(Client, r, r)
    <3>1. ReleasedSame /\ UNCHANGED state
      BY <1>1, <2>1, <2>4, NothingReleased
    <3>. QED  BY <1>2, <2>2, <3>1
  <2>. QED  BY <2>3, <2>4
<1>6. ASSUME NEW t \in Tasks, NEW s \in Steps,
             \/ Settle(t) \/ Refund(t) \/ Work(t) \/ RpcFails(t) \/ Drop(t) \/ Expire(t, s)
      PROVE  LeaderboardIsEarned'
  <2>1. UNCHANGED programVars
    BY <1>6 DEF Settle, Refund, Work, latest_blockhash, SendAccepted, SendRefused, RpcFails, Drop, Expire
  <2>. QED  BY <1>2, <1>3, <2>1 DEF programVars
<1>7. CASE Anchor
  <2>1. PICK root \in Roots : /\ score' = [score EXCEPT ![NodeKey].root = root]
                              /\ score[NodeKey] # Nil
    BY <1>7 DEF Anchor, anchor_merkle_root, IsAuthority
  <2>2. score[NodeKey] \in NodeScore
    BY <1>1, <2>1 DEF ScoreTypes
  <2>3. score'[NodeKey].jobs = score[NodeKey].jobs /\ score'[NodeKey].earned = score[NodeKey].earned
    BY <1>1, <2>1, <2>2 DEF ScoreTypes, NodeScore
  <2>4. score'[NodeKey] # Nil
    BY <1>1, <1>7, AnchorKeeps DEF IsAuthority
  <2>5. ReleasedSame /\ UNCHANGED state
    BY <1>3, <1>7 DEF Anchor
  <2>. QED  BY <2>1, <2>3, <2>4, <2>5, LeadKept
<1>8. CASE SetUp
  <2>1. ReleasedSame
    BY <1>3, <1>8 DEF SetUp
  <2>2. CASE initialize_score(Wallet, NodeKey) /\ UNCHANGED state
    <3>. DEFINE new == [authority |-> Wallet, root |-> Nil, jobs |-> 0, earned |-> 0,
                        latency |-> 0, score |-> 0]
    <3>1. score[NodeKey] = Nil /\ score' = [score EXCEPT ![NodeKey] = new]
      BY <2>2 DEF initialize_score
    <3>2. new.jobs = 0 /\ new.earned = 0
      OBVIOUS
    <3>3. new # Nil
      <4>1. new \in NodeScore
        BY <1>1, NoScore DEF NodeScore
      <4>. QED  BY <4>1, NilAssumption
    <3>. HIDE DEF new
    <3>4. score'[NodeKey] = new
      BY <1>1, <3>1 DEF ScoreTypes
    <3>. QED  BY <2>1, <2>2, <3>1, <3>2, <3>3, <3>4, LeadKept
  <2>3. CASE UNCHANGED score
    <3>1. state'.jobs = state.jobs /\ state'.volume = state.volume
      BY <1>1, <1>8, <2>3 DEF SetUp, register_node, RegistryTypes, initialize_score
    <3>. QED  BY <2>1, <2>3, <3>1, LeadKept
  <2>. QED  BY <1>8, <2>2, <2>3 DEF SetUp
<1>9. CASE Tick \/ UNCHANGED vars
  BY <1>2, <1>3, <1>9 DEF Tick, AdvanceClock, vars, programVars
<1>10. "lock" \in Steps
  BY DEF Steps
<1>. QED  BY <1>4, <1>5, <1>6, <1>7, <1>8, <1>9, <1>10 DEF Next

\* The node's score counts the jobs it was paid for and what they paid, and the
\* program's statistics count everyone's, for any number of settlements, whichever
\* transactions are refused, fail, are lost or lose their answer (release_escrow and
\* submit_proof in one transaction).
THEOREM LeaderboardCounts == Spec => []LeaderboardIsEarned
<1>1. Init => TasksPriced /\ LeaderboardIsEarned
  <2>. SUFFICES ASSUME Init PROVE TasksPriced /\ LeaderboardIsEarned
    OBVIOUS
  <2>1. /\ \A r \in Requests : escrow[r] = Nil
        /\ score[NodeKey] = Nil /\ state.jobs = 0 /\ state.volume = 0
    BY AdapterAssumption DEF Init, ProgramInit
  <2>2. Released(Wallet) = {} /\ AllReleased = {}
    BY <2>1 DEF AllReleased, Released, InState
  <2>3. SumOver(Earned, AllReleased) = 0 /\ Cardinality(AllReleased) = 0
    BY <2>2, SumEmpty, FS_EmptySet
  <2>. QED  BY <2>1, <2>2, <2>3, AdapterAssumption DEF TasksPriced, LeaderboardIsEarned
<1>2. TypeInv /\ TypeInv' /\ TasksPriced /\ LeaderboardIsEarned /\ [Next]_vars => TasksPriced' /\ LeaderboardIsEarned'
  BY PricesKept, LeadStep DEF TypeInv
<1>3. LateInv => TypeInv
  BY DEF LateInv
<1>. QED  BY <1>1, <1>2, <1>3, LateHolds, PTL DEF Spec

-----------------------------------------------------------------------------
(* Receipts: the adapter of a request, and what its receipt says.          *)

Stages == {"received", "refused", "running", "paying", "locking", "releasing", "answered", "dropped"}
SignedReceipts == [adapter : AdapterIds, tx : Paid \union {NoTx, MadeUp}]
Fates == {"none", "sent", "landed", "lost"}

ReceiptTypes ==
    /\ config \in Configs
    /\ stage \in [Paid -> Stages]
    /\ proofOf \in [Paid -> SignedReceipts \union {NoReceipt}]
    /\ receipts \in Seq(Paid)
    /\ intent \in [Paid -> {"none", "created", "confirmed"}]
    /\ lockTx \in [Paid -> Fates] /\ releaseTx \in [Paid -> Fates]
    /\ payFaults \in [Paid -> Nat]

\* Nothing is reserved or signed before the adapter is chosen.
BeforeSettling(r) ==
    stage[r] \in {"received", "running", "refused"} =>
        proofOf[r] = NoReceipt /\ intent[r] = "none" /\ lockTx[r] = "none" /\ releaseTx[r] = "none"

\* The adapter that is waited for is one the client accepts, and the other
\* service has nothing of the request.
WhileLocking(r) ==
    /\ stage[r] = "paying" =>
          /\ proofOf[r] = NoReceipt /\ intent[r] # "confirmed" /\ lockTx[r] = "none"
          /\ "arc-gateway" \in ToSet(Wanted(r))
    /\ stage[r] = "locking" =>
          /\ proofOf[r] = NoReceipt /\ intent[r] = "none"
          /\ "chain" \in ToSet(Wanted(r))

\* What is signed is what was asked for, with the adapter that asked; a payment
\* that is made and not named has a call that failed to explain it.
OnceSigned(r) ==
    /\ stage[r] = "releasing" => proofOf[r] # NoReceipt
    /\ stage[r] \in {"releasing", "answered"} /\ proofOf[r] # NoReceipt =>
          /\ proofOf[r].adapter \in ToSet(Wanted(r))
          /\ intent[r] # "none" => proofOf[r].adapter = "arc-gateway"
          /\ lockTx[r] # "none" => proofOf[r].adapter = "chain"
          /\ proofOf[r].tx = r => intent[r] # "none" \/ lockTx[r] # "none"
          /\ proofOf[r].tx = NoTx => lockTx[r] = "none" /\ (intent[r] # "none" => payFaults[r] > 0)
          /\ proofOf[r].tx = MadeUp => proofOf[r].adapter = "arc-gateway"

\* The log has the requests answered with the receipt adapter.
InTheLog(r) ==
    r \in ToSet(receipts) <=>
        stage[r] = "answered" /\ proofOf[r] # NoReceipt /\ proofOf[r].adapter = "receipt"

\* A lock that the endpoint has taken may land after the answer.
OnceAnswered(r) ==
    stage[r] = "answered" =>
        /\ intent[r] = "created" \/ lockTx[r] # "none" =>
              payFaults[r] > 0 \/ Names(r, MadeUp) \/ releaseTx[r] # "none"
        /\ payFaults[r] = 0 /\ wants[r] = Unsaid => proofOf[r] # NoReceipt

HandlerInv(r) == BeforeSettling(r) /\ WhileLocking(r) /\ OnceSigned(r) /\ InTheLog(r) /\ OnceAnswered(r)

ReceiptInv == ReceiptTypes /\ LoggedOnce /\ \A r \in Paid : HandlerInv(r)

-----------------------------------------------------------------------------
(* The choice of the adapter.                                              *)

\* Of the sets of those that are smaller, one has no other within it.
LEMMA SmallestExists ==
    ASSUME NEW S, S \subseteq Nat, S # {}
    PROVE  \E i \in S : \A j \in S : i <= j
<1>. DEFINE Below(i) == {j \in S : j < i}
            T == {Below(i) : i \in S}
<1>1. \A i \in S : IsFiniteSet(Below(i))
  <2>. SUFFICES ASSUME NEW i \in S PROVE IsFiniteSet(Below(i))
    OBVIOUS
  <2>1. i \in Nat /\ Below(i) \subseteq S /\ \A j \in Below(i) : j < i
    OBVIOUS
  <2>2. \A j \in Nat : j < i => j <= i
    BY <2>1
  <2>. HIDE DEF Below
  <2>3. Below(i) \in SUBSET Nat
    BY <2>1
  <2>4. \A j \in Below(i) : j <= i
    BY <2>1, <2>2
  <2>. QED  BY <2>1, <2>3, <2>4, FS_BoundedSetOfNaturals
<1>2. T \subseteq FiniteSubsetsOf(S) /\ T # {}
  BY <1>1 DEF FiniteSubsetsOf
<1>. DEFINE R == StrictSubsetOrdering(S)
<1>3. IsWellFoundedOn(R, FiniteSubsetsOf(S))
  BY FS_StrictSubsetOrderingWellFounded
<1>. HIDE DEF R, T
<1>4. PICK x \in T : \A y \in T : ~ (<<y, x>> \in R)
  BY <1>2, <1>3, WFMin
<1>5. PICK i \in S : x = Below(i)
  BY <1>4 DEF T
<1>6. ASSUME NEW j \in S, j < i
      PROVE  FALSE
  <2>1. i \in Nat /\ j \in Nat
    OBVIOUS
  <2>2. Below(j) \in T
    BY DEF T
  <2>3. \A k \in S : k < j => k < i
    BY <1>6, <2>1
  <2>4. Below(j) \subseteq Below(i) /\ j \in Below(i)
    BY <1>6, <2>3
  <2>5. j \notin Below(j)
    BY <2>1
  <2>6. Below(j) \in SUBSET S /\ Below(i) \in SUBSET S
    OBVIOUS
  <2>. HIDE DEF Below
  <2>7. <<Below(j), Below(i)>> \in R
    BY <2>6, <2>4, <2>5 DEF R, StrictSubsetOrdering
  <2>. QED  BY <1>4, <1>5, <2>2, <2>7
<1>. QED  BY <1>6

LEMMA SelectsWanted ==
    ASSUME NEW r \in Paid, wants[r] = Unsaid, config \in Configs
    PROVE  \E id \in ToSet(Wanted(r)) : Selects(r, id)
<1>1. Wanted(r) = <<"receipt", "free">>
  BY DEF Wanted
<1>2. "free" \in ToSet(Wanted(r))
  BY <1>1 DEF ToSet
<1>3. CASE Matching(r) = {}
  BY <1>2, <1>3 DEF Selects
<1>4. CASE Matching(r) # {}
  <2>1. Matching(r) \subseteq Nat
    BY ReceiptsAssumption DEF Matching, Ready
  <2>2. PICK i \in Matching(r) : \A j \in Matching(r) : i <= j
    BY <1>4, <2>1, SmallestExists
  <2>3. config[i].id \in ToSet(Wanted(r)) /\ Selects(r, config[i].id)
    BY <2>2 DEF Matching, Selects
  <2>. QED  BY <2>3
<1>. QED  BY <1>3, <1>4

\* The default accepts only what locks nothing.
LEMMA DefaultLocksNothing ==
    ASSUME NEW r \in Paid, wants[r] = Unsaid, NEW id \in ToSet(Wanted(r))
    PROVE  id \in {"receipt", "free"}
  BY DEF Wanted, ToSet

LEMMA Entries == \A S : \A s \in Seq(S) : \A i \in DOMAIN s : s[i] \in S
  OBVIOUS

LEMMA SelectedIsKnown ==
    ASSUME NEW r \in Paid, config \in Configs, NEW id, Selects(r, id)
    PROVE  id \in AdapterIds
<1>. DEFINE Entry == [id : AdapterIds, complete : BOOLEAN]
<1>1. \A i \in DOMAIN config : config[i] \in Entry
  <2>1. config \in Seq(Entry)
    BY ReceiptsAssumption
  <2>. HIDE DEF Entry
  <2>. QED  BY <2>1, Entries
<1>2. \A i \in Matching(r) : config[i].id \in AdapterIds
  <2>1. \A e \in Entry : e.id \in AdapterIds
    OBVIOUS
  <2>. HIDE DEF Entry
  <2>. QED  BY <1>1, <2>1 DEF Matching, Ready
<1>3. "free" \in AdapterIds
  BY DEF AdapterIds
<1>. QED  BY <1>2, <1>3 DEF Selects

-----------------------------------------------------------------------------
(* The log.                                                                *)

LEMMA LogGrows ==
    ASSUME NEW s \in Seq(Paid), NEW r \in Paid
    PROVE  /\ Append(s, r) \in Seq(Paid)
           /\ ToSet(Append(s, r)) = ToSet(s) \union {r}
           /\ r \notin ToSet(s) /\ (\A i, j \in DOMAIN s : s[i] = s[j] => i = j)
              => \A i, j \in DOMAIN Append(s, r) : Append(s, r)[i] = Append(s, r)[j] => i = j
<1>1. /\ Append(s, r) \in Seq(Paid) /\ Len(s) \in Nat /\ DOMAIN s = 1..Len(s)
      /\ DOMAIN Append(s, r) = 1..(Len(s) + 1)
      /\ Append(s, r)[Len(s) + 1] = r
      /\ \A i \in 1..Len(s) : Append(s, r)[i] = s[i]
  OBVIOUS
<1>2. \A i \in 1..(Len(s) + 1) : i \in 1..Len(s) \/ i = Len(s) + 1
  BY <1>1
<1>3. \A i \in 1..Len(s) : i \in 1..(Len(s) + 1)
  BY <1>1
<1>4. Len(s) + 1 \in 1..(Len(s) + 1)
  BY <1>1
<1>5. ToSet(Append(s, r)) = ToSet(s) \union {r}
  BY <1>1, <1>2, <1>3, <1>4 DEF ToSet
<1>6. ASSUME r \notin ToSet(s), \A i, j \in DOMAIN s : s[i] = s[j] => i = j
      PROVE  \A i, j \in DOMAIN Append(s, r) : Append(s, r)[i] = Append(s, r)[j] => i = j
  <2>1. \A i \in 1..Len(s) : s[i] # r
    BY <1>1, <1>6 DEF ToSet
  <2>. QED  BY <1>1, <1>2, <1>6, <2>1
<1>. QED  BY <1>1, <1>5, <1>6

-----------------------------------------------------------------------------
(* A step is of one request.                                               *)

LEMMA OthersGoOn ==
    ASSUME ReceiptInv, UNCHANGED <<config, wants>>, NEW u \in Paid,
           stage'[u] = stage[u], proofOf'[u] = proofOf[u], intent'[u] = intent[u],
           lockTx'[u] = lockTx[u], releaseTx'[u] = releaseTx[u], payFaults'[u] = payFaults[u],
           u \in ToSet(receipts)' <=> u \in ToSet(receipts)
    PROVE  HandlerInv(u)'
<1>1. Wanted(u)' = Wanted(u) /\ wants'[u] = wants[u]
  BY DEF Wanted
<1>2. HandlerInv(u)
  BY DEF ReceiptInv
<1>3. BeforeSettling(u)' /\ InTheLog(u)'
  BY <1>2 DEF HandlerInv, BeforeSettling, InTheLog
<1>4. WhileLocking(u)'
  BY <1>1, <1>2 DEF HandlerInv, WhileLocking
<1>5. OnceSigned(u)'
  BY <1>1, <1>2 DEF HandlerInv, OnceSigned
<1>6. OnceAnswered(u)'
  BY <1>1, <1>2 DEF HandlerInv, OnceAnswered, Names
<1>. QED  BY <1>3, <1>4, <1>5, <1>6 DEF HandlerInv

HandlerTypes ==
    /\ stage \in [Paid -> Stages]
    /\ proofOf \in [Paid -> SignedReceipts \union {NoReceipt}]
    /\ intent \in [Paid -> {"none", "created", "confirmed"}]
    /\ lockTx \in [Paid -> Fates] /\ releaseTx \in [Paid -> Fates]
    /\ payFaults \in [Paid -> Nat]

OthersRest(r) ==
    \A u \in Paid \ {r} :
        /\ stage'[u] = stage[u] /\ proofOf'[u] = proofOf[u] /\ intent'[u] = intent[u]
        /\ lockTx'[u] = lockTx[u] /\ releaseTx'[u] = releaseTx[u] /\ payFaults'[u] = payFaults[u]

\* A call of the request failed, or none did.
Counted(r) == UNCHANGED payFaults \/ payFaults' = [payFaults EXCEPT ![r] = @ + 1]

LEMMA OneGoesOn ==
    ASSUME ReceiptInv, NEW r \in Paid, UNCHANGED <<config, wants>>, HandlerTypes', OthersRest(r),
           \/ receipts' = receipts
           \/ receipts' = Append(receipts, r) /\ r \notin ToSet(receipts),
           HandlerInv(r)'
    PROVE  ReceiptInv'
<1>1. ReceiptTypes /\ receipts \in Seq(Paid) /\ LoggedOnce
  BY DEF ReceiptInv, ReceiptTypes
<1>3. /\ receipts' \in Seq(Paid) /\ LoggedOnce'
      /\ ToSet(receipts)' = ToSet(receipts) \/ ToSet(receipts)' = ToSet(receipts) \union {r}
  <2>1. CASE receipts' = receipts
    BY <1>1, <2>1 DEF LoggedOnce
  <2>2. CASE receipts' = Append(receipts, r) /\ r \notin ToSet(receipts)
    <3>1. ToSet(receipts)' = ToSet(Append(receipts, r))
      BY <2>2
    <3>2. /\ Append(receipts, r) \in Seq(Paid)
          /\ ToSet(Append(receipts, r)) = ToSet(receipts) \union {r}
          /\ \A i, j \in DOMAIN Append(receipts, r) : Append(receipts, r)[i] = Append(receipts, r)[j] => i = j
      BY <1>1, <2>2, LogGrows DEF LoggedOnce
    <3>. QED  BY <2>2, <3>1, <3>2 DEF LoggedOnce
  <2>. QED  BY <2>1, <2>2
<1>4. \A u \in Paid \ {r} : u \in ToSet(receipts)' <=> u \in ToSet(receipts)
  BY <1>3
<1>5. ReceiptTypes'
  BY <1>1, <1>3 DEF ReceiptTypes, HandlerTypes
<1>6. \A u \in Paid \ {r} : HandlerInv(u)'
  BY <1>4, OthersGoOn DEF OthersRest
<1>. QED  BY <1>3, <1>5, <1>6 DEF ReceiptInv

LEMMA AsBefore ==
    ASSUME ReceiptInv, NEW r \in Paid
    PROVE  HandlerTypes /\ payFaults[r] \in Nat /\ HandlerInv(r) /\ config \in Configs
  BY DEF ReceiptInv, ReceiptTypes, HandlerTypes

LEMMA CountKept ==
    ASSUME ReceiptInv, NEW r \in Paid, Counted(r)
    PROVE  payFaults' \in [Paid -> Nat] /\ \A u \in Paid \ {r} : payFaults'[u] = payFaults[u]
<1>1. payFaults \in [Paid -> Nat]
  BY DEF ReceiptInv, ReceiptTypes
<1>2. CASE UNCHANGED payFaults
  BY <1>1, <1>2
<1>3. CASE payFaults' = [payFaults EXCEPT ![r] = @ + 1]
  BY <1>1, <1>3
<1>. QED  BY <1>2, <1>3 DEF Counted

\* The handler goes on, and nothing else.
LEMMA StageMoves ==
    ASSUME ReceiptInv, NEW r \in Paid, NEW st \in Stages, stage' = [stage EXCEPT ![r] = st],
           UNCHANGED <<proofOf, intent, lockTx, releaseTx>>, Counted(r)
    PROVE  HandlerTypes' /\ OthersRest(r) /\ stage'[r] = st
  BY CountKept DEF ReceiptInv, ReceiptTypes, HandlerTypes, OthersRest

\* The handler goes on with a receipt.
LEMMA ProofMoves ==
    ASSUME ReceiptInv, NEW r \in Paid, NEW st \in Stages, stage' = [stage EXCEPT ![r] = st],
           NEW p \in SignedReceipts, proofOf' = [proofOf EXCEPT ![r] = p],
           UNCHANGED <<intent, lockTx, releaseTx>>, Counted(r)
    PROVE  HandlerTypes' /\ OthersRest(r) /\ stage'[r] = st /\ proofOf'[r] = p
  BY CountKept DEF ReceiptInv, ReceiptTypes, HandlerTypes, OthersRest

LEMMA ReceiptIsSigned ==
    ASSUME NEW id \in AdapterIds, NEW hash \in Paid \union {NoTx, MadeUp}
    PROVE  LET receipt == [adapter |-> id, tx |-> hash]
           IN  receipt \in SignedReceipts /\ receipt # NoReceipt /\ receipt.adapter = id /\ receipt.tx = hash
  BY ReceiptsAssumption DEF SignedReceipts

-----------------------------------------------------------------------------
(* The actions.                                                            *)

LEMMA BeginSteps ==
    ASSUME ReceiptInv, NEW r \in Paid, BadRequest(r) \/ Decrypt(r) \/ EngineFails(r)
    PROVE  ReceiptInv'
<1>1. PICK to \in {"refused", "running"} :
         /\ stage[r] \in {"received", "running"} /\ stage' = [stage EXCEPT ![r] = to]
         /\ UNCHANGED <<config, wants, proofOf, receipts, intent, lockTx, releaseTx, payFaults>>
  BY DEF BadRequest, Decrypt, EngineFails, StageGoes
<1>2. HandlerInv(r)
  BY DEF ReceiptInv
<1>3. to \in Stages
  BY DEF Stages
<1>4. HandlerTypes' /\ OthersRest(r) /\ stage'[r] = to
  BY <1>1, <1>3, StageMoves DEF Counted
<1>5. HandlerInv(r)'
  BY <1>1, <1>2, <1>4
  DEF HandlerInv, BeforeSettling, WhileLocking, OnceSigned, InTheLog, OnceAnswered, Wanted
<1>. QED  BY <1>1, <1>4, <1>5, OneGoesOn

LEMMA LeaveSteps ==
    ASSUME ReceiptInv, NEW r \in Paid, PayerLeaves(r)
    PROVE  ReceiptInv'
<1>1. /\ stage[r] \in {"running", "paying", "locking", "releasing"} /\ stage' = [stage EXCEPT ![r] = "dropped"]
      /\ UNCHANGED <<config, wants, proofOf, receipts, intent, lockTx, releaseTx, payFaults>>
  BY DEF PayerLeaves, StageGoes
<1>2. HandlerInv(r)
  BY DEF ReceiptInv
<1>3. "dropped" \in Stages
  BY DEF Stages
<1>4. HandlerTypes' /\ OthersRest(r) /\ stage'[r] = "dropped"
  BY <1>1, <1>3, StageMoves DEF Counted
<1>5. HandlerInv(r)'
  BY <1>1, <1>2, <1>4
  DEF HandlerInv, BeforeSettling, WhileLocking, OnceSigned, InTheLog, OnceAnswered, Wanted
<1>. QED  BY <1>1, <1>4, <1>5, OneGoesOn

\* No adapter that the client accepts, one that locks nothing, or one that does.
LEMMA AnswerSteps ==
    ASSUME ReceiptInv, NEW r \in Paid, EngineAnswers(r)
    PROVE  ReceiptInv'
<1>. DEFINE selected == {id \in ToSet(Wanted(r)) : Selects(r, id)}
<1>1. stage[r] = "running" /\ UNCHANGED <<config, wants, receipts, intent, lockTx, releaseTx, payFaults>>
  BY DEF EngineAnswers
<1>2. HandlerInv(r) /\ config \in Configs /\ Wanted(r)' = Wanted(r)
  BY <1>1, AsBefore DEF Wanted
<1>3. proofOf[r] = NoReceipt /\ intent[r] = "none" /\ lockTx[r] = "none" /\ r \notin ToSet(receipts)
  BY <1>1, <1>2 DEF HandlerInv, BeforeSettling, InTheLog
<1>4. CASE selected = {} /\ stage' = [stage EXCEPT ![r] = "answered"] /\ UNCHANGED proofOf
  <2>1. wants[r] # Unsaid
    BY <1>2, <1>4, SelectsWanted
  <2>2. "answered" \in Stages
    BY DEF Stages
  <2>3. HandlerTypes' /\ OthersRest(r) /\ stage'[r] = "answered"
    BY <1>1, <1>4, <2>2, StageMoves DEF Counted
  <2>4. HandlerInv(r)'
    BY <1>1, <1>3, <1>4, <2>1, <2>3
    DEF HandlerInv, BeforeSettling, WhileLocking, OnceSigned, InTheLog, OnceAnswered
  <2>. QED  BY <1>1, <2>3, <2>4, OneGoesOn
<1>5. ASSUME NEW id \in selected, stage' = [stage EXCEPT ![r] = AfterAnswer(id)],
             IF AfterAnswer(id) = "releasing" THEN Sign(r, id, NoTx) ELSE UNCHANGED proofOf
      PROVE  ReceiptInv'
  <2>1. id \in AdapterIds /\ id \in ToSet(Wanted(r))
    BY <1>2, SelectedIsKnown
  <2>2. CASE id \in {"free", "receipt"}
    <3>. DEFINE receipt == [adapter |-> id, tx |-> NoTx]
    <3>1. AfterAnswer(id) = "releasing"
      BY <2>2 DEF AfterAnswer
    <3>2. receipt \in SignedReceipts /\ receipt # NoReceipt /\ receipt.adapter = id /\ receipt.tx = NoTx
      BY <2>1, ReceiptIsSigned
    <3>3. proofOf' = [proofOf EXCEPT ![r] = receipt]
      BY <1>5, <3>1 DEF Sign
    <3>. HIDE DEF receipt
    <3>4. "releasing" \in Stages
      BY DEF Stages
    <3>5. HandlerTypes' /\ OthersRest(r) /\ stage'[r] = "releasing" /\ proofOf'[r] = receipt
      BY <1>1, <1>5, <3>1, <3>2, <3>3, <3>4, ProofMoves DEF Counted
    <3>6. HandlerInv(r)'
      BY <1>1, <1>2, <1>3, <2>1, <3>2, <3>5, ReceiptsAssumption
      DEF HandlerInv, BeforeSettling, WhileLocking, OnceSigned, InTheLog, OnceAnswered
    <3>. QED  BY <1>1, <3>5, <3>6, OneGoesOn
  <2>3. CASE id \in {"arc-gateway", "chain"}
    <3>1. /\ AfterAnswer(id) = IF id = "chain" THEN "locking" ELSE "paying"
          /\ AfterAnswer(id) # "releasing" /\ AfterAnswer(id) \in Stages
      BY <2>3 DEF AfterAnswer, Stages
    <3>2. UNCHANGED proofOf
      BY <1>5, <3>1
    <3>3. HandlerTypes' /\ OthersRest(r) /\ stage'[r] = AfterAnswer(id)
      BY <1>1, <1>5, <3>1, <3>2, StageMoves DEF Counted
    <3>4. HandlerInv(r)'
      BY <1>1, <1>2, <1>3, <2>1, <2>3, <3>1, <3>2, <3>3
      DEF HandlerInv, BeforeSettling, WhileLocking, OnceSigned, InTheLog, OnceAnswered
    <3>. QED  BY <1>1, <3>3, <3>4, OneGoesOn
  <2>. QED  BY <2>1, <2>2, <2>3 DEF AdapterIds
<1>. QED  BY <1>4, <1>5 DEF EngineAnswers, StageGoes

\* The log gets an entry with the receipt adapter only, and one.
LEMMA ReleaseSteps ==
    ASSUME ReceiptInv, NEW r \in Paid, ReleaseOffChain(r)
    PROVE  ReceiptInv'
<1>1. /\ stage[r] = "releasing" /\ proofOf[r].adapter \in {"free", "receipt"}
      /\ stage' = [stage EXCEPT ![r] = "answered"]
      /\ receipts' = IF proofOf[r].adapter = "receipt" THEN Append(receipts, r) ELSE receipts
      /\ UNCHANGED <<config, wants, proofOf, intent, lockTx, releaseTx, payFaults>>
  BY DEF ReleaseOffChain, StageGoes
<1>2. HandlerInv(r) /\ Wanted(r)' = Wanted(r) /\ receipts \in Seq(Paid)
  BY <1>1 DEF ReceiptInv, ReceiptTypes, Wanted
<1>3. r \notin ToSet(receipts) /\ proofOf[r] # NoReceipt /\ intent[r] = "none" /\ lockTx[r] = "none"
  BY <1>1, <1>2 DEF HandlerInv, OnceSigned, InTheLog
<1>4. "answered" \in Stages
  BY DEF Stages
<1>5. HandlerTypes' /\ OthersRest(r) /\ stage'[r] = "answered"
  BY <1>1, <1>4, StageMoves DEF Counted
<1>6. r \in ToSet(receipts)' <=> proofOf[r].adapter = "receipt"
  <2>1. ToSet(Append(receipts, r)) = ToSet(receipts) \union {r}
    BY <1>2, LogGrows
  <2>. QED  BY <1>1, <1>3, <2>1
<1>7. HandlerInv(r)'
  BY <1>1, <1>2, <1>3, <1>5, <1>6
  DEF HandlerInv, BeforeSettling, WhileLocking, OnceSigned, InTheLog, OnceAnswered
<1>. QED  BY <1>1, <1>3, <1>5, <1>7, OneGoesOn

LEMMA CircleSteps ==
    ASSUME ReceiptInv, NEW r \in Paid, CircleCreates(r) \/ CircleConfirms(r)
    PROVE  ReceiptInv'
<1>1. UNCHANGED <<config, wants, stage, proofOf, receipts, lockTx, releaseTx, payFaults>>
  BY DEF CircleCreates, CircleConfirms
<1>2. HandlerInv(r) /\ Wanted(r)' = Wanted(r) /\ NoTx \notin Paid
  BY <1>1, ReceiptsAssumption DEF ReceiptInv, Wanted
<1>3. HandlerTypes' /\ OthersRest(r)
  BY <1>1 DEF CircleCreates, CircleConfirms, ReceiptInv, ReceiptTypes, HandlerTypes, OthersRest
<1>4. CASE CircleCreates(r)
  <2>1. stage[r] = "paying" /\ intent'[r] = "created"
    BY <1>4 DEF CircleCreates, ReceiptInv, ReceiptTypes
  <2>2. HandlerInv(r)'
    BY <1>1, <1>2, <2>1
    DEF HandlerInv, BeforeSettling, WhileLocking, OnceSigned, InTheLog, OnceAnswered
  <2>. QED  BY <1>1, <1>3, <2>2, OneGoesOn
<1>5. CASE CircleConfirms(r)
  <2>1. stage[r] = "releasing" /\ proofOf[r].tx = r /\ intent[r] = "created" /\ intent'[r] = "confirmed"
    BY <1>5 DEF CircleConfirms, ReceiptInv, ReceiptTypes
  <2>2. HandlerInv(r)'
    BY <1>1, <1>2, <2>1
    DEF HandlerInv, BeforeSettling, WhileLocking, OnceSigned, InTheLog, OnceAnswered
  <2>. QED  BY <1>1, <1>3, <2>2, OneGoesOn
<1>. QED  BY <1>4, <1>5

\* A receipt with the payment, with a name for it that is made up, or without it
\* after a call that failed.
LEMMA PaymentSteps ==
    ASSUME ReceiptInv, NEW r \in Paid, PaymentMade(r)
    PROVE  ReceiptInv'
<1>1. PICK hash \in {r, NoTx, MadeUp} :
         /\ hash = NoTx => payFaults' = [payFaults EXCEPT ![r] = @ + 1]
         /\ proofOf' = [proofOf EXCEPT ![r] = [adapter |-> "arc-gateway", tx |-> hash]]
         /\ hash = r => intent[r] = "created"
         /\ Counted(r)
  <2>1. NoTx # r /\ MadeUp # r /\ NoTx # MadeUp
    BY ReceiptsAssumption
  <2>2. CASE intent[r] = "created" /\ Sign(r, "arc-gateway", r) /\ UNCHANGED payFaults
    BY <2>1, <2>2 DEF Sign, Counted
  <2>3. CASE Sign(r, "arc-gateway", MadeUp) /\ UNCHANGED payFaults
    BY <2>1, <2>3 DEF Sign, Counted
  <2>4. CASE PayFault(r) /\ Sign(r, "arc-gateway", NoTx)
    BY <2>1, <2>4 DEF Sign, PayFault, Counted
  <2>. QED  BY <2>2, <2>3, <2>4 DEF PaymentMade
<1>2. /\ stage[r] = "paying" /\ stage' = [stage EXCEPT ![r] = "releasing"]
      /\ UNCHANGED <<config, wants, receipts, intent, lockTx, releaseTx>>
  BY DEF PaymentMade, StageGoes
<1>. DEFINE receipt == [adapter |-> "arc-gateway", tx |-> hash]
<1>3. /\ receipt \in SignedReceipts /\ receipt # NoReceipt
      /\ receipt.adapter = "arc-gateway" /\ receipt.tx = hash
  BY ReceiptIsSigned DEF AdapterIds
<1>4. proofOf' = [proofOf EXCEPT ![r] = receipt]
  BY <1>1
<1>. HIDE DEF receipt
<1>5. HandlerInv(r) /\ Wanted(r)' = Wanted(r) /\ payFaults \in [Paid -> Nat]
  BY <1>2 DEF ReceiptInv, ReceiptTypes, Wanted
<1>6. "releasing" \in Stages
  BY DEF Stages
<1>7. HandlerTypes' /\ OthersRest(r) /\ stage'[r] = "releasing" /\ proofOf'[r] = receipt
  BY <1>1, <1>2, <1>3, <1>4, <1>6, ProofMoves
<1>8. /\ r \notin ToSet(receipts) /\ lockTx[r] = "none" /\ intent[r] # "confirmed"
      /\ "arc-gateway" \in ToSet(Wanted(r))
  BY <1>2, <1>5 DEF HandlerInv, WhileLocking, InTheLog
<1>9. hash = NoTx => payFaults'[r] > 0
  BY <1>1, <1>5
<1>10. HandlerInv(r)'
  BY <1>1, <1>2, <1>3, <1>5, <1>7, <1>8, <1>9
  DEF HandlerInv, BeforeSettling, WhileLocking, OnceSigned, InTheLog, OnceAnswered
<1>. QED  BY <1>2, <1>7, <1>10, OneGoesOn

LEMMA ConfirmSteps ==
    ASSUME ReceiptInv, NEW r \in Paid, PaymentConfirmed(r) \/ ReleaseAnswered(r)
    PROVE  ReceiptInv'
<1>1. /\ stage[r] = "releasing" /\ stage' = [stage EXCEPT ![r] = "answered"]
      /\ UNCHANGED <<config, wants, proofOf, receipts, intent, lockTx, releaseTx>>
      /\ Counted(r)
      /\ \/ /\ proofOf[r].adapter = "arc-gateway"
            /\ proofOf[r].tx \in {NoTx, MadeUp} \/ intent[r] = "confirmed"
         \/ proofOf[r].adapter = "chain" /\ releaseTx[r] # "none"
         \/ proofOf[r].adapter # "receipt" /\ payFaults' = [payFaults EXCEPT ![r] = @ + 1]
  BY DEF PaymentConfirmed, ReleaseAnswered, StageGoes, PayFault, NothingToConfirm, Counted
<1>2. HandlerInv(r) /\ Wanted(r)' = Wanted(r) /\ payFaults \in [Paid -> Nat]
  BY <1>1 DEF ReceiptInv, ReceiptTypes, Wanted
<1>3. "answered" \in Stages
  BY DEF Stages
<1>4. HandlerTypes' /\ OthersRest(r) /\ stage'[r] = "answered"
  BY <1>1, <1>3, StageMoves
<1>5. payFaults' = [payFaults EXCEPT ![r] = @ + 1] \/ payFaults[r] > 0 => payFaults'[r] > 0
  BY <1>1, <1>2 DEF Counted
<1>6. r \notin ToSet(receipts) /\ proofOf[r] # NoReceipt /\ proofOf[r].adapter # "receipt"
  BY <1>1, <1>2 DEF HandlerInv, OnceSigned, InTheLog
<1>7. intent[r] = "created" \/ lockTx[r] # "none" =>
        payFaults'[r] > 0 \/ Names(r, MadeUp)' \/ releaseTx'[r] # "none"
  BY <1>1, <1>2, <1>5, <1>6 DEF HandlerInv, OnceSigned, Names
<1>8. HandlerInv(r)'
  BY <1>1, <1>2, <1>4, <1>5, <1>6, <1>7
  DEF HandlerInv, BeforeSettling, WhileLocking, OnceSigned, InTheLog, OnceAnswered
<1>. QED  BY <1>1, <1>4, <1>8, OneGoesOn

\* The endpoint takes a transaction, or the chain decides on one it has taken: what
\* was sent stays sent.
LEMMA ChainSteps ==
    ASSUME ReceiptInv, NEW r \in Paid,
           LockTaken(r) \/ ReleaseTaken(r) \/ LockSettles(r) \/ ReleaseSettles(r)
    PROVE  ReceiptInv'
<1>1. UNCHANGED <<config, wants, stage, proofOf, receipts, intent, payFaults>>
  BY DEF LockTaken, ReleaseTaken, LockSettles, ReleaseSettles
<1>2. HandlerInv(r) /\ Wanted(r)' = Wanted(r)
  BY <1>1 DEF ReceiptInv, Wanted
<1>3. HandlerTypes' /\ OthersRest(r)
  BY <1>1 DEF LockTaken, ReleaseTaken, LockSettles, ReleaseSettles, ReceiptInv, ReceiptTypes,
              HandlerTypes, OthersRest, Fates
<1>4. /\ \/ lockTx'[r] = lockTx[r]
         \/ stage[r] = "locking"
         \/ lockTx[r] # "none" /\ lockTx'[r] # "none"
      /\ \/ releaseTx'[r] = releaseTx[r]
         \/ stage[r] = "releasing"
         \/ releaseTx[r] # "none" /\ releaseTx'[r] # "none"
  BY DEF LockTaken, ReleaseTaken, LockSettles, ReleaseSettles, ReceiptInv, ReceiptTypes
<1>5. BeforeSettling(r)' /\ WhileLocking(r)' /\ InTheLog(r)'
  BY <1>1, <1>2, <1>4 DEF HandlerInv, BeforeSettling, WhileLocking, InTheLog
<1>6. OnceSigned(r)'
  BY <1>1, <1>2, <1>4 DEF HandlerInv, OnceSigned
<1>7. OnceAnswered(r)'
  BY <1>1, <1>2, <1>4 DEF HandlerInv, OnceAnswered, Names
<1>. QED  BY <1>1, <1>3, <1>5, <1>6, <1>7, OneGoesOn DEF HandlerInv

\* A lock that the endpoint has taken is in the receipt; without one there is none.
LEMMA LockSteps ==
    ASSUME ReceiptInv, NEW r \in Paid, LockAnswered(r)
    PROVE  ReceiptInv'
<1>1. stage[r] = "locking" /\ UNCHANGED <<config, wants, receipts, intent, lockTx, releaseTx>>
  BY DEF LockAnswered
<1>2. HandlerInv(r) /\ Wanted(r)' = Wanted(r) /\ payFaults \in [Paid -> Nat]
  BY <1>1 DEF ReceiptInv, ReceiptTypes, Wanted
<1>3. /\ proofOf[r] = NoReceipt /\ intent[r] = "none" /\ r \notin ToSet(receipts)
      /\ "chain" \in ToSet(Wanted(r))
  BY <1>1, <1>2 DEF HandlerInv, WhileLocking, InTheLog
<1>4. "releasing" \in Stages /\ "answered" \in Stages
  BY DEF Stages
<1>5. CASE /\ lockTx[r] # "none" /\ Sign(r, "chain", r) /\ StageGoes(r, "releasing")
           /\ UNCHANGED payFaults
  <2>. DEFINE receipt == [adapter |-> "chain", tx |-> r]
  <2>1. receipt \in SignedReceipts /\ receipt # NoReceipt /\ receipt.adapter = "chain" /\ receipt.tx = r
    BY ReceiptIsSigned DEF AdapterIds
  <2>2. proofOf' = [proofOf EXCEPT ![r] = receipt]
    BY <1>5 DEF Sign
  <2>. HIDE DEF receipt
  <2>3. HandlerTypes' /\ OthersRest(r) /\ stage'[r] = "releasing" /\ proofOf'[r] = receipt
    BY <1>1, <1>4, <1>5, <2>1, <2>2, ProofMoves DEF StageGoes, Counted
  <2>4. HandlerInv(r)'
    BY <1>1, <1>2, <1>3, <1>5, <2>1, <2>3, ReceiptsAssumption
    DEF HandlerInv, BeforeSettling, WhileLocking, OnceSigned, InTheLog, OnceAnswered
  <2>. QED  BY <1>1, <1>5, <2>3, <2>4, OneGoesOn
<1>6. CASE PayFault(r) /\ StageGoes(r, "answered") /\ UNCHANGED proofOf
  <2>1. payFaults' = [payFaults EXCEPT ![r] = @ + 1] /\ payFaults'[r] > 0
    BY <1>2, <1>6 DEF PayFault
  <2>2. HandlerTypes' /\ OthersRest(r) /\ stage'[r] = "answered"
    BY <1>1, <1>4, <1>6, <2>1, StageMoves DEF StageGoes, Counted
  <2>3. HandlerInv(r)'
    BY <1>1, <1>2, <1>3, <1>6, <2>1, <2>2
    DEF HandlerInv, BeforeSettling, WhileLocking, OnceSigned, InTheLog, OnceAnswered
  <2>. QED  BY <1>1, <2>2, <2>3, OneGoesOn
<1>. QED  BY <1>5, <1>6 DEF LockAnswered

-----------------------------------------------------------------------------
(* Every behaviour.                                                        *)

LEMMA ReceiptsBegin == ReceiptsInit => ReceiptInv
<1>. SUFFICES ASSUME ReceiptsInit PROVE ReceiptInv
  OBVIOUS
<1>1. ReceiptTypes
  BY DEF ReceiptsInit, ReceiptTypes, Stages, Fates
<1>2. ToSet(receipts) = {} /\ LoggedOnce
  BY DEF ReceiptsInit, ToSet, LoggedOnce
<1>3. \A r \in Paid : HandlerInv(r)
  BY <1>2
  DEF ReceiptsInit, HandlerInv, BeforeSettling, WhileLocking, OnceSigned, InTheLog, OnceAnswered
<1>. QED  BY <1>1, <1>2, <1>3 DEF ReceiptInv

LEMMA ReceiptsGoOn == ReceiptInv /\ [ReceiptsNext]_receiptVars => ReceiptInv'
<1>. SUFFICES ASSUME ReceiptInv, [ReceiptsNext]_receiptVars PROVE ReceiptInv'
  OBVIOUS
<1>1. CASE UNCHANGED receiptVars
  BY <1>1
  DEF receiptVars, ReceiptInv, ReceiptTypes, LoggedOnce, HandlerInv, BeforeSettling, WhileLocking,
      OnceSigned, InTheLog, OnceAnswered, Wanted, Names
<1>2. ASSUME NEW r \in Paid,
             \/ BadRequest(r) \/ Decrypt(r) \/ EngineFails(r) \/ EngineAnswers(r) \/ ReleaseOffChain(r)
             \/ CircleCreates(r) \/ PaymentMade(r) \/ CircleConfirms(r) \/ PaymentConfirmed(r)
             \/ LockTaken(r) \/ LockAnswered(r) \/ LockSettles(r)
             \/ ReleaseTaken(r) \/ ReleaseAnswered(r) \/ ReleaseSettles(r) \/ PayerLeaves(r)
      PROVE  ReceiptInv'
  BY <1>2, BeginSteps, AnswerSteps, ReleaseSteps, CircleSteps, PaymentSteps, ConfirmSteps, ChainSteps,
     LockSteps, LeaveSteps
<1>. QED  BY <1>1, <1>2 DEF ReceiptsNext

\* Whatever adapters a node is configured with and whatever its clients accept,
\* with handlers dropped at any step, services that fail, whose answers are lost or
\* have no id, and chains that do not execute what they took: a client holds a
\* receipt only of an adapter it accepts, and of a payment that was asked for, a
\* transaction that was taken or an id that was made up; the log has each job once;
\* and what is reserved and not passed on has a failed call of its own, an id that
\* was made up or a release that was taken and did not land to explain it
\* (settle_and_build_receipt, release_funds of receipt.rs and arc_gateway.rs).
THEOREM ReceiptsSayWhatWasSettled == ReceiptsSpec => []ReceiptsAreTrue
<1>1. ReceiptInv => ReceiptsAreTrue
  <2>. SUFFICES ASSUME ReceiptInv, NEW r \in Paid PROVE ReceiptIsBacked(r) /\ NothingIsStranded(r)
    BY DEF ReceiptsAreTrue, ReceiptInv
  <2>1. HandlerInv(r)
    BY DEF ReceiptInv
  <2>2. ReceiptIsBacked(r)
    BY <2>1 DEF ReceiptIsBacked, Told, Names, HandlerInv, OnceSigned, InTheLog
  <2>3. NothingIsStranded(r)
    BY <2>1 DEF NothingIsStranded, Told, HandlerInv, BeforeSettling, InTheLog, OnceAnswered
  <2>. QED  BY <2>2, <2>3
<1>. QED  BY <1>1, ReceiptsBegin, ReceiptsGoOn, PTL DEF ReceiptsSpec

-----------------------------------------------------------------------------
(* Sui: where a call is, and what it relies on.                            *)

SuiCalls == {"lock", "release", "refund", "anchor"}
SuiEnds == {"none", "receipt", "kept", "done"}
SuiPlaces == {"payment", "gas", "build", "execute", "end"}
Versions == [pay : Nat, gas : Nat]
CoinRecord == [balance : Nat, version : Nat, mine : BOOLEAN]

SuiTypes ==
    /\ call \in [SuiTasks -> SuiCalls \union SuiEnds]
    /\ at \in [SuiTasks -> SuiPlaces]
    /\ payment \in [SuiTasks -> CoinIds \union {0}]
    /\ gas \in [SuiTasks -> CoinIds \union {0}]
    /\ built \in [SuiTasks -> Versions]
    /\ coins \in [CoinIds -> CoinRecord]
    /\ sealed \in [SuiTasks -> Nat]
    /\ handle \subseteq SuiTasks /\ usedBetween \subseteq SuiTasks
    /\ suiFaults \in Nat

\* The coin is as it was when the transaction was built, and then it will do; or it
\* was used since.
GasAsBuilt(c, g, version) ==
    /\ version <= coins[g].version
    /\ version = coins[g].version => coins[g].mine /\ coins[g].balance >= GasBudget[c]

Full(t, p) == coins[p].balance >= Price \/ t \in usedBetween

PaymentAsBuilt(t, p, version) ==
    /\ version <= coins[p].version
    /\ version = coins[p].version => coins[p].mine /\ Full(t, p)

\* A task that makes call c and is at a can have chosen these coins and built with
\* these versions.
Fits(t, c, a, p, g, b) ==
    /\ a # "end" => c \in SuiCalls
    /\ c \in {"lock", "anchor"} => sealed[t] = 0
    /\ a = "payment" => c = "lock"
    /\ c \notin {"lock", "none"} => p = 0
    /\ c = "lock" /\ a # "payment" => p # 0
    /\ a \in {"build", "execute"} => g # 0
    /\ p # 0 => coins[p].balance > 0
    /\ c = "lock" /\ a \in {"gas", "build"} => Full(t, p)
    /\ a = "execute" =>
          /\ c \in {"lock", "anchor"} /\ g # p
          /\ GasAsBuilt(c, g, b.gas)
          /\ p # 0 => PaymentAsBuilt(t, p, b.pay)

TasksFit == \A t \in SuiTasks : Fits(t, call[t], at[t], payment[t], gas[t], built[t])

\* A task spends its unit when it leaves its first call.
Begun == {t \in SuiTasks : call[t] \notin {"lock", "anchor"}}
SpentInv == Spent \in 0..Cardinality(Begun)

SuiInv == SuiTypes /\ TasksFit /\ EscrowIsFull /\ HandlesAreEscrows /\ SpentInv
-----------------------------------------------------------------------------
(* Sui: what every step of a call keeps.                                   *)

LEMMA CoinsAreNumbered ==
    /\ CoinIds \subseteq Nat \ {0} /\ IsFiniteSet(CoinIds) /\ \A i \in CoinIds : Balances[i] \in Nat
    /\ \A c \in SuiCalls : GasBudget[c] \in Nat /\ GasBudget[c] >= 2
<1>1. PICK n \in Nat : Balances \in [1..n -> Nat]
  BY SuiAssumption
<1>2. IsFiniteSet(1..n)
  BY <1>1, FS_Interval
<1>3. \A c \in SuiCalls : GasBudget[c] \in Nat /\ GasBudget[c] # 0 /\ GasBudget[c] # 1
  BY SuiAssumption DEF SuiCalls
<1>. QED  BY <1>1, <1>2, <1>3 DEF CoinIds

\* pick_gas_coin answers a coin that is large enough, if there is one.
LEMMA FirstCoinIsLarge ==
    ASSUME NEW least, LargeEnough(least) # {}
    PROVE  FirstCoin(least) \in LargeEnough(least)
<1>1. LargeEnough(least) \subseteq Nat
  BY CoinsAreNumbered DEF LargeEnough
<1>2. \E i \in LargeEnough(least) : \A j \in LargeEnough(least) : i <= j
  BY <1>1, SmallestExists
<1>. QED  BY <1>2 DEF FirstCoin

\* A step of task t that leaves the chain alone, and with these calls and coins.
GoesOn(t, c, a, p, g, b) ==
    /\ c \in SuiCalls \union SuiEnds /\ (c \in {"lock", "anchor"} => c = call[t])
    /\ a \in SuiPlaces /\ p \in CoinIds \union {0} /\ g \in CoinIds \union {0} /\ b \in Versions
    /\ call' = [call EXCEPT ![t] = c] /\ at' = [at EXCEPT ![t] = a]
    /\ payment' = [payment EXCEPT ![t] = p] /\ gas' = [gas EXCEPT ![t] = g]
    /\ built' = [built EXCEPT ![t] = b]
    /\ suiFaults' \in Nat /\ suiFaults' >= suiFaults
    /\ UNCHANGED <<coins, sealed, handle, usedBetween>>

LEMMA QuietStep ==
    ASSUME SuiInv, NEW t \in SuiTasks, NEW c, NEW a, NEW p, NEW g, NEW b,
           GoesOn(t, c, a, p, g, b), Fits(t, c, a, p, g, b)
    PROVE  SuiInv'
<1>1. SuiTypes'
  BY DEF SuiInv, SuiTypes, GoesOn
<1>2. /\ call'[t] = c /\ at'[t] = a /\ payment'[t] = p /\ gas'[t] = g /\ built'[t] = b
      /\ \A u \in SuiTasks : u # t =>
            /\ call'[u] = call[u] /\ at'[u] = at[u] /\ payment'[u] = payment[u]
            /\ gas'[u] = gas[u] /\ built'[u] = built[u]
  BY DEF SuiInv, SuiTypes, GoesOn
<1>3. TasksFit'
  <2>. SUFFICES ASSUME NEW u \in SuiTasks
                PROVE  Fits(u, call[u], at[u], payment[u], gas[u], built[u])'
    BY DEF TasksFit
  <2>1. CASE u = t
    BY <1>2, <2>1 DEF GoesOn, Fits, Full, GasAsBuilt, PaymentAsBuilt
  <2>2. CASE u # t
    <3>1. Fits(u, call[u], at[u], payment[u], gas[u], built[u])
      BY DEF SuiInv, TasksFit
    <3>. QED  BY <1>2, <2>2, <3>1 DEF GoesOn, Fits, Full, GasAsBuilt, PaymentAsBuilt
  <2>. QED  BY <2>1, <2>2
<1>4. EscrowIsFull' /\ HandlesAreEscrows'
  <2>1. suiFaults' = 0 => suiFaults = 0
    BY DEF SuiInv, SuiTypes, GoesOn
  <2>. QED  BY <2>1 DEF GoesOn, SuiInv, EscrowIsFull, HandlesAreEscrows
<1>5. SpentInv'
  <2>1. Spent' = Spent
    BY DEF GoesOn, Spent, CoinBalance, WalletCoins
  <2>2. Begun \subseteq Begun' /\ Begun' \subseteq SuiTasks
    BY <1>2 DEF GoesOn, Begun
  <2>3. IsFiniteSet(Begun')
    BY <2>2, SuiAssumption, FS_Subset
  <2>4. Cardinality(Begun) \in Nat /\ Cardinality(Begun') \in Nat
        /\ Cardinality(Begun) <= Cardinality(Begun')
    BY <2>2, <2>3, FS_Subset, FS_CardinalityType
  <2>. QED  BY <2>1, <2>4 DEF SuiInv, SpentInv
<1>. QED  BY <1>1, <1>3, <1>4, <1>5 DEF SuiInv

\* What a failed call leaves behind.
LeftBehind == [lock |-> "none", release |-> "receipt", refund |-> "kept", anchor |-> "none"]

LEMMA FailingEnds ==
    ASSUME SuiTypes, NEW t \in SuiTasks, call[t] \in SuiCalls, Fails(t)
    PROVE  \E c \in SuiEnds :
              /\ call' = [call EXCEPT ![t] = c] /\ at' = [at EXCEPT ![t] = "end"]
              /\ c = "none" <=> call[t] \in {"lock", "anchor"}
<1>1. call' = [call EXCEPT ![t] = LeftBehind[call[t]]] /\ at' = [at EXCEPT ![t] = "end"]
  BY DEF Fails, LeftBehind, SuiTypes
<1>2. LeftBehind[call[t]] \in SuiEnds /\ (LeftBehind[call[t]] = "none" <=> call[t] \in {"lock", "anchor"})
  BY DEF LeftBehind, SuiCalls, SuiEnds
<1>. QED  BY <1>1, <1>2

\* A call that fails before its transaction is executed leaves what there is.
LEMMA FailsQuietly ==
    ASSUME SuiInv, NEW t \in SuiTasks, at[t] # "end", Fails(t), suiFaults' \in {suiFaults, suiFaults + 1},
           UNCHANGED <<payment, gas, built, coins, sealed, handle, usedBetween>>
    PROVE  SuiInv'
<1>1. /\ call[t] \in SuiCalls /\ Fits(t, call[t], at[t], payment[t], gas[t], built[t])
      /\ SuiTypes
  BY DEF SuiInv, TasksFit, Fits
<1>2. PICK c \in SuiEnds : /\ call' = [call EXCEPT ![t] = c] /\ at' = [at EXCEPT ![t] = "end"]
                           /\ c = "none" <=> call[t] \in {"lock", "anchor"}
  BY <1>1, FailingEnds
<1>3. Fits(t, c, "end", payment[t], gas[t], built[t])
  BY <1>1, <1>2 DEF Fits, SuiCalls, SuiEnds
<1>4. GoesOn(t, c, "end", payment[t], gas[t], built[t])
  BY <1>1, <1>2 DEF GoesOn, SuiTypes, SuiPlaces, SuiEnds
<1>. QED  BY <1>3, <1>4, QuietStep

LEMMA PickPaymentSteps ==
    ASSUME SuiInv, NEW t \in SuiTasks, PickPayment(t)
    PROVE  SuiInv'
<1>1. /\ Fits(t, call[t], at[t], payment[t], gas[t], built[t]) /\ SuiTypes
      /\ at[t] = "payment" /\ UNCHANGED <<gas, built, coins, sealed, handle, usedBetween>>
  BY DEF SuiInv, TasksFit, PickPayment
<1>2. CASE Fails(t) /\ UNCHANGED payment /\ suiFaults' \in {suiFaults, suiFaults + 1}
  BY <1>1, <1>2, FailsQuietly
<1>3. CASE /\ LargeEnough(Price) # {} /\ payment' = [payment EXCEPT ![t] = FirstCoin(Price)]
           /\ at' = [at EXCEPT ![t] = "gas"] /\ UNCHANGED <<call, suiFaults>>
  <2>1. PICK p \in LargeEnough(Price) : p = FirstCoin(Price)
    BY <1>3, FirstCoinIsLarge
  <2>2. p \in CoinIds /\ p # 0 /\ coins[p].balance >= Price /\ coins[p].balance \in Nat
    BY <2>1, <1>1, CoinsAreNumbered DEF LargeEnough, SuiTypes, CoinRecord
  <2>3. call[t] = "lock" /\ sealed[t] = 0
    BY <1>1 DEF Fits
  <2>4. Fits(t, call[t], "gas", p, gas[t], built[t])
    BY <1>1, <2>2, <2>3, SuiAssumption DEF Fits, Full, SuiCalls
  <2>5. GoesOn(t, call[t], "gas", p, gas[t], built[t])
    BY <1>1, <1>3, <2>1, <2>2 DEF GoesOn, SuiTypes, SuiPlaces
  <2>. QED  BY <2>4, <2>5, QuietStep
<1>. QED  BY <1>2, <1>3 DEF PickPayment, SuiFault

LEMMA PickGasSteps ==
    ASSUME SuiInv, NEW t \in SuiTasks, PickGas(t)
    PROVE  SuiInv'
<1>. DEFINE budget == GasBudget[call[t]]
<1>1. /\ Fits(t, call[t], at[t], payment[t], gas[t], built[t]) /\ SuiTypes
      /\ at[t] = "gas" /\ UNCHANGED <<payment, built, coins, sealed, handle, usedBetween>>
  BY DEF SuiInv, TasksFit, PickGas
<1>2. CASE Fails(t) /\ UNCHANGED gas /\ suiFaults' \in {suiFaults, suiFaults + 1}
  BY <1>1, <1>2, FailsQuietly
<1>3. CASE /\ LargeEnough(budget) # {} /\ gas' = [gas EXCEPT ![t] = FirstCoin(budget)]
           /\ at' = [at EXCEPT ![t] = "build"] /\ UNCHANGED <<call, suiFaults>>
  <2>1. PICK g \in LargeEnough(budget) : g = FirstCoin(budget)
    BY <1>3, FirstCoinIsLarge
  <2>2. g \in CoinIds /\ g # 0
    BY <2>1, CoinsAreNumbered DEF LargeEnough
  <2>3. Fits(t, call[t], "build", payment[t], g, built[t])
    BY <1>1, <2>2 DEF Fits
  <2>4. GoesOn(t, call[t], "build", payment[t], g, built[t])
    BY <1>1, <1>3, <2>1, <2>2 DEF GoesOn, SuiTypes, SuiPlaces
  <2>. QED  BY <2>3, <2>4, QuietStep
<1>. QED  BY <1>2, <1>3 DEF PickGas, SuiFault

LEMMA BuildSteps ==
    ASSUME SuiInv, NEW t \in SuiTasks, Build(t)
    PROVE  SuiInv'
<1>. DEFINE b == [pay |-> Version(payment[t]), gas |-> Version(gas[t])]
<1>1. /\ Fits(t, call[t], at[t], payment[t], gas[t], built[t]) /\ SuiTypes
      /\ at[t] = "build" /\ UNCHANGED <<payment, gas, coins, sealed, handle, usedBetween>>
  BY DEF SuiInv, TasksFit, Build
<1>2. CASE Fails(t) /\ UNCHANGED built /\ suiFaults' \in {suiFaults, suiFaults + 1}
  BY <1>1, <1>2, FailsQuietly
<1>3. CASE /\ Buildable(t) /\ built' = [built EXCEPT ![t] = b]
           /\ at' = [at EXCEPT ![t] = "execute"] /\ UNCHANGED <<call, suiFaults>>
  <2>1. /\ gas[t] \in CoinIds /\ gas[t] # 0 /\ payment[t] \in CoinIds \union {0}
        /\ coins[gas[t]] \in CoinRecord /\ (payment[t] # 0 => coins[payment[t]] \in CoinRecord)
    BY <1>1 DEF Fits, SuiTypes
  <2>2. /\ b \in Versions /\ b.gas = coins[gas[t]].version
        /\ payment[t] # 0 => b.pay = coins[payment[t]].version
    BY <2>1 DEF Version, Versions, CoinRecord
  <2>3. coins[gas[t]].version \in Nat /\ (payment[t] # 0 => coins[payment[t]].version \in Nat)
    BY <2>1 DEF CoinRecord
  <2>. HIDE DEF b
  <2>4. Fits(t, call[t], "execute", payment[t], gas[t], b)
    BY <1>1, <1>3, <2>1, <2>2, <2>3 DEF Fits, Buildable, GasAsBuilt, PaymentAsBuilt, Full
  <2>5. GoesOn(t, call[t], "execute", payment[t], gas[t], b)
    BY <1>1, <1>3, <2>2 DEF GoesOn, SuiTypes, SuiPlaces
  <2>. QED  BY <2>4, <2>5, QuietStep
<1>. QED  BY <1>2, <1>3 DEF Build, SuiFault

LEMMA ExecuteRefusedSteps ==
    ASSUME SuiInv, NEW t \in SuiTasks, ExecuteRefused(t)
    PROVE  SuiInv'
  BY FailsQuietly DEF ExecuteRefused, SuiFault

LEMMA RefundSteps ==
    ASSUME SuiInv, NEW t \in SuiTasks, RefundSui(t)
    PROVE  SuiInv'
<1>1. /\ Fits(t, call[t], at[t], payment[t], gas[t], built[t]) /\ SuiTypes /\ call[t] = "receipt"
      /\ call' = [call EXCEPT ![t] = "refund"] /\ at' = [at EXCEPT ![t] = "gas"]
      /\ UNCHANGED <<payment, gas, built, coins, sealed, handle, usedBetween, suiFaults>>
  BY DEF SuiInv, TasksFit, RefundSui
<1>2. Fits(t, "refund", "gas", payment[t], gas[t], built[t])
  BY <1>1 DEF Fits, SuiCalls
<1>3. GoesOn(t, "refund", "gas", payment[t], gas[t], built[t])
  BY <1>1 DEF GoesOn, SuiTypes, SuiPlaces, SuiCalls
<1>. QED  BY <1>2, <1>3, QuietStep

-----------------------------------------------------------------------------
(* Sui: a transaction that is executed.                                    *)

\* The coins it finds, as they were when it was built.
StillAsBuilt(t) ==
    /\ call[t] \in {"lock", "anchor"} /\ sealed[t] = 0
    /\ gas[t] \in CoinIds /\ gas[t] # 0 /\ gas[t] # payment[t]
    /\ coins[gas[t]].mine /\ coins[gas[t]].balance >= 2
    /\ payment[t] # 0 => /\ payment[t] \in CoinIds /\ coins[payment[t]].mine
                         /\ coins[payment[t]].balance > 0 /\ Full(t, payment[t])
    /\ payment[t] = 0 <=> call[t] = "anchor"

LEMMA ExecutesWhenReady ==
    ASSUME SuiInv, NEW t \in SuiTasks, at[t] = "execute", Current(t)
    PROVE  StillAsBuilt(t)
<1>1. /\ SuiTypes /\ Fits(t, call[t], at[t], payment[t], gas[t], built[t])
  BY DEF SuiInv, TasksFit
<1>2. /\ call[t] \in {"lock", "anchor"} /\ gas[t] # 0 /\ gas[t] \in CoinIds
      /\ payment[t] # 0 => payment[t] \in CoinIds
  BY <1>1 DEF Fits, SuiTypes
<1>3. /\ built[t].gas = coins[gas[t]].version
      /\ payment[t] # 0 => built[t].pay = coins[payment[t]].version
  BY <1>2 DEF Current, Version
<1>4. GasBudget[call[t]] \in Nat /\ GasBudget[call[t]] >= 2 /\ coins[gas[t]].balance \in Nat
  BY <1>1, <1>2, CoinsAreNumbered DEF SuiCalls, SuiTypes, CoinRecord
<1>5. coins[gas[t]].mine /\ coins[gas[t]].balance >= GasBudget[call[t]]
  BY <1>1, <1>3 DEF Fits, GasAsBuilt
<1>6. coins[gas[t]].balance >= 2
  BY <1>4, <1>5
<1>7. payment[t] # 0 => coins[payment[t]].mine /\ coins[payment[t]].balance > 0 /\ Full(t, payment[t])
  BY <1>1, <1>3 DEF Fits, PaymentAsBuilt
<1>8. (payment[t] = 0 <=> call[t] = "anchor") /\ gas[t] # payment[t] /\ sealed[t] = 0
  BY <1>1, <1>2 DEF Fits
<1>. QED  BY <1>2, <1>5, <1>6, <1>7, <1>8 DEF StillAsBuilt

\* One transaction, by its parts: what it does to the coins, to the escrow and to
\* the task.
Charges(t, takes) ==
    /\ coins' = Charged(t, takes) /\ takes \in BOOLEAN
    /\ takes => call[t] = "lock"
    /\ sealed' = IF takes THEN [sealed EXCEPT ![t] = coins[payment[t]].balance] ELSE sealed
    /\ usedBetween' = usedBetween \union
          {u \in SuiTasks \ {t} : at[u] \in {"gas", "build"} /\ payment[u] \in {gas[t], payment[t]} \ {0}}
    /\ payment' = [payment EXCEPT ![t] = 0] /\ gas' = [gas EXCEPT ![t] = 0] /\ UNCHANGED built

Returned(t, takes, c, a) ==
    /\ call' = [call EXCEPT ![t] = c] /\ at' = [at EXCEPT ![t] = a]
    /\ <<c, a>> = <<"release", "gas">> \/ (c \in SuiEnds /\ a = "end")
    /\ (call[t] = "lock" /\ handle' = handle \union {t}) \/ UNCHANGED handle
    /\ suiFaults' \in {suiFaults, suiFaults + 1}
    /\ suiFaults' = suiFaults =>
          /\ takes <=> call[t] = "lock"
          /\ IF call[t] = "lock" THEN handle' = handle \union {t} ELSE UNCHANGED handle

LEMMA ExecuteParts ==
    ASSUME SuiInv, NEW t \in SuiTasks, Execute(t)
    PROVE  /\ StillAsBuilt(t)
           /\ \E takes \in BOOLEAN : Charges(t, takes) /\ \E c, a : Returned(t, takes, c, a)
<1>1. StillAsBuilt(t)
  BY ExecutesWhenReady DEF Execute
<1>2. SuiTypes /\ call[t] \in {"lock", "anchor"} /\ suiFaults \in Nat
  BY <1>1 DEF StillAsBuilt, SuiInv, SuiTypes
<1>3. PICK aborts \in BOOLEAN :
          LET takes == ~aborts /\ call[t] = "lock" IN
          /\ coins' = Charged(t, takes)
          /\ sealed' = IF takes THEN [sealed EXCEPT ![t] = coins[payment[t]].balance] ELSE sealed
          /\ aborts => SuiFault
          /\ \/ Returns(t) /\ (~aborts => UNCHANGED suiFaults)
             \/ ~aborts /\ SuiFault /\ Fails(t) /\ UNCHANGED handle
  BY DEF Execute
<1>4. PICK takes \in BOOLEAN : takes = (~aborts /\ call[t] = "lock")
  OBVIOUS
<1>5. Charges(t, takes)
  BY <1>3, <1>4 DEF Charges, Execute
<1>6. suiFaults' \in {suiFaults, suiFaults + 1} /\ (aborts => suiFaults' # suiFaults)
  BY <1>2, <1>3 DEF SuiFault
<1>7. \E c, a : Returned(t, takes, c, a)
  <2>1. CASE Returns(t) /\ (~aborts => UNCHANGED suiFaults)
    <3>1. CASE call[t] = "lock"
      <4>1. Returned(t, takes, "release", "gas")
        BY <2>1, <3>1, <1>4, <1>6 DEF Returned, Returns
      <4>. QED  BY <4>1
    <3>2. CASE call[t] = "anchor"
      <4>1. call' = [call EXCEPT ![t] = "done"] /\ at' = [at EXCEPT ![t] = "end"] /\ handle' = handle
        BY <2>1, <3>2 DEF Returns
      <4>2. Returned(t, takes, "done", "end")
        BY <4>1, <3>2, <1>4, <1>6 DEF Returned, SuiEnds
      <4>. QED  BY <4>2
    <3>. QED  BY <3>1, <3>2, <1>2
  <2>2. CASE ~aborts /\ SuiFault /\ Fails(t) /\ UNCHANGED handle
    <3>1. call[t] \in SuiCalls
      BY <1>2 DEF SuiCalls
    <3>2. PICK c \in SuiEnds : call' = [call EXCEPT ![t] = c] /\ at' = [at EXCEPT ![t] = "end"]
      BY <1>2, <2>2, <3>1, FailingEnds
    <3>3. suiFaults' # suiFaults
      BY <2>2, <1>2 DEF SuiFault
    <3>4. Returned(t, takes, c, "end")
      BY <2>2, <3>2, <3>3, <1>6 DEF Returned
    <3>. QED  BY <3>4
  <2>. QED  BY <1>3, <2>1, <2>2
<1>. QED  BY <1>1, <1>5, <1>7

\* The coins after it: the gas coin a unit less, the payment coin there or not.
LEMMA CoinsMove ==
    ASSUME SuiInv, NEW t \in SuiTasks, NEW takes, StillAsBuilt(t), Charges(t, takes)
    PROVE  /\ coins' \in [CoinIds -> CoinRecord]
           /\ coins'[gas[t]].balance = coins[gas[t]].balance - 1
           /\ \A i \in CoinIds : i # gas[t] => coins'[i].balance = coins[i].balance
           /\ \A i \in CoinIds : i = payment[t] => coins'[i].mine = ~takes
           /\ \A i \in CoinIds : i # payment[t] => coins'[i].mine = coins[i].mine
           /\ \A i \in CoinIds : i \in {gas[t], payment[t]} => coins'[i].version = coins[i].version + 1
           /\ \A i \in CoinIds : i \notin {gas[t], payment[t]} => coins'[i] = coins[i]
<1>1. /\ coins \in [CoinIds -> CoinRecord] /\ gas[t] \in CoinIds /\ gas[t] # payment[t]
      /\ takes \in BOOLEAN /\ coins[gas[t]].balance >= 2 /\ coins[gas[t]].balance \in Nat
  BY DEF SuiInv, SuiTypes, StillAsBuilt, Charges, CoinRecord
<1>2. \A i \in CoinIds : coins[i].balance \in Nat /\ coins[i].version \in Nat /\ coins[i].mine \in BOOLEAN
  BY <1>1 DEF CoinRecord
<1>3. \A i \in CoinIds : coins[i] = [balance |-> coins[i].balance, version |-> coins[i].version,
                                     mine |-> coins[i].mine]
  BY <1>1 DEF CoinRecord
<1>. DEFINE B(i) == IF i = gas[t] THEN coins[i].balance - 1 ELSE coins[i].balance
            V(i) == IF i \in {gas[t], payment[t]} THEN coins[i].version + 1 ELSE coins[i].version
            M(i) == IF i = payment[t] THEN ~takes ELSE coins[i].mine
<1>4. coins' = [i \in CoinIds |-> [balance |-> B(i), version |-> V(i), mine |-> M(i)]]
  BY DEF Charges, Charged
<1>5. \A i \in CoinIds : B(i) \in Nat /\ V(i) \in Nat /\ M(i) \in BOOLEAN
  <2>. SUFFICES ASSUME NEW i \in CoinIds PROVE B(i) \in Nat /\ V(i) \in Nat /\ M(i) \in BOOLEAN
    OBVIOUS
  <2>1. coins[i].balance \in Nat /\ coins[i].version \in Nat /\ coins[i].mine \in BOOLEAN
    BY <1>2
  <2>2. B(i) \in Nat
    BY <1>1, <2>1
  <2>3. V(i) \in Nat
    BY <2>1
  <2>4. M(i) \in BOOLEAN
    BY <2>1
  <2>. QED  BY <2>2, <2>3, <2>4
<1>6. /\ B(gas[t]) = coins[gas[t]].balance - 1
      /\ \A i : i # gas[t] => B(i) = coins[i].balance
      /\ \A i : i \in {gas[t], payment[t]} => V(i) = coins[i].version + 1
      /\ \A i : i \notin {gas[t], payment[t]} => V(i) = coins[i].version
  OBVIOUS
<1>7. (\A i : i = payment[t] => M(i) = ~takes) /\ (\A i : i # payment[t] => M(i) = coins[i].mine)
  OBVIOUS
<1>. HIDE DEF B, V, M
<1>8. coins' \in [CoinIds -> CoinRecord]
  BY <1>4, <1>5 DEF CoinRecord
<1>9. \A i \in CoinIds : coins'[i].balance = B(i) /\ coins'[i].version = V(i)
  BY <1>4
<1>10. \A i \in CoinIds : coins'[i].mine = M(i)
  BY <1>4
<1>11. \A i \in CoinIds : i \notin {gas[t], payment[t]} => coins'[i] = coins[i]
  <2>. SUFFICES ASSUME NEW i \in CoinIds, i \notin {gas[t], payment[t]} PROVE coins'[i] = coins[i]
    OBVIOUS
  <2>1. B(i) = coins[i].balance /\ V(i) = coins[i].version
    BY <1>6
  <2>2. M(i) = coins[i].mine
    BY <1>7
  <2>3. coins'[i] = [balance |-> B(i), version |-> V(i), mine |-> M(i)]
    BY <1>4
  <2>. QED  BY <1>3, <2>1, <2>2, <2>3
<1>12. coins'[gas[t]].balance = coins[gas[t]].balance - 1
  BY <1>1, <1>6, <1>9
<1>13. \A i \in CoinIds : i # gas[t] => coins'[i].balance = coins[i].balance
  BY <1>6, <1>9
<1>14. \A i \in CoinIds : i \in {gas[t], payment[t]} => coins'[i].version = coins[i].version + 1
  BY <1>6, <1>9
<1>15. \A i \in CoinIds : i = payment[t] => coins'[i].mine = ~takes
  BY <1>7, <1>10
<1>16. \A i \in CoinIds : i # payment[t] => coins'[i].mine = coins[i].mine
  BY <1>7, <1>10
<1>. QED  BY <1>8, <1>11, <1>12, <1>13, <1>14, <1>15, <1>16

\* A transaction of t leaves what the others rely on.
LEMMA OthersStillFit ==
    ASSUME SuiInv, NEW t \in SuiTasks, NEW takes, StillAsBuilt(t), Charges(t, takes),
           NEW u \in SuiTasks, u # t, UNCHANGED <<call[u], at[u]>>
    PROVE  Fits(u, call[u], at[u], payment[u], gas[u], built[u])'
<1>1. /\ SuiTypes /\ Fits(u, call[u], at[u], payment[u], gas[u], built[u])
  BY DEF SuiInv, TasksFit
<1>2. /\ payment'[u] = payment[u] /\ gas'[u] = gas[u] /\ built'[u] = built[u] /\ sealed'[u] = sealed[u]
      /\ usedBetween \subseteq usedBetween'
      /\ at[u] \in {"gas", "build"} /\ payment[u] = gas[t] => u \in usedBetween'
  BY <1>1 DEF Charges, StillAsBuilt, SuiTypes
<1>3. /\ payment[u] \in CoinIds \union {0} /\ gas[u] \in CoinIds \union {0}
      /\ built[u].gas \in Nat /\ built[u].pay \in Nat
      /\ \A i \in CoinIds : coins[i].balance \in Nat /\ coins[i].version \in Nat
      /\ gas[t] \in CoinIds /\ coins[gas[t]].balance >= 2
  BY <1>1 DEF SuiTypes, CoinRecord, Versions, StillAsBuilt
<1>4. /\ coins'[gas[t]].balance = coins[gas[t]].balance - 1
      /\ \A i \in CoinIds : i # gas[t] => coins'[i].balance = coins[i].balance
      /\ \A i \in CoinIds : i \in {gas[t], payment[t]} => coins'[i].version = coins[i].version + 1
      /\ \A i \in CoinIds : i \notin {gas[t], payment[t]} => coins'[i] = coins[i]
  BY CoinsMove
<1>5. \A v \in Nat : \A i \in CoinIds : v <= coins[i].version =>
         /\ v <= coins'[i].version
         /\ v = coins'[i].version => v = coins[i].version /\ coins'[i] = coins[i]
  <2>. SUFFICES ASSUME NEW v \in Nat, NEW i \in CoinIds, v <= coins[i].version
                PROVE  /\ v <= coins'[i].version
                       /\ v = coins'[i].version => v = coins[i].version /\ coins'[i] = coins[i]
    OBVIOUS
  <2>1. CASE i \in {gas[t], payment[t]}
    BY <1>3, <1>4, <2>1
  <2>2. CASE i \notin {gas[t], payment[t]}
    BY <1>3, <1>4, <2>2
  <2>. QED  BY <2>1, <2>2
<1>6. \A i \in CoinIds : coins[i].balance > 0 => coins'[i].balance > 0
  BY <1>3, <1>4
<1>7. payment[u] # 0 /\ call[u] = "lock" /\ at[u] \in {"gas", "build"} => Full(u, payment[u])'
  BY <1>1, <1>2, <1>3, <1>4 DEF Fits, Full
<1>8. at[u] = "execute" => GasAsBuilt(call[u], gas[u], built[u].gas)'
  BY <1>1, <1>2, <1>3, <1>5 DEF Fits, GasAsBuilt
<1>9. at[u] = "execute" /\ payment[u] # 0 => PaymentAsBuilt(u, payment[u], built[u].pay)'
  BY <1>1, <1>2, <1>3, <1>5 DEF Fits, PaymentAsBuilt, Full
<1>10. payment[u] # 0 => coins'[payment[u]].balance > 0
  BY <1>1, <1>3, <1>6 DEF Fits
<1>11. UNCHANGED <<call[u], at[u], payment[u], gas[u], sealed[u]>>
  BY <1>2
<1>. QED  BY <1>1, <1>7, <1>8, <1>9, <1>10, <1>11 DEF Fits

\* What the transaction spends is one unit: what leaves the wallet with a coin is
\* in the escrow.
LEMMA OneUnitIsSpent ==
    ASSUME SuiInv, NEW t \in SuiTasks, NEW takes, StillAsBuilt(t), Charges(t, takes)
    PROVE  Spent \in Int /\ Spent' = Spent + 1
<1>. DEFINE e == gas[t]
            p == payment[t]
            W == WalletCoins
            B == CoinBalance
<1>1. /\ SuiTypes /\ e \in CoinIds /\ e # p /\ coins[e].mine /\ takes \in BOOLEAN
      /\ takes => p \in CoinIds /\ coins[p].mine
      /\ p \in CoinIds => coins[p].mine
      /\ sealed[t] = 0
  BY CoinsAreNumbered DEF SuiInv, StillAsBuilt, Charges
<1>2. /\ coins' \in [CoinIds -> CoinRecord]
      /\ coins'[e].balance = coins[e].balance - 1
      /\ \A i \in CoinIds : i # e => coins'[i].balance = coins[i].balance
      /\ \A i \in CoinIds : i = p => coins'[i].mine = ~takes
      /\ \A i \in CoinIds : i # p => coins'[i].mine = coins[i].mine
  BY CoinsMove
<1>3. e \in W /\ (takes => p \in W) /\ W \subseteq CoinIds
  BY <1>1 DEF WalletCoins
<1>4. W' = IF takes THEN W \ {p} ELSE W
  BY <1>1, <1>2 DEF WalletCoins
<1>5. /\ \A i \in CoinIds : B[i] \in Nat /\ B'[i] \in Nat
      /\ B'[e] = B[e] - 1
      /\ \A i \in CoinIds : i # e => B'[i] = B[i]
      /\ p \in CoinIds => B[p] = coins[p].balance
  BY <1>1, <1>2 DEF CoinBalance, SuiTypes, CoinRecord
<1>6. IsFiniteSet(W) /\ IsFiniteSet(CoinIds)
  BY <1>3, CoinsAreNumbered, FS_Subset
<1>. HIDE DEF W, B, e
<1>7. ASSUME NEW R, R \subseteq W, e \in R
      PROVE  SumOver(B, R) \in Nat /\ SumOver(B', R) = SumOver(B, R) - 1
  <2>1. PICK C : C = B'
    OBVIOUS
  <2>2. IsFiniteSet(R) /\ R \subseteq CoinIds
    BY <1>3, <1>6, <1>7, FS_Subset
  <2>3. Amounting(B, R)
    BY <1>5, <2>2 DEF Amounting
  <2>4. C[e] \in Nat /\ DifferAt(B, C, R, e)
    BY <1>5, <1>1, <2>1, <2>2 DEF DifferAt
  <2>5. SumOver(B, R) \in Nat
    BY <2>3, SumType
  <2>6. SumOver(C, R) = SumOver(B, R) - B[e] + C[e]
    BY <2>3, <2>4, <1>7, SumPut
  <2>7. C[e] = B[e] - 1 /\ B[e] \in Nat
    BY <1>5, <1>1, <2>1
  <2>8. SumOver(C, R) = SumOver(B, R) - 1
    BY <2>5, <2>6, <2>7
  <2>. QED  BY <2>1, <2>5, <2>8
<1>8. SumOver(Balances, CoinIds) \in Nat
  <2>1. Amounting(Balances, CoinIds)
    BY <1>6, CoinsAreNumbered DEF Amounting
  <2>. QED  BY <2>1, SumType
<1>9. Amounting(sealed, SuiTasks) /\ SumOver(sealed, SuiTasks) \in Nat
  <2>1. Amounting(sealed, SuiTasks)
    BY <1>1, SuiAssumption DEF SuiTypes, Amounting
  <2>. QED  BY <2>1, SumType
<1>10. /\ Spent = SumOver(Balances, CoinIds) - SumOver(B, W) - SumOver(sealed, SuiTasks)
       /\ Spent' = SumOver(Balances, CoinIds) - SumOver(B', W') - SumOver(sealed', SuiTasks)
  BY DEF Spent, B, W, CoinIds, SumOver, Units
<1>11. CASE takes
  <2>1. W' = W \ {p} /\ p \in W /\ e \in W \ {p} /\ p \in CoinIds
    BY <1>1, <1>3, <1>4, <1>11
  <2>2. Amounting(B, W)
    BY <1>3, <1>5, <1>6 DEF Amounting
  <2>3. SumOver(B, W \ {p}) \in Nat /\ SumOver(B, W) = SumOver(B, W \ {p}) + B[p]
    BY <2>1, <2>2, SumRemove
  <2>4. SumOver(B', W \ {p}) = SumOver(B, W \ {p}) - 1
    BY <2>1, <1>7
  <2>5. PICK s : s = sealed'
    OBVIOUS
  <2>6. s[t] = B[p] /\ B[p] \in Nat /\ DifferAt(sealed, s, SuiTasks, t)
    BY <1>1, <1>5, <1>11, <2>1, <2>5 DEF Charges, SuiTypes, DifferAt
  <2>7. s[t] \in Nat /\ DifferAt(sealed, s, SuiTasks, t)
    BY <2>6
  <2>8. SumOver(s, SuiTasks) = SumOver(sealed, SuiTasks) - sealed[t] + s[t]
    BY <1>9, <2>7, SumPut
  <2>9. SumOver(sealed', SuiTasks) = SumOver(sealed, SuiTasks) + B[p]
    BY <1>1, <1>9, <2>5, <2>6, <2>8
  <2>10. Spent' = SumOver(Balances, CoinIds) - (SumOver(B, W \ {p}) - 1) - (SumOver(sealed, SuiTasks) + B[p])
    BY <1>10, <2>1, <2>4, <2>9
  <2>. QED  BY <1>8, <1>9, <1>10, <2>3, <2>6, <2>10
<1>12. CASE ~takes
  <2>1. W' = W /\ sealed' = sealed /\ e \in W
    BY <1>3, <1>4, <1>12 DEF Charges
  <2>2. SumOver(B, W) \in Nat /\ SumOver(B', W) = SumOver(B, W) - 1
    BY <2>1, <1>7
  <2>. QED  BY <1>8, <1>9, <1>10, <2>1, <2>2
<1>. QED  BY <1>1, <1>11, <1>12

LEMMA ExecuteSteps ==
    ASSUME SuiInv, NEW t \in SuiTasks, Execute(t)
    PROVE  SuiInv'
<1>1. StillAsBuilt(t)
  BY ExecuteParts
<1>2. PICK takes \in BOOLEAN : Charges(t, takes) /\ \E c, a : Returned(t, takes, c, a)
  BY ExecuteParts
<1>3. PICK c, a : Returned(t, takes, c, a)
  BY <1>2
<1>4. /\ SuiTypes /\ TasksFit /\ EscrowIsFull /\ HandlesAreEscrows /\ SpentInv
      /\ Charges(t, takes)
  BY <1>2 DEF SuiInv
<1>5. /\ \A u \in SuiTasks : u # t => call'[u] = call[u] /\ at'[u] = at[u]
      /\ call'[t] = c /\ at'[t] = a /\ payment'[t] = 0 /\ gas'[t] = 0
      /\ c \in (SuiCalls \union SuiEnds) \ {"lock", "anchor"} /\ a \in {"gas", "end"}
      /\ <<c, a>> = <<"release", "gas">> \/ (c \in SuiEnds /\ a = "end")
  BY <1>3, <1>4 DEF Returned, Charges, SuiTypes, SuiCalls, SuiEnds
<1>6. /\ takes => /\ payment[t] \in CoinIds /\ coins[payment[t]].balance \in Nat
                  /\ coins[payment[t]].balance > 0 /\ Full(t, payment[t])
                  /\ sealed'[t] = coins[payment[t]].balance
      /\ ~takes => sealed' = sealed
      /\ \A u \in SuiTasks : u # t => sealed'[u] = sealed[u]
      /\ sealed[t] = 0 /\ sealed' \in [SuiTasks -> Nat]
  <2>1. takes => payment[t] \in CoinIds /\ coins[payment[t]].balance > 0 /\ Full(t, payment[t])
    BY <1>1, <1>4 DEF StillAsBuilt, Charges
  <2>2. takes => coins[payment[t]].balance \in Nat
    BY <2>1, <1>4 DEF SuiTypes, CoinRecord
  <2>. QED  BY <1>1, <1>4, <2>1, <2>2 DEF StillAsBuilt, Charges, SuiTypes
<1>7. SuiTypes'
  <2>1. coins' \in [CoinIds -> CoinRecord]
    BY <1>1, <1>4, CoinsMove
  <2>2. call' \in [SuiTasks -> SuiCalls \union SuiEnds] /\ at' \in [SuiTasks -> SuiPlaces]
    BY <1>3, <1>4, <1>5 DEF Returned, SuiTypes, SuiPlaces
  <2>3. suiFaults' \in Nat /\ handle' \subseteq SuiTasks
    BY <1>3, <1>4 DEF Returned, SuiTypes
  <2>4. usedBetween' \subseteq SuiTasks /\ payment' \in [SuiTasks -> CoinIds \union {0}]
        /\ gas' \in [SuiTasks -> CoinIds \union {0}] /\ built' \in [SuiTasks -> Versions]
    BY <1>4 DEF Charges, SuiTypes
  <2>. QED  BY <1>6, <2>1, <2>2, <2>3, <2>4 DEF SuiTypes, CoinIds
<1>8. TasksFit'
  <2>. SUFFICES ASSUME NEW u \in SuiTasks
                PROVE  Fits(u, call[u], at[u], payment[u], gas[u], built[u])'
    BY DEF TasksFit
  <2>1. CASE u = t
    <3>1. payment'[u] = 0 /\ call'[u] = c /\ at'[u] = a /\ c \notin {"lock", "anchor"}
          /\ a \notin {"payment", "build", "execute"} /\ (a # "end" => c \in SuiCalls)
      BY <1>5, <2>1 DEF SuiCalls
    <3>. QED  BY <3>1 DEF Fits
  <2>2. CASE u # t
    BY <1>1, <1>4, <1>5, <2>2, OthersStillFit
  <2>. QED  BY <2>1, <2>2
<1>9. EscrowIsFull'
  <2>. SUFFICES ASSUME NEW u \in SuiTasks, sealed'[u] > 0
                PROVE  sealed'[u] >= Price \/ u \in usedBetween'
    BY DEF EscrowIsFull
  <2>1. usedBetween \subseteq usedBetween'
    BY <1>4 DEF Charges
  <2>2. CASE u = t /\ takes
    BY <1>6, <2>1, <2>2 DEF Full
  <2>3. CASE sealed'[u] = sealed[u]
    BY <1>4, <2>1, <2>3 DEF EscrowIsFull
  <2>. QED  BY <1>6, <2>2, <2>3
<1>10. HandlesAreEscrows'
  <2>. SUFFICES ASSUME suiFaults' = 0, NEW u \in SuiTasks
                PROVE  sealed'[u] > 0 <=> u \in handle'
    BY DEF HandlesAreEscrows
  <2>1. suiFaults = 0 /\ suiFaults' = suiFaults
    BY <1>3, <1>4 DEF Returned, SuiTypes
  <2>2. sealed[u] > 0 <=> u \in handle
    BY <1>4, <2>1 DEF HandlesAreEscrows
  <2>3. CASE takes
    <3>1. handle' = handle \union {t}
      BY <1>3, <2>1, <2>3 DEF Returned
    <3>. QED  BY <1>6, <2>2, <2>3, <3>1
  <2>4. CASE ~takes
    <3>1. handle' = handle
      BY <1>3, <2>1, <2>4 DEF Returned
    <3>. QED  BY <1>6, <2>2, <2>4, <3>1
  <2>. QED  BY <2>3, <2>4
<1>11. SpentInv'
  <2>1. Spent' = Spent + 1 /\ Spent \in 0..Cardinality(Begun)
    BY <1>1, <1>4, OneUnitIsSpent DEF SpentInv
  <2>2. Begun' = Begun \union {t} /\ t \notin Begun /\ Begun \subseteq SuiTasks
    BY <1>1, <1>5 DEF Begun, StillAsBuilt
  <2>3. IsFiniteSet(Begun)
    BY <2>2, SuiAssumption, FS_Subset
  <2>4. Cardinality(Begun \union {t}) = Cardinality(Begun) + 1 /\ Cardinality(Begun) \in Nat
    BY <2>2, <2>3, FS_AddElement, FS_CardinalityType
  <2>. QED  BY <2>1, <2>2, <2>4 DEF SpentInv
<1>. QED  BY <1>7, <1>8, <1>9, <1>10, <1>11 DEF SuiInv

-----------------------------------------------------------------------------
(* Sui: every behaviour.                                                   *)

LEMMA SuiBegins == SuiInit => SuiInv
<1>. SUFFICES ASSUME SuiInit PROVE SuiInv
  OBVIOUS
<1>1. SuiTypes
  <2>1. coins \in [CoinIds -> CoinRecord]
    BY CoinsAreNumbered DEF SuiInit, CoinRecord
  <2>2. built \in [SuiTasks -> Versions]
    BY DEF SuiInit, Versions, Unbuilt
  <2>. QED  BY <2>1, <2>2 DEF SuiInit, SuiTypes, SuiCalls, SuiPlaces
<1>2. TasksFit
  BY DEF SuiInit, TasksFit, Fits, SuiCalls
<1>3. EscrowIsFull /\ HandlesAreEscrows
  BY DEF SuiInit, EscrowIsFull, HandlesAreEscrows
<1>4. SpentInv
  <2>1. WalletCoins = CoinIds /\ \A i \in CoinIds : CoinBalance[i] = Balances[i]
    BY DEF SuiInit, WalletCoins, CoinBalance
  <2>2. SumOver(CoinBalance, CoinIds) = SumOver(Balances, CoinIds)
    BY <2>1, SumSame
  <2>3. \A t \in SuiTasks : sealed[t] = 0
    BY DEF SuiInit
  <2>4. SumOver(sealed, SuiTasks) = 0
    BY <2>3, SumZero
  <2>5. Amounting(Balances, CoinIds)
    BY CoinsAreNumbered DEF Amounting
  <2>6. SumOver(Balances, CoinIds) \in Nat
    BY <2>5, SumType
  <2>7. Spent = 0
    BY <2>1, <2>2, <2>4, <2>6 DEF Spent
  <2>8. Begun \subseteq SuiTasks
    BY DEF Begun
  <2>9. Cardinality(Begun) \in Nat
    BY <2>8, SuiAssumption, FS_Subset, FS_CardinalityType
  <2>. QED  BY <2>7, <2>9 DEF SpentInv
<1>. QED  BY <1>1, <1>2, <1>3, <1>4 DEF SuiInv

LEMMA SuiGoesOn == SuiInv /\ [SuiNext]_suiVars => SuiInv'
<1>. SUFFICES ASSUME SuiInv, [SuiNext]_suiVars PROVE SuiInv'
  OBVIOUS
<1>1. CASE UNCHANGED suiVars
  BY <1>1
  DEF suiVars, SuiInv, SuiTypes, TasksFit, Fits, Full, GasAsBuilt, PaymentAsBuilt, EscrowIsFull,
      HandlesAreEscrows, SpentInv, Spent, CoinBalance, WalletCoins, Begun
<1>2. ASSUME NEW t \in SuiTasks,
             \/ PickPayment(t) \/ PickGas(t) \/ Build(t) \/ Execute(t) \/ ExecuteRefused(t)
             \/ RefundSui(t)
      PROVE  SuiInv'
  BY <1>2, PickPaymentSteps, PickGasSteps, BuildSteps, ExecuteSteps, ExecuteRefusedSteps, RefundSteps
<1>. QED  BY <1>1, <1>2 DEF SuiNext

\* Whatever coins the wallet has, however many settlements and anchorings use them at
\* a time, with calls that fail and answers that are lost at any point: no coin goes
\* into two escrows and what is missing from the wallet is in the escrows, but for a
\* unit of gas for each task; an escrow holds its price unless another transaction
\* came between pick_gas_coin and the build (sui.rs:240-372); and without a failure
\* there is a handle for each escrow and an escrow for each handle.
THEOREM SuiEscrowsHold == SuiSpec => []SuiEscrowsAreRight
<1>1. SuiInv => SuiEscrowsAreRight
  <2>. SUFFICES ASSUME SuiInv PROVE CoinsAreSpentOnce
    BY DEF SuiInv, SuiEscrowsAreRight
  <2>1. Begun \subseteq SuiTasks
    BY DEF Begun
  <2>2. Cardinality(Begun) <= Cardinality(SuiTasks) /\ Cardinality(SuiTasks) \in Nat
        /\ Cardinality(Begun) \in Nat
    BY <2>1, SuiAssumption, FS_Subset, FS_CardinalityType
  <2>3. Spent \in 0..Cardinality(Begun)
    BY DEF SuiInv, SpentInv
  <2>. QED  BY <2>2, <2>3 DEF CoinsAreSpentOnce
<1>. QED  BY <1>1, SuiBegins, SuiGoesOn, PTL DEF SuiSpec
=============================================================================
