------------------------ MODULE EvmSettlementProofs ------------------------
(***************************************************************************)
(* The contract implements Escrow, whoever sends which transactions to it, *)
(* for any accounts, requests, amounts and timeout; and the adapter, with  *)
(* the chain, uses the contract as it is specified.                        *)
(***************************************************************************)
EXTENDS EvmSettlement, SumTheorems, SequenceTheorems

\* An event is emitted for an escrow that is settled.
EventsInv == \A e \in events : At(e.id).settled

ContractInv == ContractTypeOK /\ EventsInv

-----------------------------------------------------------------------------
(* The contract's transactions.                                            *)

\* A transaction that names an escrow of somebody names one that was made.
LEMMA KnownEscrow ==
    ASSUME NEW id \in Nat, NEW sender \in Accounts, sender \in {At(id).node, At(id).payer}
    PROVE  id \in 1..Len(escrows) /\ At(id) = escrows[id]
  BY ContractAssumption DEF At, NoEscrow

LEMMA ContractInitInv == ContractInit => ContractInv
<1>. SUFFICES ASSUME ContractInit PROVE ContractInv
  OBVIOUS
<1>1. escrows = <<>> /\ Len(escrows) = 0 /\ <<>> \in Seq(EscrowRecord)
  BY DEF ContractInit
<1>. QED  BY <1>1, ContractAssumption DEF ContractInit, ContractInv, ContractTypeOK, EventsInv

LEMMA LockStep ==
    ASSUME ContractInv, NEW sender \in Accounts, NEW amount \in Values,
           NEW r \in Requests, NEW node \in Accounts,
           NEW n \in Nat, n = Len(escrows),
           lockEscrow(sender, amount, r, node)
    PROVE  ContractInv' /\ n + 1 \in EscrowIds /\ E!Open(n + 1, amount)
<1>. DEFINE new == [requestId |-> r, payer |-> sender, node |-> node,
                    amount |-> amount, createdAt |-> now, settled |-> FALSE]
<1>1. /\ n \in Nat /\ MaxEscrows \in Nat /\ n < MaxEscrows /\ escrows' = Append(escrows, new)
      /\ amount \in Nat \ {0} /\ events' = events /\ escrows \in Seq(EscrowRecord)
  BY ContractAssumption DEF lockEscrow, LockReverts, ContractInv, ContractTypeOK
<1>2. new \in EscrowRecord
  BY <1>1 DEF EscrowRecord, ContractInv, ContractTypeOK
<1>3. /\ escrows' \in Seq(EscrowRecord) /\ Len(escrows') = n + 1
      /\ escrows'[n + 1] = new /\ \A i \in 1..n : escrows'[i] = escrows[i]
  BY <1>1, <1>2, AppendProperties
<1>4. /\ At(n + 1) = NoEscrow /\ At(n + 1)' = new
      /\ \A i \in Nat \ {n + 1} : At(i)' = At(i)
  BY <1>1, <1>3 DEF At
<1>5. ContractTypeOK'
  <2>1. escrowByRequest' \in [Requests -> 0..MaxEscrows]
    BY <1>1 DEF lockEscrow, ContractInv, ContractTypeOK
  <2>. QED  BY <1>1, <1>3, <2>1 DEF lockEscrow, ContractInv, ContractTypeOK
<1>6. EventsInv'
  <2>1. \A e \in events : e.id \in Nat /\ e.id # n + 1
    BY <1>4 DEF ContractInv, ContractTypeOK, EventsInv, EscrowIds, NoEscrow
  <2>. QED  BY <1>1, <1>4, <2>1 DEF ContractInv, EventsInv
<1>7. /\ Phase(n + 1) = "none" /\ Phase(n + 1)' = "held" /\ Held(n + 1)' = amount
      /\ ToNode(n + 1)' = ToNode(n + 1) /\ ToClient(n + 1)' = ToClient(n + 1)
  <2>1. \A event : ~Emitted(event, n + 1)
    BY <1>4 DEF ContractInv, EventsInv, Emitted, NoEscrow
  <2>2. \A event : ~Emitted(event, n + 1)'
    BY <1>1, <2>1 DEF Emitted
  <2>3. At(n + 1)'.amount = amount /\ ~At(n + 1)'.settled
    BY <1>4
  <2>4. Phase(n + 1) = "none" /\ Phase(n + 1)' = "held"
    BY <1>1, <1>3, <2>3 DEF Phase
  <2>. QED  BY <2>1, <2>2, <2>3, <2>4 DEF Held, ToNode, ToClient
<1>8. ASSUME NEW i \in EscrowIds, i # n + 1
      PROVE  /\ Held(i)' = Held(i) /\ ToNode(i)' = ToNode(i) /\ ToClient(i)' = ToClient(i)
             /\ Phase(i)' = Phase(i)
  <2>1. i \in Nat /\ At(i)' = At(i)
    BY <1>4, <1>8 DEF EscrowIds
  <2>2. \A event : Emitted(event, i)' = Emitted(event, i)
    BY <1>1 DEF Emitted
  <2>3. Phase(i)' = Phase(i)
    BY <1>1, <1>3, <1>8, <2>1 DEF Phase
  <2>. QED  BY <2>1, <2>2, <2>3 DEF Held, ToNode, ToClient
<1>9. n + 1 \in EscrowIds
  BY <1>1 DEF EscrowIds
<1>10. E!Open(n + 1, amount)
  BY <1>7, <1>8, <1>9 DEF E!Open
<1>. QED  BY <1>5, <1>6, <1>9, <1>10 DEF ContractInv

\* A payment settles an escrow of somebody that was not settled.
LEMMA PayStep ==
    ASSUME ContractInv, NEW id \in Nat, NEW to \in Accounts,
           to \in {At(id).node, At(id).payer}, ~At(id).settled,
           NEW event \in {"EscrowReleased", "EscrowRefunded"},
           NEW amount, amount = At(id).amount,
           payOut(id, to, event)
    PROVE  /\ ContractInv' /\ id \in EscrowIds /\ Held(id) = amount /\ amount \in Nat
           /\ E!Settle(id, IF event = "EscrowReleased" THEN amount ELSE 0)
<1>1. /\ id \in 1..Len(escrows) /\ At(id) = escrows[id] /\ escrows[id] \in EscrowRecord
      /\ escrows \in Seq(EscrowRecord) /\ Len(escrows) \in Nat /\ Len(escrows) <= MaxEscrows
      /\ MaxEscrows \in Nat
  BY KnownEscrow, ElementOfSeq, ContractAssumption DEF ContractInv, ContractTypeOK
<1>2. /\ escrows' = [escrows EXCEPT ![id] = Settled(escrows[id])]
      /\ events' = events \union {[event |-> event, id |-> id]}
  BY DEF payOut
<1>3. Settled(escrows[id]) \in EscrowRecord
  BY <1>1 DEF Settled, EscrowRecord
<1>4. /\ escrows' \in Seq(EscrowRecord) /\ Len(escrows') = Len(escrows)
      /\ escrows'[id] = Settled(escrows[id])
      /\ \A i \in 1..Len(escrows) : i # id => escrows'[i] = escrows[i]
  BY <1>1, <1>2, <1>3, ExceptSeq
<1>5. /\ At(id)' = Settled(escrows[id])
      /\ \A i \in Nat : i # id => At(i)' = At(i)
  BY <1>1, <1>4 DEF At
<1>6. amount \in Nat \ {0} /\ At(id)'.amount = amount /\ At(id)'.settled
  BY <1>1, <1>5 DEF Settled, EscrowRecord
<1>7. id \in EscrowIds
  BY <1>1 DEF EscrowIds
<1>8. ContractTypeOK'
  <2>1. received' \in [Accounts -> Nat] /\ balance' \in Int
    <3>1. escrows[id].amount \in Nat /\ received \in [Accounts -> Nat] /\ balance \in Int
      BY <1>1, <1>6 DEF ContractInv, ContractTypeOK
    <3>. QED  BY <3>1 DEF payOut
  <2>2. events' \subseteq [event : {"EscrowReleased", "EscrowRefunded"}, id : EscrowIds]
    BY <1>2, <1>7 DEF ContractInv, ContractTypeOK
  <2>. QED  BY <1>1, <1>4, <2>1, <2>2 DEF payOut, ContractInv, ContractTypeOK
<1>9. EventsInv'
  <2>1. ASSUME NEW e \in events' PROVE At(e.id)'.settled
    <3>1. CASE e \in events
      <4>1. e.id \in Nat /\ At(e.id).settled
        BY <3>1 DEF ContractInv, ContractTypeOK, EventsInv, EscrowIds
      <4>. QED  BY <4>1, <1>5, <1>6
    <3>2. CASE e = [event |-> event, id |-> id]
      BY <3>2, <1>6
    <3>. QED  BY <2>1, <3>1, <3>2, <1>2
  <2>. QED  BY <2>1 DEF EventsInv
<1>10. \A ev : ~Emitted(ev, id)
  BY DEF ContractInv, EventsInv, Emitted
<1>11. \A ev : Emitted(ev, id)' <=> ev = event
  BY <1>2, <1>10 DEF Emitted
<1>12. /\ Phase(id) = "held" /\ Held(id) = amount
       /\ Phase(id)' = "paid" /\ Held(id)' = 0
       /\ ToNode(id)' = IF event = "EscrowReleased" THEN amount ELSE 0
       /\ ToClient(id)' = IF event = "EscrowReleased" THEN 0 ELSE amount
  BY <1>1, <1>4, <1>5, <1>6, <1>11 DEF Phase, Held, ToNode, ToClient
<1>13. ASSUME NEW i \in EscrowIds, i # id
       PROVE  /\ Held(i)' = Held(i) /\ ToNode(i)' = ToNode(i) /\ ToClient(i)' = ToClient(i)
              /\ Phase(i)' = Phase(i)
  <2>1. i \in Nat /\ At(i)' = At(i)
    BY <1>5, <1>13 DEF EscrowIds
  <2>2. \A ev : Emitted(ev, i)' <=> Emitted(ev, i)
    BY <1>2, <1>13 DEF Emitted
  <2>. QED  BY <1>4, <2>1, <2>2 DEF Held, ToNode, ToClient, Phase
<1>14. E!Settle(id, IF event = "EscrowReleased" THEN amount ELSE 0)
  <2>. DEFINE share == IF event = "EscrowReleased" THEN amount ELSE 0
  <2>1. /\ share \in 0..Held(id)
        /\ ToNode(id)' = share /\ ToClient(id)' = Held(id) - share
    BY <1>6, <1>12
  <2>. HIDE DEF share
  <2>2. E!Settle(id, share)
    BY <1>7, <1>12, <1>13, <2>1 DEF E!Settle
  <2>. QED  BY <2>2 DEF share
<1>. QED  BY <1>6, <1>7, <1>8, <1>9, <1>12, <1>14 DEF ContractInv

-----------------------------------------------------------------------------
(* The contract implements Escrow.                                         *)

LEMMA EscrowInit == ContractInit => E!Init
<1>. SUFFICES ASSUME ContractInit PROVE E!Init
  OBVIOUS
<1>1. \A id \in EscrowIds : At(id) = NoEscrow /\ id > Len(escrows)
  BY ContractAssumption DEF ContractInit, At, EscrowIds
<1>2. \A ev, id : ~Emitted(ev, id)
  BY DEF ContractInit, Emitted
<1>. QED  BY <1>1, <1>2 DEF E!Init, Held, ToNode, ToClient, Phase, NoEscrow

\* One transaction that does not revert.
LEMMA TransactionStep ==
    ASSUME ContractInv, NEW sender \in Accounts,
           \/ \E amount \in Values, r \in Requests, node \in Accounts :
                 lockEscrow(sender, amount, r, node)
           \/ \E id \in Nat : releaseEscrow(sender, id) \/ refundEscrow(sender, id)
    PROVE  ContractInv' /\ E!Next
<1>1. ASSUME NEW amount \in Values, NEW r \in Requests, NEW node \in Accounts,
             lockEscrow(sender, amount, r, node)
      PROVE  ContractInv' /\ E!Next
  <2>1. PICK n \in Nat : n = Len(escrows)
    BY DEF ContractInv, ContractTypeOK
  <2>2. ContractInv' /\ n + 1 \in EscrowIds /\ E!Open(n + 1, amount)
    BY <1>1, <2>1, LockStep
  <2>. QED  BY <2>2 DEF E!Next
<1>2. ASSUME NEW id \in Nat, NEW to \in Accounts,
             to \in {At(id).node, At(id).payer}, ~At(id).settled,
             NEW event \in {"EscrowReleased", "EscrowRefunded"},
             payOut(id, to, event)
      PROVE  ContractInv' /\ E!Next
  <2>1. PICK amount : amount = At(id).amount
    OBVIOUS
  <2>. DEFINE share == IF event = "EscrowReleased" THEN amount ELSE 0
  <2>2. /\ ContractInv' /\ id \in EscrowIds /\ Held(id) = amount /\ amount \in Nat
        /\ E!Settle(id, share)
    BY <1>2, <2>1, PayStep
  <2>3. share \in 0..Held(id)
    BY <2>2
  <2>. HIDE DEF share
  <2>. QED  BY <2>2, <2>3 DEF E!Next
<1>3. ASSUME NEW id \in Nat, releaseEscrow(sender, id)
      PROVE  ContractInv' /\ E!Next
  <2>1. sender \in {At(id).node, At(id).payer} /\ ~At(id).settled
    BY <1>3 DEF releaseEscrow, ReleaseReverts
  <2>2. At(id).node \in Accounts
    <3>1. id \in 1..Len(escrows) /\ At(id) = escrows[id]
      BY <2>1, KnownEscrow
    <3>2. escrows[id] \in EscrowRecord
      BY <3>1, ElementOfSeq DEF ContractInv, ContractTypeOK
    <3>. QED  BY <3>1, <3>2 DEF EscrowRecord
  <2>3. PICK to \in Accounts : to = At(id).node
    BY <2>2
  <2>. QED  BY <1>2, <1>3, <2>1, <2>3 DEF releaseEscrow
<1>4. ASSUME NEW id \in Nat, refundEscrow(sender, id)
      PROVE  ContractInv' /\ E!Next
  <2>1. sender = At(id).payer /\ ~At(id).settled
    BY <1>4 DEF refundEscrow, RefundReverts
  <2>. QED  BY <1>2, <1>4, <2>1 DEF refundEscrow
<1>. QED  BY <1>1, <1>3, <1>4

\* Nothing happens to the escrows when only the time passes, or nothing does.
LEMMA EscrowsKept ==
    ASSUME ContractInv, AdvanceTime \/ UNCHANGED contractVars
    PROVE  ContractInv' /\ UNCHANGED E!escrowVars
<1>1. UNCHANGED <<escrows, escrowByRequest, balance, received, events>> /\ now' \in 0..MaxTime
  BY ContractAssumption DEF AdvanceTime, contractVars, ContractInv, ContractTypeOK
<1>. QED  BY <1>1 DEF ContractInv, ContractTypeOK, EventsInv, At, Emitted,
                     E!escrowVars, Held, ToNode, ToClient, Phase

LEMMA ContractStep ==
    ASSUME ContractInv, [ContractNext]_contractVars
    PROVE  ContractInv' /\ [E!Next]_E!escrowVars
<1>1. CASE AdvanceTime \/ UNCHANGED contractVars
  BY <1>1, EscrowsKept
<1>2. ASSUME NEW sender \in Accounts, Transaction(sender)
      PROVE  ContractInv' /\ E!Next
  <2>1. EscrowIds \subseteq Nat
    BY DEF EscrowIds
  <2>. QED  BY <1>2, <2>1, TransactionStep DEF Transaction
<1>. QED  BY <1>1, <1>2 DEF ContractNext

\* Whatever accounts do with it, the contract is an escrow.
THEOREM ContractIsEscrow == ContractSpec => EscrowSpec
<1>1. ContractInv /\ [ContractNext]_contractVars => ContractInv' /\ [E!Next]_E!escrowVars
  BY ContractStep
<1>. QED  BY <1>1, ContractInitInv, EscrowInit, PTL DEF ContractSpec, EscrowSpec, E!Spec

-----------------------------------------------------------------------------
(* The adapter and the chain: types, and what they do to the contract.     *)

AdapterInv == TypeOK /\ EventsInv /\ IsFiniteSet(pool)

LEMMA AdapterInit == Init => AdapterInv
<1>. SUFFICES ASSUME Init PROVE AdapterInv
  OBVIOUS
<1>1. ContractTypeOK /\ EventsInv
  BY ContractInitInv DEF Init, ContractInv
<1>2. IsFiniteSet(pool)
  BY FS_EmptySet DEF Init
<1>3. <<>> \in Seq(AllTxs)
  OBVIOUS
<1>. QED  BY <1>1, <1>2, <1>3, AdapterAssumption DEF Init, AdapterInv, TypeOK

LEMMA PendingNonceType == AdapterInv => PendingNonce \in Nat
<1>. SUFFICES ASSUME AdapterInv PROVE PendingNonce \in Nat
  OBVIOUS
<1>1. Cardinality(pool) \in Nat /\ Len(mined) \in Nat
  BY FS_CardinalityType DEF AdapterInv, TypeOK
<1>. QED  BY <1>1 DEF PendingNonce

\* A task sends the transaction of its step, which replaces at most one.
LEMMA PoolStep ==
    ASSUME AdapterInv, NEW t \in Tasks, NEW step \in Steps, NEW gone,
           pool' = (pool \ {gone}) \union {Tx(t, step)}
    PROVE  pool' \subseteq AllTxs /\ IsFiniteSet(pool')
<1>1. nonce[t][step] \in Nat
  BY DEF AdapterInv, TypeOK
<1>2. Tx(t, step) \in AllTxs
  BY <1>1 DEF Tx, AllTxs
<1>3. IsFiniteSet(pool \ {gone})
  BY FS_RemoveElement DEF AdapterInv
<1>4. IsFiniteSet((pool \ {gone}) \union {Tx(t, step)})
  BY <1>3, FS_AddElement
<1>. QED  BY <1>2, <1>4 DEF AdapterInv, TypeOK

\* A step of a task leaves the contract alone.
LEMMA TaskStep ==
    ASSUME AdapterInv, NEW t \in Tasks,
           Settle(t) \/ Register(t) \/ Work(t) \/ RpcFails(t) \/ Drop(t)
    PROVE  AdapterInv' /\ UNCHANGED contractVars
<1>1. Step(pc[t]) \in Steps
  BY DEF Step, Steps
<1>2. UNCHANGED contractVars /\ mined' = mined
  BY DEF Settle, Register, Work, get_nonce, SendAccepted, SendRefused, SendReplaces, RpcFails, Drop
<1>3. ContractTypeOK' /\ EventsInv'
  BY <1>2 DEF AdapterInv, TypeOK, contractVars, ContractTypeOK, EventsInv, At
<1>4. CASE Settle(t)
  <2>1. value' \in [Tasks -> Values \union {0}]
    BY <1>4 DEF Settle, AdapterInv, TypeOK
  <2>. QED  BY <1>2, <1>3, <1>4, <2>1 DEF Settle, Goto, Working, Steps, Sending, AdapterInv, TypeOK
<1>5. CASE get_nonce(t)
  <2>1. nonce' \in [Tasks -> [Steps -> Nat]]
    BY <1>5, PendingNonceType DEF get_nonce, AdapterInv, TypeOK
  <2>. QED  BY <1>2, <1>3, <1>5, <2>1 DEF get_nonce, Send, Goto, Working, Steps, Sending, AdapterInv, TypeOK
<1>6. CASE SendAccepted(t)
  <2>1. pool' = (pool \ {Tx(t, Step(pc[t]))}) \union {Tx(t, Step(pc[t]))}
    BY <1>6 DEF SendAccepted
  <2>2. pool' \subseteq AllTxs /\ IsFiniteSet(pool')
    BY <1>1, <2>1, PoolStep
  <2>3. faults' \in 0..MaxFaults
    BY <1>6, AdapterAssumption DEF SendAccepted, Fault, AdapterInv, TypeOK
  <2>4. pc' \in [Tasks -> {"idle"} \union Working \union Ended]
    BY <1>6 DEF SendAccepted, Failed, Succeeded, Goto, Working, Steps, Sending, Ended, AdapterInv, TypeOK
  <2>. QED  BY <1>2, <1>3, <1>6, <2>2, <2>3, <2>4 DEF SendAccepted, AdapterInv, TypeOK
<1>7. CASE SendRefused(t)
  BY <1>2, <1>3, <1>7 DEF SendRefused, Failed, Goto, Working, Steps, Sending, Ended, AdapterInv, TypeOK
<1>8. CASE SendReplaces(t)
  <2>1. PICK tx \in pool : pool' = (pool \ {tx}) \union {Tx(t, Step(pc[t]))}
    BY <1>8 DEF SendReplaces
  <2>2. pool' \subseteq AllTxs /\ IsFiniteSet(pool')
    BY <1>1, <2>1, PoolStep
  <2>3. pc' \in [Tasks -> {"idle"} \union Working \union Ended]
    BY <1>8 DEF SendReplaces, Succeeded, Goto, Working, Steps, Sending, Ended, AdapterInv, TypeOK
  <2>. QED  BY <1>2, <1>3, <1>8, <2>2, <2>3 DEF SendReplaces, AdapterInv, TypeOK
<1>9. CASE RpcFails(t)
  <2>1. faults' \in 0..MaxFaults
    BY <1>9, AdapterAssumption DEF RpcFails, Fault, AdapterInv, TypeOK
  <2>. QED  BY <1>2, <1>3, <1>9, <2>1 DEF RpcFails, Failed, Goto, Working, Steps, Sending, Ended, AdapterInv, TypeOK
<1>10. CASE Drop(t)
  <2>1. drops' \in 0..MaxDrops
    BY <1>10, AdapterAssumption DEF Drop, AdapterInv, TypeOK
  <2>. QED  BY <1>2, <1>3, <1>10, <2>1 DEF Drop, Goto, Working, Steps, Sending, Ended, AdapterInv, TypeOK
<1>11. CASE Register(t)
  BY <1>2, <1>3, <1>11 DEF Register, Goto, Working, Steps, Sending, AdapterInv, TypeOK
<1>. QED  BY <1>4, <1>5, <1>6, <1>7, <1>8, <1>9, <1>10, <1>11 DEF Work

\* What is mined is a transaction of the contract, or reverts.
LEMMA MineStep ==
    ASSUME AdapterInv, Mine
    PROVE  AdapterInv' /\ [E!Next]_E!escrowVars
<1>1. PICK tx \in pool : /\ pool' = pool \ {tx}
                         /\ mined' = Append(mined, tx)
                         /\ Execute(tx)
                         /\ UNCHANGED <<pc, value, nonce, faults, drops>>
  BY DEF Mine
<1>2. tx \in AllTxs /\ tx.task \in Tasks /\ tx.task \in Requests
  BY AdapterAssumption DEF AdapterInv, TypeOK, AllTxs
<1>3. ContractInv' /\ [E!Next]_E!escrowVars
  <2>1. ContractInv
    BY DEF AdapterInv, TypeOK, ContractInv
  <2>2. CASE UNCHANGED contractVars
    BY <2>1, <2>2, EscrowsKept
  <2>3. CASE lockEscrow(Wallet, value[tx.task], tx.task, Wallet)
    <3>1. PICK amount : amount = value[tx.task]
      OBVIOUS
    <3>2. amount \in Values \union {0}
      BY <1>2, <3>1 DEF AdapterInv, TypeOK
    <3>3. amount # 0
      BY <2>3, <3>1 DEF lockEscrow, LockReverts
    <3>4. lockEscrow(Wallet, amount, tx.task, Wallet)
      BY <2>3, <3>1
    <3>. QED  BY <1>2, <2>1, <3>2, <3>3, <3>4, AdapterAssumption, TransactionStep
  <2>4. CASE releaseEscrow(Wallet, tx_hash_to_escrow_id(tx.task))
    <3>1. tx_hash_to_escrow_id(tx.task) \in Nat
      BY ContractAssumption DEF tx_hash_to_escrow_id
    <3>. QED  BY <2>1, <2>4, <3>1, AdapterAssumption, TransactionStep
  <2>. QED  BY <1>1, <2>2, <2>3, <2>4 DEF Execute
<1>4. pool' \subseteq AllTxs /\ IsFiniteSet(pool')
  BY <1>1, FS_RemoveElement DEF AdapterInv, TypeOK
<1>5. mined' \in Seq(AllTxs)
  BY <1>1, <1>2, AppendProperties DEF AdapterInv, TypeOK
<1>. QED  BY <1>1, <1>3, <1>4, <1>5 DEF AdapterInv, TypeOK, ContractInv

LEMMA AdapterStep ==
    ASSUME AdapterInv, [Next]_vars
    PROVE  AdapterInv' /\ [E!Next]_E!escrowVars
<1>. DEFINE adapterVars == <<pc, value, nonce, pool, mined, faults, drops>>
<1>1. ContractInv
  BY DEF AdapterInv, TypeOK, ContractInv
<1>2. ASSUME NEW t \in Tasks, Settle(t) \/ Register(t) \/ Work(t) \/ RpcFails(t) \/ Drop(t)
      PROVE  AdapterInv' /\ [E!Next]_E!escrowVars
  <2>1. AdapterInv' /\ UNCHANGED contractVars
    BY <1>2, TaskStep
  <2>. QED  BY <1>1, <2>1, EscrowsKept
<1>3. CASE Mine
  BY <1>3, MineStep
<1>4. ASSUME UNCHANGED adapterVars, ContractInv'
      PROVE  AdapterInv'
  BY <1>4 DEF AdapterInv, TypeOK, ContractInv
<1>5. CASE ClientTransaction
  <2>1. EscrowIds \subseteq Nat
    BY DEF EscrowIds
  <2>2. ContractInv' /\ E!Next
    BY <1>1, <1>5, <2>1, AdapterAssumption, TransactionStep DEF ClientTransaction, Transaction
  <2>. QED  BY <1>4, <1>5, <2>2 DEF ClientTransaction
<1>6. CASE NextBlock \/ UNCHANGED vars
  <2>1. (AdvanceTime \/ UNCHANGED contractVars) /\ UNCHANGED adapterVars
    BY <1>6 DEF NextBlock, vars, contractVars
  <2>2. ContractInv' /\ UNCHANGED E!escrowVars
    BY <1>1, <2>1, EscrowsKept
  <2>. QED  BY <1>4, <2>1, <2>2
<1>. QED  BY <1>2, <1>3, <1>5, <1>6 DEF Next

\* The types of every behaviour of the adapter and the chain, however its tasks
\* race for nonces and whatever fails.
THEOREM AdapterTypes == Spec => []TypeOK
<1>1. AdapterInv /\ [Next]_vars => AdapterInv'
  BY AdapterStep
<1>2. AdapterInv => TypeOK
  BY DEF AdapterInv
<1>. QED  BY <1>1, <1>2, AdapterInit, PTL DEF Spec

\* What the adapter and the client have the contract do is what an escrow does:
\* one settlement for one lock, of all that was locked.
THEOREM SettlementIsEscrow == Spec => EscrowSpec
<1>1. AdapterInv /\ [Next]_vars => AdapterInv' /\ [E!Next]_E!escrowVars
  BY AdapterStep
<1>2. Init => E!Init
  BY EscrowInit DEF Init
<1>. QED  BY <1>1, <1>2, AdapterInit, PTL DEF Spec, EscrowSpec, E!Spec

-----------------------------------------------------------------------------
(* What the contract holds and what it has sent.                           *)

\* The escrows there are, and what is in them.
LEMMA MadeEscrows ==
    ASSUME ContractTypeOK
    PROVE  /\ IsFiniteSet(Made) /\ Len(escrows) \in Nat
           /\ \A id \in Made : escrows[id] \in EscrowRecord /\ Amount[id] \in Nat
           /\ \A S \in SUBSET Made : Amounting(Amount, S)
<1>1. Len(escrows) \in Nat /\ escrows \in Seq(EscrowRecord)
  BY DEF ContractTypeOK
<1>2. IsFiniteSet(Made)
  BY <1>1, FS_Interval DEF Made
<1>3. \A id \in Made : escrows[id] \in EscrowRecord
  BY <1>1, ElementOfSeq DEF Made
<1>4. \A id \in Made : Amount[id] \in Nat
  BY <1>3 DEF Amount, EscrowRecord
<1>5. \A S \in SUBSET Made : IsFiniteSet(S)
  BY <1>2, FS_Subset
<1>. QED  BY <1>1, <1>2, <1>3, <1>4, <1>5 DEF Amounting

\* A lock adds its amount to what the contract holds.
LEMMA LockConserves ==
    ASSUME ContractTypeOK, Conservation,
           NEW sender, NEW amount \in Nat, NEW r, NEW node, lockEscrow(sender, amount, r, node)
    PROVE  Conservation'
<1>. DEFINE new == [requestId |-> r, payer |-> sender, node |-> node,
                    amount |-> amount, createdAt |-> now, settled |-> FALSE]
            next == Len(escrows) + 1
<1>1. /\ escrows' = Append(escrows, new) /\ escrows \in Seq(EscrowRecord) /\ Len(escrows) \in Nat
      /\ new.amount = amount /\ new.settled = FALSE
      /\ balance' = balance + amount /\ received' = received
  BY DEF lockEscrow, ContractTypeOK
<1>. HIDE DEF new
<1>2. /\ Len(escrows') = next /\ escrows'[next] = new
      /\ \A i \in Made : escrows'[i] = escrows[i]
  BY <1>1 DEF Made
<1>3. Made' = Made \union {next} /\ next \notin Made /\ next \in Made'
  BY <1>1, <1>2 DEF Made
<1>4. /\ Amount'[next] = amount
      /\ \A i \in Made : Amount'[i] = Amount[i]
  BY <1>1, <1>2, <1>3 DEF Amount
<1>5. Unsettled' = Unsettled \union {next} /\ next \notin Unsettled /\ Unsettled \subseteq Made
  BY <1>1, <1>2, <1>3 DEF Unsettled
<1>6. Made' \ Unsettled' = Made \ Unsettled
  BY <1>3, <1>5
<1>7. SumOver(Amount', Unsettled) = SumOver(Amount, Unsettled)
      /\ SumOver(Amount', Made \ Unsettled) = SumOver(Amount, Made \ Unsettled)
  BY <1>4, <1>5, SumSame
<1>8. Amounting(Amount', Unsettled)
  BY <1>4, <1>5, MadeEscrows DEF Amounting
<1>9. SumOver(Amount', Unsettled') = SumOver(Amount', Unsettled) + amount
  BY <1>4, <1>5, <1>8, SumAdd
<1>10. balance' = SumOver(Amount', Unsettled')
  BY <1>1, <1>7, <1>9 DEF Conservation
<1>11. SumOver(received', Accounts) = SumOver(Amount', Made' \ Unsettled')
  BY <1>1, <1>6, <1>7 DEF Conservation
<1>. QED  BY <1>10, <1>11 DEF Conservation

\* A payment moves the amount of an escrow that was not settled.
LEMMA PayConserves ==
    ASSUME ContractTypeOK, Conservation, NEW id \in Made, ~escrows[id].settled,
           NEW to \in Accounts, NEW event, payOut(id, to, event)
    PROVE  Conservation'
<1>. DEFINE amount == escrows[id].amount
<1>1. /\ escrows \in Seq(EscrowRecord) /\ Len(escrows) \in Nat
      /\ escrows[id] \in EscrowRecord /\ amount \in Nat /\ Amount[id] = amount
      /\ received \in [Accounts -> Nat] /\ balance \in Int
  BY MadeEscrows DEF ContractTypeOK, Amount
<1>2. /\ escrows' = [escrows EXCEPT ![id] = Settled(escrows[id])]
      /\ balance' = balance - amount
      /\ received' = [received EXCEPT ![to] = @ + amount]
  BY DEF payOut
<1>3. Settled(escrows[id]).amount = amount /\ Settled(escrows[id]).settled
  BY DEF Settled
<1>4. /\ Len(escrows') = Len(escrows) /\ escrows'[id] = Settled(escrows[id])
      /\ \A i \in Made : i # id => escrows'[i] = escrows[i]
  BY <1>1, <1>2, ExceptSeq DEF Made
<1>. HIDE DEF amount
<1>5. Made' = Made /\ Unsettled' = Unsettled \ {id} /\ id \in Unsettled
  BY <1>3, <1>4 DEF Made, Unsettled
<1>6. \A i \in Made : Amount'[i] = Amount[i]
  BY <1>1, <1>3, <1>4, <1>5 DEF Amount, amount
<1>7. Unsettled \subseteq Made /\ Amounting(Amount, Unsettled) /\ Amounting(Amount, Made \ Unsettled)
  BY MadeEscrows DEF Unsettled
<1>8. SumOver(Amount, Unsettled) = SumOver(Amount, Unsettled \ {id}) + amount
      /\ SumOver(Amount, Unsettled \ {id}) \in Nat
  BY <1>1, <1>5, <1>7, SumRemove
<1>9. Made' \ Unsettled' = (Made \ Unsettled) \union {id} /\ id \notin Made \ Unsettled
  BY <1>5
<1>10. SumOver(Amount, (Made \ Unsettled) \union {id}) = SumOver(Amount, Made \ Unsettled) + amount
  BY <1>1, <1>7, <1>9, SumAdd
<1>11. /\ SumOver(Amount', Unsettled') = SumOver(Amount, Unsettled')
       /\ SumOver(Amount', Made' \ Unsettled') = SumOver(Amount, Made' \ Unsettled')
  <2>1. (\A i \in Unsettled' : Amount'[i] = Amount[i])
        /\ (\A i \in Made' \ Unsettled' : Amount'[i] = Amount[i])
    BY <1>5, <1>6, <1>7
  <2>. QED  BY <2>1, SumSame
<1>12. SumOver(received', Accounts) = SumOver(received, Accounts) + amount
  <2>1. Amounting(received, Accounts)
    BY <1>1, ContractAssumption DEF Amounting
  <2>0. received \in [Accounts -> Nat] /\ received' = [received EXCEPT ![to] = received[to] + amount]
    BY <1>1, <1>2
  <2>2. /\ received'[to] = received[to] + amount /\ received[to] \in Nat /\ received'[to] \in Nat
        /\ \A a \in Accounts : a # to => received'[a] = received[a]
    <3>1. received'[to] = received[to] + amount /\ \A a \in Accounts : a # to => received'[a] = received[a]
      BY <2>0
    <3>2. received[to] \in Nat /\ amount \in Nat
      BY <2>0, <1>1
    <3>. QED  BY <3>1, <3>2
  <2>3. SumOver(received', Accounts) = SumOver(received, Accounts) - received[to] + received'[to]
    <3>1. PICK g : g = received'
      OBVIOUS
    <3>2. g[to] \in Nat /\ DifferAt(received, g, Accounts, to)
      BY <2>2, <3>1 DEF DifferAt
    <3>3. Amounting(g, Accounts) /\ SumOver(g, Accounts) = SumOver(received, Accounts) - received[to] + g[to]
      BY <2>1, <3>2, SumPut
    <3>. QED  BY <3>1, <3>3
  <2>4. SumOver(received, Accounts) \in Nat
    BY <2>1, SumType
  <2>. QED  BY <1>1, <2>2, <2>3, <2>4
<1>13. balance' = SumOver(Amount', Unsettled')
  BY <1>1, <1>2, <1>5, <1>8, <1>11 DEF Conservation
<1>14. SumOver(received', Accounts) = SumOver(Amount', Made' \ Unsettled')
  BY <1>9, <1>10, <1>11, <1>12 DEF Conservation
<1>. QED  BY <1>13, <1>14 DEF Conservation

LEMMA TransactionConserves ==
    ASSUME ContractTypeOK, Conservation, NEW sender \in Accounts,
           \/ \E amount \in Nat : \E r, node : lockEscrow(sender, amount, r, node)
           \/ \E id \in Nat : releaseEscrow(sender, id) \/ refundEscrow(sender, id)
    PROVE  Conservation'
<1>1. ASSUME NEW id \in Nat, sender \in {At(id).node, At(id).payer}
      PROVE  id \in Made /\ At(id) = escrows[id] /\ At(id).node \in Accounts
  <2>1. id \in Made /\ At(id) = escrows[id]
    BY <1>1, KnownEscrow DEF Made
  <2>. QED  BY <2>1, MadeEscrows DEF EscrowRecord
<1>2. ASSUME NEW id \in Nat, releaseEscrow(sender, id)
      PROVE  Conservation'
  <2>1. sender \in {At(id).node, At(id).payer} /\ ~At(id).settled /\ payOut(id, At(id).node, "EscrowReleased")
    BY <1>2 DEF releaseEscrow, ReleaseReverts
  <2>2. id \in Made /\ At(id) = escrows[id] /\ At(id).node \in Accounts
    BY <1>1, <2>1
  <2>. QED  BY <2>1, <2>2, PayConserves
<1>3. ASSUME NEW id \in Nat, refundEscrow(sender, id)
      PROVE  Conservation'
  <2>1. sender = At(id).payer /\ ~At(id).settled /\ payOut(id, sender, "EscrowRefunded")
    BY <1>3 DEF refundEscrow, RefundReverts
  <2>2. id \in Made /\ At(id) = escrows[id]
    BY <1>1, <2>1
  <2>. QED  BY <2>1, <2>2, PayConserves
<1>. QED  BY <1>2, <1>3, LockConserves

LEMMA ConservationInit == ContractInit => Conservation
<1>. SUFFICES ASSUME ContractInit PROVE Conservation
  OBVIOUS
<1>1. escrows = <<>> /\ Len(escrows) = 0 /\ balance = 0 /\ \A a \in Accounts : received[a] = 0
  BY DEF ContractInit
<1>2. Made = {} /\ Unsettled = {} /\ Made \ Unsettled = {}
  BY <1>1 DEF Made, Unsettled
<1>3. SumOver(Amount, {}) = 0 /\ SumOver(received, Accounts) = 0
  BY <1>1, SumEmpty, SumZero
<1>. QED  BY <1>1, <1>2, <1>3 DEF Conservation

LEMMA ConservationKept ==
    ASSUME Conservation, UNCHANGED <<escrows, balance, received>>
    PROVE  Conservation'
  BY DEF Conservation, Made, Amount, Unsettled

LEMMA ConservationStep == AdapterInv /\ Conservation /\ [Next]_vars => Conservation'
<1>. SUFFICES ASSUME AdapterInv, Conservation, [Next]_vars PROVE Conservation'
  OBVIOUS
<1>1. ContractTypeOK /\ Wallet \in Accounts /\ Client \in Accounts /\ EscrowIds \subseteq Nat
  BY AdapterAssumption DEF AdapterInv, TypeOK, EscrowIds
<1>2. CASE UNCHANGED contractVars \/ AdvanceTime
  BY <1>2, ConservationKept DEF contractVars, AdvanceTime
<1>3. ASSUME NEW t \in Tasks, Settle(t) \/ Register(t) \/ Work(t) \/ RpcFails(t) \/ Drop(t)
      PROVE  Conservation'
  BY <1>2, <1>3, TaskStep
<1>4. CASE Mine
  <2>1. PICK tx \in pool : Execute(tx)
    BY <1>4 DEF Mine
  <2>2. value[tx.task] \in Nat
    <3>1. tx.task \in Tasks
      BY DEF AdapterInv, TypeOK, AllTxs
    <3>2. value[tx.task] \in Values \union {0}
      BY <3>1 DEF AdapterInv, TypeOK
    <3>3. Values \union {0} \subseteq Nat
      BY ContractAssumption
    <3>. QED  BY <3>2, <3>3
  <2>3. tx_hash_to_escrow_id(tx.task) \in Nat
    BY ContractAssumption DEF tx_hash_to_escrow_id
  <2>4. \/ UNCHANGED contractVars
        \/ lockEscrow(Wallet, value[tx.task], tx.task, Wallet)
        \/ releaseEscrow(Wallet, tx_hash_to_escrow_id(tx.task))
    BY <2>1 DEF Execute
  <2>. QED  BY <1>1, <1>2, <2>2, <2>3, <2>4, TransactionConserves
<1>5. CASE ClientTransaction
  <2>1. \/ \E amount \in Nat : \E r, node : lockEscrow(Client, amount, r, node)
        \/ \E id \in Nat : releaseEscrow(Client, id) \/ refundEscrow(Client, id)
    BY <1>1, <1>5, ContractAssumption DEF ClientTransaction, Transaction
  <2>. QED  BY <1>1, <2>1, TransactionConserves
<1>6. CASE NextBlock \/ UNCHANGED vars
  BY <1>2, <1>6 DEF NextBlock, vars
<1>. QED  BY <1>3, <1>4, <1>5, <1>6 DEF Next

\* The contract holds what is in the escrows that are not settled and has sent what was
\* in the others, for any accounts and amounts, whatever the wallet's tasks and the
\* client have mined (lock, release, refund).
THEOREM FundsAreConserved == Spec => []Conservation
<1>1. AdapterInv /\ [Next]_vars => AdapterInv'
  BY AdapterStep
<1>2. Init => Conservation
  BY ConservationInit DEF Init
<1>. QED  BY <1>1, <1>2, AdapterInit, ConservationStep, PTL DEF Spec

-----------------------------------------------------------------------------
(* The race for nonces.  A task sends the transaction of a step once, and  *)
(* is past it then.                                                        *)

Past(t, step) ==
    pc[t] \notin (IF step = "lock" THEN {"idle", "lock", "lockSend"}
                  ELSE IF step = "register" THEN {"idle", "register", "registerSend"}
                  ELSE {"idle", "lock", "lockSend", "release", "releaseSend"})

\* What waits in the pool was sent, and its nonce is not free again.
PoolInv ==
    \A tx \in pool : /\ tx = Tx(tx.task, tx.step) /\ Past(tx.task, tx.step)
                     /\ tx.nonce < PendingNonce

\* A task that goes on to its release has had its lock accepted, with a nonce that the
\* release cannot have.
NoncesInv ==
    \A t \in Tasks :
        /\ pc[t] \in {"release", "releaseSend", "receipt"} => nonce[t]["lock"] < PendingNonce
        /\ pc[t] = "releaseSend" => nonce[t]["lock"] < nonce[t]["release"]

\* The escrows of the wallet are those of its tasks, for what they were asked to lock,
\* and no task has two, nor a lock in the pool besides one.
Own(id) == id \in 1..Len(escrows) /\ escrows[id].payer = Wallet

WalletInv ==
    /\ \A id \in EscrowIds : Own(id) =>
          /\ escrows[id].requestId \in Tasks /\ Past(escrows[id].requestId, "lock")
          /\ escrows[id].amount = value[escrows[id].requestId]
    /\ \A i, j \in EscrowIds : Own(i) /\ Own(j) /\ escrows[i].requestId = escrows[j].requestId => i = j
    /\ \A id \in EscrowIds, tx \in pool :
          Own(id) /\ tx.step = "lock" => escrows[id].requestId # tx.task

RaceInv == PoolInv /\ NoncesInv /\ WalletInv /\ LostLockWasRaced

LEMMA RaceInit == Init => RaceInv
<1>. SUFFICES ASSUME Init PROVE RaceInv
  OBVIOUS
<1>1. pool = {} /\ \A t \in Tasks : pc[t] = "idle"
  BY DEF Init
<1>2. \A id : ~Own(id)
  BY DEF Init, ContractInit, Own
<1>3. PoolInv /\ NoncesInv /\ WalletInv
  BY <1>1, <1>2 DEF PoolInv, NoncesInv, WalletInv
<1>4. LostLockWasRaced
  BY <1>1 DEF LostLockWasRaced, Told
<1>. QED  BY <1>3, <1>4 DEF RaceInv

\* A step of a task is its own, and no step takes it back before what it was past.
LEMMA TaskMoves ==
    ASSUME AdapterInv, NEW t \in Tasks,
           Settle(t) \/ Register(t) \/ Work(t) \/ RpcFails(t) \/ Drop(t)
    PROVE  /\ \A u \in Tasks \ {t} : pc'[u] = pc[u] /\ nonce'[u] = nonce[u] /\ value'[u] = value[u]
           /\ \A u \in Tasks, step \in Steps : Past(u, step) => Past(u, step)'
           /\ Past(t, "lock") => value'[t] = value[t]
           /\ UNCHANGED <<escrows, mined>>
<1>1. pc \in [Tasks -> {"idle"} \union Working \union Ended]
  BY DEF AdapterInv, TypeOK
<1>2. /\ pc' = [pc EXCEPT ![t] = pc'[t]]
      /\ \A step \in Steps : Past(t, step) => Past(t, step)'
  <2>1. CASE Settle(t) \/ Register(t)
    BY <2>1, <1>1 DEF Settle, Register, Goto, Past, Steps
  <2>2. CASE get_nonce(t)
    BY <2>2, <1>1 DEF get_nonce, Goto, Send, Past, Steps
  <2>3. CASE SendAccepted(t) \/ SendRefused(t) \/ SendReplaces(t) \/ RpcFails(t)
    <3>1. pc[t] \in Working /\ (Failed(t) \/ Succeeded(t))
      BY <2>3 DEF SendAccepted, SendRefused, SendReplaces, RpcFails, Working
    <3>2. CASE Failed(t)
      BY <3>1, <3>2, <1>1 DEF Failed, Goto, Step, Past, Steps, Working, Sending
    <3>3. CASE Succeeded(t)
      BY <3>1, <3>3, <1>1 DEF Succeeded, Goto, Step, Past, Steps, Working, Sending
    <3>. QED  BY <3>1, <3>2, <3>3
  <2>4. CASE Drop(t)
    BY <2>4, <1>1 DEF Drop, Goto, Past, Steps
  <2>. QED  BY <2>1, <2>2, <2>3, <2>4 DEF Work
<1>3. \A u \in Tasks \ {t} : pc'[u] = pc[u]
  BY <1>1, <1>2
<1>4. \A u \in Tasks, step \in Steps : Past(u, step) => Past(u, step)'
  BY <1>1, <1>2, <1>3 DEF Past
<1>5. \A u \in Tasks \ {t} : nonce'[u] = nonce[u] /\ value'[u] = value[u]
  BY DEF Settle, Register, Work, get_nonce, SendAccepted, SendRefused, SendReplaces, RpcFails, Drop,
         AdapterInv, TypeOK
<1>6. Past(t, "lock") => value'[t] = value[t]
  BY DEF Settle, Register, Work, get_nonce, SendAccepted, SendRefused, SendReplaces, RpcFails, Drop, Past
<1>7. UNCHANGED <<escrows, mined>>
  BY DEF Settle, Register, Work, get_nonce, SendAccepted, SendRefused, SendReplaces, RpcFails, Drop,
         contractVars
<1>. QED  BY <1>3, <1>4, <1>5, <1>6, <1>7

\* What a task sends is not in the pool yet: the next free nonce moves on, or stays.
LEMMA PendingStep ==
    ASSUME AdapterInv, PoolInv, mined' = mined, NEW tx, tx \notin pool
    PROVE  /\ PendingNonce \in Nat
           /\ pool' = pool => PendingNonce' = PendingNonce
           /\ pool' = pool \union {tx} => PendingNonce' = PendingNonce + 1
           /\ \A gone \in pool : pool' = (pool \ {gone}) \union {tx} => PendingNonce' = PendingNonce
<1>1. Cardinality(pool) \in Nat /\ Len(mined) \in Nat /\ IsFiniteSet(pool)
  BY FS_CardinalityType DEF AdapterInv, TypeOK
<1>2. Cardinality(pool \union {tx}) = Cardinality(pool) + 1
  BY <1>1, FS_AddElement
<1>3. ASSUME NEW gone \in pool
      PROVE  Cardinality((pool \ {gone}) \union {tx}) = Cardinality(pool)
  <2>1. IsFiniteSet(pool \ {gone}) /\ Cardinality(pool \ {gone}) = Cardinality(pool) - 1
    BY <1>1, FS_RemoveElement
  <2>2. Cardinality((pool \ {gone}) \union {tx}) = Cardinality(pool \ {gone}) + 1
    BY <2>1, FS_AddElement
  <2>3. Cardinality(pool \ {gone}) + 1 = Cardinality(pool)
    BY <1>1, <2>1
  <2>. QED  BY <2>2, <2>3, Zenon
<1>4. CASE pool' = pool \union {tx}
  BY <1>1, <1>2, <1>4 DEF PendingNonce
<1>5. ASSUME NEW gone \in pool, pool' = (pool \ {gone}) \union {tx}
      PROVE  Cardinality(pool') = Cardinality(pool)
  BY <1>3, <1>5
<1>. QED  BY <1>1, <1>4, <1>5 DEF PendingNonce

\* Mining takes the next free nonce nowhere.
LEMMA PendingMined ==
    ASSUME AdapterInv, NEW tx \in pool, pool' = pool \ {tx}, mined' = Append(mined, tx)
    PROVE  PendingNonce' = PendingNonce
<1>1. /\ Cardinality(pool) \in Nat /\ Len(mined) \in Nat /\ IsFiniteSet(pool)
      /\ mined \in Seq(AllTxs) /\ tx \in AllTxs
  BY FS_CardinalityType DEF AdapterInv, TypeOK
<1>2. Cardinality(pool \ {tx}) = Cardinality(pool) - 1
  BY <1>1, FS_RemoveElement
<1>3. Len(mined') = Len(mined) + 1
  BY <1>1, AppendProperties
<1>. QED  BY <1>1, <1>2, <1>3 DEF PendingNonce

\* What a task sends it is not past, so it has not sent it before.
LEMMA SentOnce ==
    ASSUME AdapterInv, PoolInv, NEW t \in Tasks, pc[t] \in Sending
    PROVE  /\ Step(pc[t]) \in Steps /\ ~Past(t, Step(pc[t]))
           /\ Tx(t, Step(pc[t])) \notin pool
           /\ Step(pc[t]) = "lock" <=> pc[t] = "lockSend"
           /\ Step(pc[t]) = "release" <=> pc[t] = "releaseSend"
           /\ Step(pc[t]) = "register" <=> pc[t] = "registerSend"
<1>1. /\ Step(pc[t]) \in Steps /\ ~Past(t, Step(pc[t]))
      /\ Step(pc[t]) = "lock" <=> pc[t] = "lockSend"
      /\ Step(pc[t]) = "release" <=> pc[t] = "releaseSend"
      /\ Step(pc[t]) = "register" <=> pc[t] = "registerSend"
  BY DEF Sending, Steps, Step, Past
<1>2. Tx(t, Step(pc[t])).task = t /\ Tx(t, Step(pc[t])).step = Step(pc[t])
  BY DEF Tx
<1>. QED  BY <1>1, <1>2 DEF PoolInv

LEMMA WalletTask ==
    ASSUME AdapterInv, RaceInv, NEW t \in Tasks,
           Settle(t) \/ Register(t) \/ Work(t) \/ RpcFails(t) \/ Drop(t)
    PROVE  WalletInv'
<1>moves. /\ \A u \in Tasks \ {t} : value'[u] = value[u]
          /\ \A u \in Tasks : Past(u, "lock") => Past(u, "lock")'
          /\ Past(t, "lock") => value'[t] = value[t]
          /\ UNCHANGED escrows
  BY TaskMoves DEF Steps
<1>own. \A id : Own(id)' <=> Own(id)
  BY <1>moves DEF Own
<1>1. \A tx \in pool' : tx \in pool \/ (tx.task = t /\ (tx.step = "lock" => ~Past(t, "lock")))
  <2>1. CASE pool' = pool
    BY <2>1
  <2>2. CASE SendAccepted(t) \/ SendReplaces(t)
    <3>1. pc[t] \in Sending /\ pool' \subseteq pool \union {Tx(t, Step(pc[t]))}
      BY <2>2 DEF SendAccepted, SendReplaces
    <3>2. Tx(t, Step(pc[t])).task = t /\ Tx(t, Step(pc[t])).step = Step(pc[t])
      BY DEF Tx
    <3>. QED  BY <3>1, <3>2, SentOnce DEF RaceInv
  <2>. QED  BY <2>1, <2>2 DEF Settle, Register, Work, get_nonce, SendRefused, RpcFails, Drop
<1>. QED  BY <1>moves, <1>own, <1>1 DEF RaceInv, WalletInv

LEMMA RaceTask ==
    ASSUME AdapterInv, RaceInv, NEW t \in Tasks,
           Settle(t) \/ Register(t) \/ Work(t) \/ RpcFails(t) \/ Drop(t)
    PROVE  RaceInv'
<1>types. /\ pc \in [Tasks -> {"idle"} \union Working \union Ended]
          /\ nonce \in [Tasks -> [Steps -> Nat]]
          /\ pool \subseteq AllTxs /\ \A tx \in pool : tx.task \in Tasks /\ tx.step \in Steps /\ tx.nonce \in Nat
          /\ \A u \in Tasks, step \in Steps : nonce[u][step] \in Nat
          /\ {"lock", "release", "register"} \subseteq Steps
  BY DEF AdapterInv, TypeOK, AllTxs, Steps
<1>moves. /\ \A u \in Tasks \ {t} : pc'[u] = pc[u] /\ nonce'[u] = nonce[u]
          /\ \A u \in Tasks, step \in Steps : Past(u, step) => Past(u, step)'
          /\ mined' = mined /\ MinedTxs' = MinedTxs
  BY TaskMoves DEF MinedTxs
<1>pending. PendingNonce \in Nat
  BY PendingNonceType
<1>inv. PoolInv /\ NoncesInv /\ LostLockWasRaced
  BY DEF RaceInv
<1>wallet. WalletInv'
  BY WalletTask
<1>tx. \A u \in Tasks, step \in Steps : nonce'[u][step] = nonce[u][step] => Tx(u, step)' = Tx(u, step)
  BY DEF Tx
<1>1. CASE Settle(t) \/ Register(t) \/ SendRefused(t) \/ RpcFails(t) \/ Drop(t)
  <2>1. UNCHANGED <<nonce, pool, mined>> /\ PendingNonce' = PendingNonce
    BY <1>1 DEF Settle, Register, SendRefused, RpcFails, Drop, PendingNonce
  <2>2. /\ pc'[t] \in {"release", "receipt"} => pc[t] \in {"release", "releaseSend"}
        /\ pc'[t] \notin {"releaseSend", "registered"}
    <3>1. CASE Settle(t) \/ Register(t) \/ Drop(t)
      BY <3>1, <1>types DEF Settle, Register, Drop, Goto
    <3>2. CASE SendRefused(t) \/ RpcFails(t)
      BY <3>2, <1>types DEF SendRefused, RpcFails, Failed, Goto, Step, Working, Steps, Sending
    <3>. QED  BY <1>1, <3>1, <3>2
  <2>3. PoolInv'
    BY <2>1, <1>types, <1>moves, <1>tx, <1>inv DEF PoolInv
  <2>4. NoncesInv'
    BY <2>1, <2>2, <1>moves, <1>inv DEF NoncesInv
  <2>5. \A u \in Tasks, step \in Steps : Told(u, step)' => Told(u, step)
    BY <2>2, <1>moves DEF Told
  <2>6. LostLockWasRaced'
    BY <2>1, <2>5, <1>moves, <1>tx, <1>inv DEF LostLockWasRaced
  <2>. QED  BY <2>3, <2>4, <2>6, <1>wallet DEF RaceInv
<1>2. CASE get_nonce(t)
  <2>1. /\ UNCHANGED <<pool, mined>> /\ PendingNonce' = PendingNonce
        /\ pc[t] \in Steps /\ ~Past(t, pc[t])
        /\ pc'[t] = Send(pc[t])
        /\ nonce'[t][pc[t]] = PendingNonce
        /\ \A step \in Steps \ {pc[t]} : nonce'[t][step] = nonce[t][step]
    BY <1>2, <1>types DEF get_nonce, PendingNonce, Goto, Steps, Past
  <2>2. PoolInv'
    BY <2>1, <1>types, <1>moves, <1>tx, <1>inv DEF PoolInv
  <2>3. NoncesInv'
    BY <2>1, <1>types, <1>moves, <1>inv DEF NoncesInv, Send, Steps
  <2>4. \A u \in Tasks, step \in Steps :
           Told(u, step)' => Told(u, step) /\ nonce'[u][step] = nonce[u][step]
    BY <2>1, <1>types, <1>moves DEF Told, Send, Steps
  <2>5. LostLockWasRaced'
    BY <2>1, <2>4, <1>moves, <1>tx, <1>inv DEF LostLockWasRaced
  <2>. QED  BY <2>2, <2>3, <2>5, <1>wallet DEF RaceInv
<1>3. CASE SendAccepted(t) \/ SendReplaces(t)
  <2>0. PICK step : step = Step(pc[t])
    OBVIOUS
  <2>. DEFINE new == Tx(t, step)
  <2>1. /\ step \in Steps /\ ~Past(t, step) /\ new \notin pool
        /\ pc[t] \in Sending /\ new.nonce = nonce[t][step] /\ new.task = t /\ new.step = step
        /\ step = "lock" <=> pc[t] = "lockSend"
        /\ step = "release" <=> pc[t] = "releaseSend"
        /\ step = "register" <=> pc[t] = "registerSend"
    BY <1>3, <2>0, <1>inv, SentOnce DEF SendAccepted, SendReplaces, Tx
  <2>2. /\ nonce' = nonce
        /\ \A u \in Tasks, s \in Steps : Tx(u, s)' = Tx(u, s)
    BY <1>3, <1>tx DEF SendAccepted, SendReplaces
  <2>3. /\ pc'[t] \in {"release", "receipt", "none", "registered"} /\ Past(t, step)'
        /\ pc'[t] = "release" => step = "lock"
        /\ pc'[t] = "receipt" <=> step = "release"
        /\ pc'[t] = "registered" => step = "register"
    <3>1. Failed(t) \/ Succeeded(t)
      BY <1>3 DEF SendAccepted, SendReplaces
    <3>2. CASE Failed(t)
      BY <2>0, <2>1, <3>2, <1>types DEF Failed, Succeeded, Goto, Past, Steps
    <3>3. CASE Succeeded(t)
      <4>1. pc'[t] = IF step = "lock" THEN "release" ELSE IF step = "register" THEN "registered" ELSE "receipt"
        BY <2>0, <3>3, <1>types DEF Succeeded, Goto
      <4>2. step \in {"lock", "release", "register"}
        BY <2>1 DEF Steps
      <4>. QED  BY <4>1, <4>2 DEF Past
    <3>. QED  BY <3>1, <3>2, <3>3
  \* The next free nonce has moved on from that of the transaction.
  <2>4. /\ PendingNonce' \in Nat /\ PendingNonce <= PendingNonce'
        /\ new.nonce < PendingNonce'
    <3>1. CASE SendAccepted(t)
      <4>1. PendingNonce' = PendingNonce + 1 /\ new.nonce = PendingNonce
        BY <3>1, <2>0, <2>1, <1>inv, <1>moves, PendingStep DEF SendAccepted
      <4>. QED  BY <4>1, <1>pending
    <3>2. CASE SendReplaces(t)
      <4>1. PICK gone \in pool : gone.nonce = nonce[t][step] /\ pool' = (pool \ {gone}) \union {new}
        BY <3>2, <2>0 DEF SendReplaces
      <4>2. PendingNonce' = PendingNonce
        BY <4>1, <2>1, <1>inv, <1>moves, PendingStep
      <4>. QED  BY <4>1, <4>2, <2>1, <1>inv, <1>pending DEF PoolInv
    <3>. QED  BY <1>3, <3>1, <3>2
  <2>. HIDE DEF new
  <2>5. /\ new \in pool' /\ pool' \subseteq pool \union {new}
        /\ \A tx \in pool \ pool' : tx.nonce = nonce[t][step]
    BY <1>3, <2>0 DEF SendAccepted, SendReplaces, new
  <2>6. PoolInv'
    <3>. SUFFICES ASSUME NEW tx \in pool'
                  PROVE  tx = Tx(tx.task, tx.step)' /\ Past(tx.task, tx.step)' /\ tx.nonce < PendingNonce'
      BY DEF PoolInv
    <3>1. CASE tx = new
      <4>1. new = Tx(t, step)
        BY DEF new
      <4>. QED  BY <3>1, <4>1, <2>1, <2>2, <2>3, <2>4 DEF Past
    <3>2. CASE tx \in pool
      BY <3>2, <2>2, <2>4, <1>types, <1>moves, <1>pending, <1>inv DEF PoolInv
    <3>. QED  BY <2>5, <3>1, <3>2
  <2>7. NoncesInv'
    <3>. SUFFICES ASSUME NEW u \in Tasks
                  PROVE  /\ pc'[u] \in {"release", "releaseSend", "receipt"} => nonce'[u]["lock"] < PendingNonce'
                         /\ pc'[u] = "releaseSend" => nonce'[u]["lock"] < nonce'[u]["release"]
      BY DEF NoncesInv
    <3>1. CASE u # t
      BY <3>1, <2>2, <2>4, <1>types, <1>moves, <1>pending, <1>inv DEF NoncesInv
    <3>2. CASE u = t /\ step = "lock"
      BY <3>2, <2>1, <2>2, <2>3, <2>4
    <3>3. CASE u = t /\ step # "lock"
      <4>1. nonce[t]["lock"] < PendingNonce \/ pc'[t] \notin {"release", "releaseSend", "receipt"}
        BY <3>3, <2>1, <2>3, <1>inv DEF NoncesInv
      <4>. QED  BY <3>3, <4>1, <2>2, <2>3, <2>4, <1>types, <1>pending
    <3>. QED  BY <3>1, <3>2, <3>3
  <2>8. LostLockWasRaced'
    <3>. SUFFICES ASSUME NEW u \in Tasks, NEW s \in Steps, Told(u, s)'
                  PROVE  \/ Tx(u, s) \in pool' \union MinedTxs
                         \/ \E tx \in pool' \union MinedTxs : tx.task # u /\ tx.nonce = nonce[u][s]
      BY <2>2, <1>moves DEF LostLockWasRaced
    <3>1. CASE u = t /\ s = step
      <4>1. new = Tx(t, step)
        BY DEF new
      <4>. QED  BY <3>1, <4>1, <2>5
    \* What was overtaken before keeps a transaction of another task with its nonce; what
    \* is overtaken now has that of t, which is another one.
    <3>2. CASE ~(u = t /\ s = step)
      <4>1. Told(u, s)
        BY <3>2, <2>1, <2>3, <1>moves DEF Told, Steps
      <4>2. u = t => nonce[u][s] # nonce[t][step]
        <5>1. u = t => s = "lock" /\ step = "release"
          BY <3>2, <4>1, <2>1, <2>3 DEF Told, Steps
        <5>. QED  BY <5>1, <2>1, <1>types, <1>inv DEF NoncesInv
      <4>3. CASE Tx(u, s) \in pool \ pool'
        <5>1. nonce[u][s] = nonce[t][step]
          BY <4>3, <2>5 DEF Tx
        <5>. QED  BY <5>1, <4>2, <2>1, <2>5
      <4>4. CASE Tx(u, s) \in pool' \union MinedTxs
        BY <4>4
      <4>5. ASSUME NEW tx \in pool \union MinedTxs, tx.task # u, tx.nonce = nonce[u][s]
            PROVE  \E x \in pool' \union MinedTxs : x.task # u /\ x.nonce = nonce[u][s]
        <5>1. CASE tx \in pool' \union MinedTxs
          BY <4>5, <5>1
        <5>2. CASE tx \in pool \ pool'
          BY <4>5, <5>2, <4>2, <2>1, <2>5
        <5>. QED  BY <4>5, <5>1, <5>2
      <4>. QED  BY <4>1, <4>3, <4>4, <4>5, <1>inv DEF LostLockWasRaced
    <3>. QED  BY <3>1, <3>2
  <2>. QED  BY <2>6, <2>7, <2>8, <1>wallet DEF RaceInv
<1>. QED  BY <1>1, <1>2, <1>3 DEF Work

-----------------------------------------------------------------------------
(* The escrows of the wallet.                                              *)

\* A settlement of an escrow leaves whose it is, what for, and how much; so does time.
LEMMA OwnKept ==
    ASSUME AdapterInv, NEW sender \in Accounts,
           \/ \E id \in Nat : releaseEscrow(sender, id) \/ refundEscrow(sender, id)
           \/ UNCHANGED contractVars
           \/ AdvanceTime
    PROVE  \A i \in EscrowIds :
              Own(i)' => /\ Own(i) /\ escrows'[i].requestId = escrows[i].requestId
                         /\ escrows'[i].amount = escrows[i].amount
<1>1. CASE UNCHANGED escrows
  BY <1>1 DEF Own
<1>2. ASSUME NEW id \in Nat, NEW to, NEW event, sender \in {At(id).node, At(id).payer}, payOut(id, to, event)
      PROVE  \A i \in EscrowIds :
                Own(i)' => /\ Own(i) /\ escrows'[i].requestId = escrows[i].requestId
                           /\ escrows'[i].amount = escrows[i].amount
  <2>1. /\ id \in 1..Len(escrows) /\ escrows[id] \in EscrowRecord
        /\ escrows \in Seq(EscrowRecord)
    BY <1>2, KnownEscrow, ElementOfSeq DEF AdapterInv, TypeOK, ContractTypeOK
  <2>2. escrows' = [escrows EXCEPT ![id] = Settled(escrows[id])] /\ Settled(escrows[id]) \in EscrowRecord
    BY <1>2, <2>1 DEF payOut, Settled, EscrowRecord
  <2>3. /\ Len(escrows') = Len(escrows) /\ escrows'[id] = Settled(escrows[id])
        /\ \A i \in 1..Len(escrows) : i # id => escrows'[i] = escrows[i]
    BY <2>1, <2>2, ExceptSeq
  <2>. QED  BY <2>1, <2>3 DEF Own, Settled
<1>3. ASSUME NEW id \in Nat, releaseEscrow(sender, id) \/ refundEscrow(sender, id)
      PROVE  \A i \in EscrowIds :
                Own(i)' => /\ Own(i) /\ escrows'[i].requestId = escrows[i].requestId
                           /\ escrows'[i].amount = escrows[i].amount
  <2>1. CASE releaseEscrow(sender, id)
    <3>1. sender \in {At(id).node, At(id).payer} /\ payOut(id, At(id).node, "EscrowReleased")
      BY <2>1 DEF releaseEscrow, ReleaseReverts
    <3>. QED  BY <3>1, <1>2
  <2>2. CASE refundEscrow(sender, id)
    <3>1. sender \in {At(id).node, At(id).payer} /\ payOut(id, At(id).payer, "EscrowRefunded")
      BY <2>2 DEF refundEscrow, RefundReverts
    <3>. QED  BY <3>1, <1>2
  <2>. QED  BY <1>3, <2>1, <2>2
<1>. QED  BY <1>1, <1>3 DEF contractVars, AdvanceTime

\* A lock makes one more, for its sender.
LEMMA OwnLocked ==
    ASSUME AdapterInv, NEW sender, NEW amount, NEW r, NEW node, lockEscrow(sender, amount, r, node),
           NEW n, n = Len(escrows)
    PROVE  /\ n \in Nat /\ n + 1 \in EscrowIds
           /\ Own(n + 1)' <=> sender = Wallet
           /\ escrows'[n + 1].requestId = r /\ escrows'[n + 1].amount = amount
           /\ \A i \in EscrowIds : i # n + 1 /\ Own(i)' => Own(i) /\ escrows'[i] = escrows[i]
<1>. DEFINE new == [requestId |-> r, payer |-> sender, node |-> node,
                    amount |-> amount, createdAt |-> now, settled |-> FALSE]
<1>1. /\ n \in Nat /\ MaxEscrows \in Nat /\ n < MaxEscrows /\ escrows' = Append(escrows, new)
      /\ escrows \in Seq(EscrowRecord)
  BY ContractAssumption DEF lockEscrow, AdapterInv, TypeOK, ContractTypeOK
<1>2. /\ Len(escrows') = n + 1 /\ escrows'[n + 1] = new
      /\ \A i \in 1..n : escrows'[i] = escrows[i]
  BY <1>1
<1>. QED  BY <1>1, <1>2 DEF Own, EscrowIds

\* No more than this is needed to keep the escrows of the wallet as they should be.
LEMMA WalletKept ==
    ASSUME WalletInv, UNCHANGED <<pc, value>>, pool' \subseteq pool,
           \A i \in EscrowIds :
              Own(i)' => /\ Own(i) /\ escrows'[i].requestId = escrows[i].requestId
                         /\ escrows'[i].amount = escrows[i].amount
    PROVE  WalletInv'
<1>1. \A t : Past(t, "lock") => Past(t, "lock")'
  BY DEF Past
<1>. QED  BY <1>1 DEF WalletInv

LEMMA RaceMine ==
    ASSUME AdapterInv, RaceInv, Mine
    PROVE  RaceInv'
<1>1. PICK tx \in pool : /\ pool' = pool \ {tx}
                         /\ mined' = Append(mined, tx)
                         /\ Execute(tx)
                         /\ UNCHANGED <<pc, value, nonce, faults, drops>>
  BY DEF Mine
<1>2. /\ tx \in AllTxs /\ tx.task \in Tasks /\ mined \in Seq(AllTxs)
      /\ tx = Tx(tx.task, tx.step) /\ Past(tx.task, tx.step)
  BY DEF AdapterInv, TypeOK, AllTxs, RaceInv, PoolInv
<1>3. PendingNonce' = PendingNonce
  BY <1>1, PendingMined
<1>4. \A t, step : /\ Tx(t, step)' = Tx(t, step) /\ Past(t, step)' = Past(t, step)
                   /\ Told(t, step)' = Told(t, step)
  BY <1>1 DEF Tx, Past, Told
<1>5. PoolInv' /\ NoncesInv'
  BY <1>1, <1>3, <1>4 DEF RaceInv, PoolInv, NoncesInv
<1>6. LostLockWasRaced'
  <2>1. pool \union MinedTxs \subseteq (pool \union MinedTxs)'
    <3>1. Len(mined') = Len(mined) + 1 /\ mined'[Len(mined) + 1] = tx
          /\ \A i \in 1..Len(mined) : mined'[i] = mined[i]
      BY <1>1, <1>2, AppendProperties
    <3>2. tx \in MinedTxs' /\ MinedTxs \subseteq MinedTxs'
      BY <3>1, <1>2 DEF MinedTxs
    <3>. QED  BY <1>1, <3>2
  <2>. QED  BY <1>1, <1>4, <2>1 DEF RaceInv, LostLockWasRaced
<1>7. WalletInv'
  <2>0. WalletInv
    BY DEF RaceInv
  <2>1. CASE UNCHANGED contractVars \/ releaseEscrow(Wallet, tx_hash_to_escrow_id(tx.task))
    <3>1. tx_hash_to_escrow_id(tx.task) \in Nat /\ Wallet \in Accounts
      BY ContractAssumption, AdapterAssumption DEF tx_hash_to_escrow_id
    <3>2. \A i \in EscrowIds :
             Own(i)' => /\ Own(i) /\ escrows'[i].requestId = escrows[i].requestId
                        /\ escrows'[i].amount = escrows[i].amount
      BY <2>1, <3>1, OwnKept
    <3>. QED  BY <1>1, <2>0, <3>2, WalletKept
  <2>2. CASE tx.step = "lock" /\ lockEscrow(Wallet, value[tx.task], tx.task, Wallet)
    <3>1. PICK n : n = Len(escrows)
      OBVIOUS
    <3>2. /\ n \in Nat /\ n + 1 \in EscrowIds
          /\ escrows'[n + 1].requestId = tx.task /\ escrows'[n + 1].amount = value[tx.task]
          /\ \A i \in EscrowIds : i # n + 1 /\ Own(i)' => Own(i) /\ escrows'[i] = escrows[i]
      BY <2>2, <3>1, OwnLocked
    <3>3. Past(tx.task, "lock")
      BY <1>2, <2>2
    \* It had none, and has no other lock that waits.
    <3>4. \A i \in EscrowIds : Own(i) => escrows[i].requestId # tx.task
      BY <2>0, <2>2 DEF WalletInv
    <3>5. \A x \in pool' : x.step = "lock" => x.task # tx.task
      <4>1. \A x \in pool : x = Tx(x.task, x.step)
        BY DEF RaceInv, PoolInv
      <4>. QED  BY <1>1, <1>2, <2>2, <4>1
    <3>6. \A i \in EscrowIds : Own(i)' =>
             /\ escrows'[i].requestId \in Tasks /\ Past(escrows'[i].requestId, "lock")
             /\ escrows'[i].amount = value[escrows'[i].requestId]
      BY <2>0, <3>2, <3>3, <1>2 DEF WalletInv
    <3>7. \A i, j \in EscrowIds :
             Own(i)' /\ Own(j)' /\ escrows'[i].requestId = escrows'[j].requestId => i = j
      BY <2>0, <3>2, <3>4 DEF WalletInv
    <3>8. \A i \in EscrowIds, x \in pool' :
             Own(i)' /\ x.step = "lock" => escrows'[i].requestId # x.task
      BY <2>0, <3>2, <3>5, <1>1 DEF WalletInv
    <3>9. \A i \in EscrowIds : Past(escrows'[i].requestId, "lock") => Past(escrows[i].requestId, "lock")'
      BY <1>1 DEF Past
    <3>. QED  BY <1>1, <3>6, <3>7, <3>8, <3>9 DEF WalletInv
  <2>. QED  BY <1>1, <2>1, <2>2 DEF Execute
<1>. QED  BY <1>5, <1>6, <1>7 DEF RaceInv

LEMMA RaceStep == AdapterInv /\ RaceInv /\ [Next]_vars => RaceInv'
<1>. SUFFICES ASSUME AdapterInv, RaceInv, [Next]_vars PROVE RaceInv'
  OBVIOUS
<1>1. ASSUME UNCHANGED <<pc, value, nonce, pool, mined, faults, drops>>,
             \A i \in EscrowIds :
                Own(i)' => /\ Own(i) /\ escrows'[i].requestId = escrows[i].requestId
                           /\ escrows'[i].amount = escrows[i].amount
      PROVE  RaceInv'
  <2>1. WalletInv'
    BY <1>1, WalletKept DEF RaceInv
  <2>2. PendingNonce' = PendingNonce /\ MinedTxs' = MinedTxs
        /\ \A t, step : /\ Tx(t, step)' = Tx(t, step) /\ Past(t, step)' = Past(t, step)
                        /\ Told(t, step)' = Told(t, step)
    BY <1>1 DEF PendingNonce, MinedTxs, Tx, Past, Told
  <2>. QED  BY <1>1, <2>1, <2>2 DEF RaceInv, PoolInv, NoncesInv, LostLockWasRaced
<1>2. CASE ClientTransaction
  <2>1. Client \in Accounts \ {Wallet} /\ EscrowIds \subseteq Nat
    BY AdapterAssumption DEF EscrowIds
  <2>2. CASE \E id \in EscrowIds : releaseEscrow(Client, id) \/ refundEscrow(Client, id)
    <3>1. \A i \in EscrowIds :
             Own(i)' => /\ Own(i) /\ escrows'[i].requestId = escrows[i].requestId
                        /\ escrows'[i].amount = escrows[i].amount
      BY <2>1, <2>2, OwnKept
    <3>. QED  BY <1>1, <1>2, <3>1 DEF ClientTransaction
  <2>3. ASSUME NEW amount \in Values, NEW r \in Requests, NEW node \in Accounts,
               lockEscrow(Client, amount, r, node)
        PROVE  RaceInv'
    <3>1. \A i \in EscrowIds : Own(i)' => Own(i) /\ escrows'[i] = escrows[i]
      <4>1. PICK n : n = Len(escrows)
        OBVIOUS
      <4>. QED  BY <2>1, <2>3, <4>1, OwnLocked
    <3>. QED  BY <1>1, <1>2, <3>1 DEF ClientTransaction
  <2>. QED  BY <1>2, <2>2, <2>3 DEF ClientTransaction, Transaction
<1>3. CASE NextBlock \/ UNCHANGED vars
  <2>1. (UNCHANGED contractVars \/ AdvanceTime)
        /\ UNCHANGED <<pc, value, nonce, pool, mined, faults, drops>>
    BY <1>3 DEF NextBlock, vars, contractVars
  <2>. QED  BY <1>1, <2>1, OwnKept, AdapterAssumption
<1>. QED  BY <1>2, <1>3, RaceTask, RaceMine DEF Next

THEOREM RaceSafety == Spec => []RaceInv
<1>1. AdapterInv /\ RaceInv /\ [Next]_vars => AdapterInv' /\ RaceInv'
  BY AdapterStep, RaceStep
<1>. QED  BY <1>1, AdapterInit, RaceInit, PTL DEF Spec

\* A lock, or a registration, that was reported and that the chain never executes was
\* overtaken by another task of the wallet with the same nonce, however many tasks race
\* and whatever is lost or dropped (get_nonce, send_raw).
THEOREM LostLocksWereRaced == Spec => []LostLockWasRaced
  BY RaceSafety, PTL DEF RaceInv

\* A settlement locks its amount once at most, though answers are lost, nonces taken,
\* transactions replaced and handlers dropped (lock_funds, settle_and_build_receipt).
THEOREM LocksAreUnique == Spec => []LockedAtMostOnce
<1>1. AdapterInv /\ RaceInv => LockedAtMostOnce
  <2>. SUFFICES ASSUME AdapterInv, RaceInv, NEW t \in Tasks
                PROVE  LET ids == {id \in 1..Len(escrows) : escrows[id].payer = Wallet /\ escrows[id].requestId = t}
                       IN  Cardinality(ids) <= 1 /\ \A id \in ids : escrows[id].amount = value[t]
    BY DEF LockedAtMostOnce
  <2>. DEFINE ids == {id \in 1..Len(escrows) : escrows[id].payer = Wallet /\ escrows[id].requestId = t}
  <2>1. \A id \in ids : id \in EscrowIds /\ Own(id) /\ escrows[id].requestId = t
    BY ContractAssumption DEF AdapterInv, TypeOK, ContractTypeOK, EscrowIds, Own
  <2>2. \A id \in ids : escrows[id].amount = value[t]
    BY <2>1 DEF RaceInv, WalletInv
  <2>3. \A i, j \in ids : i = j
    BY <2>1 DEF RaceInv, WalletInv
  <2>. HIDE DEF ids
  <2>4. Cardinality(ids) <= 1
    <3>1. CASE ids = {}
      BY <3>1, FS_EmptySet
    <3>2. ASSUME NEW id \in ids PROVE Cardinality(ids) <= 1
      <4>1. ids = {id}
        BY <2>3
      <4>. QED  BY <4>1, FS_Singleton
    <3>. QED  BY <3>1, <3>2
  <2>. QED  BY <2>2, <2>4 DEF ids
<1>2. AdapterInv /\ [Next]_vars => AdapterInv'
  BY AdapterStep
<1>. QED  BY <1>1, <1>2, AdapterInit, RaceSafety, PTL DEF Spec

=============================================================================
