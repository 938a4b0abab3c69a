------------------------ MODULE PaymentChannelProofs ------------------------
(***************************************************************************)
(* The ledger of PaymentChannel implements Escrow, for any number of calls *)
(* and requests, any amounts, and any failures and drops.                  *)
(***************************************************************************)
EXTENDS PaymentChannel, SequenceTheorems, FiniteSetTheorems, TLAPS

Critical == {"reading", "sending", "accepted", "refused"}

\* A call is made for something, and settles only what a lock has recorded.
CallInv ==
    \A c \in Calls :
        /\ pc[c] = "idle" => call[c].op = "none"
        /\ pc[c] # "idle" => call[c].op \in Ops /\ call[c].req \in Requests
        /\ call[c].op = "lock" => call[c].amount \in Amounts
        /\ call[c].op \in {"release", "refund"} => Open(call[c].req)
        /\ call[c].op = "lock" /\ pc[c] = "ok" => Open(call[c].req)

\* The call that talks to the chain holds the mutex; the channel it opens is
\* not recorded meanwhile.
MutexInv ==
    \A c \in Calls : pc[c] \in Critical =>
        /\ owner = c
        /\ call[c].op = "lock" => ~Open(call[c].req)

\* A channel that is not settled has paid nobody.
LedgerInv ==
    \A r \in Requests : Open(r) =>
        /\ ~Settled(r) => channels[r].node = 0 /\ channels[r].seq = 0
        /\ ~Settled(r) => channels[r].client \in Amounts

IInv == TypeOK /\ CallInv /\ MutexInv /\ LedgerInv

-----------------------------------------------------------------------------
(* The two ways in which the ledger changes.                               *)

\* A channel is recorded ...
LedgerOpened(r, amount) ==
    /\ ~Open(r)
    /\ channels' = [channels EXCEPT ![r] = NewChannel(amount)]

\* ... and becomes a settled one that shares out what was locked.
LedgerSettled(r, ch) ==
    /\ Open(r) /\ ~Settled(r)
    /\ ch \in Channel /\ ch.settled
    /\ ch.client + ch.node = channels[r].client
    /\ channels' = [channels EXCEPT ![r] = ch]

LedgerStep ==
    \/ UNCHANGED channels
    \/ \E r \in Requests : \/ \E amount \in Amounts : LedgerOpened(r, amount)
                           \/ \E ch \in Channel : LedgerSettled(r, ch)

\* What the handlers do with the ledger is one of these.
LEMMA StepsOnLedger ==
    ASSUME IInv, [Next]_vars
    PROVE  LedgerStep
<1>. USE DEF IInv
<1>types. /\ channels \in [Requests -> Channel \union {None}]
          /\ Amounts \subseteq Nat /\ None \notin Calls
          /\ call \in [Calls -> [op : Ops \union {"none"}, req : Requests \union {None}, amount : Nat]]
  BY ConstantsAssumption DEF TypeOK
<1>same. ASSUME NEW c \in Calls,
                \/ StartAny(c) \/ LockDuplicate(c) \/ LockOnChain(c)
                \/ AlreadySettled(c) \/ CostTooHigh(c) \/ Rpc(c)
                \/ OpenFailed(c) \/ Closed(c) \/ Drop(c)
         PROVE  UNCHANGED channels
  BY <1>same DEF StartAny, Start, LockDuplicate, LockOnChain, AlreadySettled, CostTooHigh, Rpc,
     ReadNonce, ReadNonceFails, SendFails, Accept, RefuseStale, OpenFailed, Closed, Drop, ledger
<1>named. ASSUME NEW c \in Calls, call[c].op # "none"
          PROVE  call[c].req \in Requests
  BY <1>named DEF CallInv
<1>lock. ASSUME NEW c \in Calls, LockInMemory(c) \/ Opened(c)
         PROVE  \E r \in Requests : \E amount \in Amounts : LedgerOpened(r, amount)
  <2>1. /\ call[c].op = "lock" /\ ~Open(call[c].req)
        /\ channels' = [channels EXCEPT ![call[c].req] = NewChannel(call[c].amount)]
    BY <1>lock DEF LockInMemory, Opened, First, Open, MutexInv, Critical
  <2>2. call[c].req \in Requests /\ call[c].amount \in Amounts
    BY <2>1, <1>named DEF CallInv
  <2>. QED  BY <2>1, <2>2 DEF LedgerOpened
<1>settled. ASSUME NEW c \in Calls, Release(c) \/ Refund(c)
            PROVE  \E r \in Requests : \E ch \in Channel : LedgerSettled(r, ch)
  <2>. DEFINE r == call[c].req  ch == channels[r]
              charged == Charged(ch, call[c].amount)
  <2>1. call[c].op \in {"release", "refund"} /\ ~ch.settled /\ call[c].amount \in Nat
    BY <1>settled, <1>types DEF Release, Refund, First
  <2>2. r \in Requests /\ Open(r) /\ ch \in Channel
    BY <2>1, <1>named, <1>types DEF CallInv, Open
  <2>3. ch.node = 0 /\ ch.seq = 0 /\ ~Settled(r)
    BY <2>1, <2>2 DEF LedgerInv, Settled
  <2>4. CASE Release(c)
    <3>1. /\ channels' = [channels EXCEPT ![r] = charged]
          /\ call[c].amount <= ch.client
      BY <2>4 DEF Release
    <3>2. LedgerSettled(r, charged)
      BY <2>1, <2>2, <2>3, <3>1, <1>types DEF LedgerSettled, Charged, Channel
    <3>. QED  BY <3>2, <2>2 DEF LedgerSettled
  <2>5. CASE Refund(c)
    <3>1. channels' = [channels EXCEPT ![r] = Refunded(ch)]
      BY <2>5 DEF Refund
    <3>2. LedgerSettled(r, Refunded(ch))
      BY <2>1, <2>2, <2>3, <3>1, <1>types DEF LedgerSettled, Refunded, Channel
    <3>. QED  BY <2>2, <3>2 DEF LedgerSettled
  <2>. QED  BY <1>settled, <2>4, <2>5
<1>rest. CASE UNCHANGED vars
  BY <1>rest DEF vars, LedgerStep
<1>. QED  BY <1>same, <1>lock, <1>settled, <1>rest
          DEF LedgerStep, Next, Work, Locking, Settling, Answering

-----------------------------------------------------------------------------
(* The invariant.                                                          *)

LEMMA InitInv == Init => IInv
<1>. SUFFICES ASSUME Init PROVE IInv
  OBVIOUS
<1>1. TypeOK
  BY ConstantsAssumption DEF Init, TypeOK, Noop
<1>2. CallInv /\ MutexInv /\ LedgerInv
  BY DEF Init, CallInv, MutexInv, LedgerInv, Noop, Critical, Open
<1>. QED  BY <1>1, <1>2 DEF IInv

\* The ledger keeps its type, and no channel is ever lost.
LEMMA LedgerKept ==
    ASSUME IInv, LedgerStep
    PROVE  /\ channels' \in [Requests -> Channel \union {None}]
           /\ \A r \in Requests : Open(r) => Open(r)'
           /\ LedgerInv'
<1>. USE DEF IInv
<1>types. /\ channels \in [Requests -> Channel \union {None}] /\ Amounts \subseteq Nat
          /\ None \notin Channel
  BY ConstantsAssumption, NoneAssumption DEF TypeOK
<1>1. CASE UNCHANGED channels
  BY <1>1, <1>types DEF LedgerInv, Open, Settled
<1>2. ASSUME NEW r \in Requests, NEW amount \in Amounts, LedgerOpened(r, amount)
      PROVE  /\ channels' \in [Requests -> Channel \union {None}]
             /\ \A q \in Requests : Open(q) => Open(q)'
             /\ LedgerInv'
  <2>1. NewChannel(amount) \in Channel
    BY <1>types DEF NewChannel, Channel
  <2>2. channels'[r] = NewChannel(amount) /\ \A q \in Requests \ {r} : channels'[q] = channels[q]
    BY <1>2, <1>types DEF LedgerOpened
  <2>3. channels' \in [Requests -> Channel \union {None}]
    BY <1>2, <2>1, <1>types DEF LedgerOpened
  <2>4. \A q \in Requests : Open(q) => Open(q)'
    BY <2>1, <2>2, <1>types DEF Open
  <2>5. LedgerInv'
    BY <2>2, <1>types DEF LedgerInv, Open, Settled, NewChannel
  <2>. QED  BY <2>3, <2>4, <2>5
<1>3. ASSUME NEW r \in Requests, NEW ch \in Channel, LedgerSettled(r, ch)
      PROVE  /\ channels' \in [Requests -> Channel \union {None}]
             /\ \A q \in Requests : Open(q) => Open(q)'
             /\ LedgerInv'
  <2>1. \A q \in Requests \ {r} : channels'[q] = channels[q]
    BY <1>3, <1>types DEF LedgerSettled
  <2>2. channels'[r] = ch /\ ch \in Channel /\ ch.settled
    BY <1>3, <1>types DEF LedgerSettled
  <2>3. channels' \in [Requests -> Channel \union {None}]
    BY <1>3, <1>types DEF LedgerSettled
  <2>4. \A q \in Requests : Open(q) => Open(q)'
    BY <2>1, <2>2, <1>types DEF Open
  <2>5. LedgerInv'
    BY <2>1, <2>2, <1>types DEF LedgerInv, Open, Settled
  <2>. QED  BY <2>3, <2>4, <2>5
<1>. QED  BY <1>1, <1>2, <1>3 DEF LedgerStep

\* What is left of the invariant once the ledger is dealt with.
Rest == CallInv /\ MutexInv /\ total \in Nat
        /\ owner \in Calls \union {None} /\ queue \in Seq(Calls)
        /\ call \in [Calls -> [op : Ops \union {"none"}, req : Requests \union {None}, amount : Nat]]
        /\ pc \in [Calls -> {"idle"} \union Waiting \union Finished]
        /\ onChain \in BOOLEAN /\ nonce \in [Calls -> Nat] /\ wire \subseteq Calls
        /\ chain \in Seq(Calls) /\ stale \in Nat
        /\ faults \in 0..MaxFaults /\ drops \in 0..MaxDrops

LEMMA RestInv == IInv => Rest
  BY DEF IInv, TypeOK, Rest

\* A call that waits for its turn, and gets it, exists and has an operation.
LEMMA FirstFacts ==
    ASSUME IInv, NEW c \in Calls, NEW op \in Ops, First(c, op)
    PROVE  /\ pc[c] # "idle" /\ call[c].op = op /\ call[c].req \in Requests
           /\ queue' \in Seq(Calls)
           /\ \A k \in Calls : pc[k] \notin Critical
<1>1. queue' \in Seq(Calls)
  BY DEF First, IInv, TypeOK
<1>2. pc[c] # "idle" /\ call[c].op = op /\ call[c].req \in Requests
  BY DEF First, IInv, CallInv, Ops
<1>3. \A k \in Calls : pc[k] \notin Critical
  BY ConstantsAssumption DEF First, IInv, MutexInv
<1>. QED  BY <1>1, <1>2, <1>3

LEMMA StartStep ==
    ASSUME IInv, NEW c \in Calls, StartAny(c)
    PROVE  Rest'
<1>. USE DEF IInv
<1>1. PICK op \in Ops, r \in Requests, amount \in Nat :
         /\ Start(c, op, r, amount)
         /\ op = "lock" => amount \in Amounts
  BY ConstantsAssumption DEF StartAny, Ops
<1>2. /\ pc[c] = "idle" /\ pc' = [pc EXCEPT ![c] = "queued"]
      /\ call' = [call EXCEPT ![c] = [op |-> op, req |-> r, amount |-> amount]]
      /\ queue' = Append(queue, c) /\ UNCHANGED <<channels, total, owner, net, faults, drops>>
      /\ op # "lock" => \E k \in Calls : call[k].op = "lock" /\ call[k].req = r /\ pc[k] = "ok"
  BY <1>1 DEF Start, ledger
<1>3. op # "lock" => Open(r)
  BY <1>2 DEF CallInv
<1>4. CallInv'
  BY <1>1, <1>2, <1>3 DEF CallInv, TypeOK, Open
<1>5. MutexInv'
  BY <1>2 DEF MutexInv, TypeOK, Open, Critical
<1>. QED  BY <1>2, <1>4, <1>5, RestInv DEF Rest, net, Waiting

\* The actions that begin with the mutex.
LEMMA FirstStep ==
    ASSUME IInv, LedgerStep, NEW c \in Calls, Locking(c) \/ Settling(c)
    PROVE  Rest'
<1>. USE DEF IInv
<1>open. \A r \in Requests : Open(r) => Open(r)'
  BY LedgerKept
<1>types. /\ call \in [Calls -> [op : Ops \union {"none"}, req : Requests \union {None}, amount : Nat]]
          /\ pc \in [Calls -> {"idle"} \union Waiting \union Finished]
          /\ total \in Nat /\ owner \in Calls \union {None}
          /\ None \notin Calls
  BY ConstantsAssumption DEF TypeOK
<1>first. PICK op \in Ops : First(c, op)
  BY DEF Locking, Settling, LockDuplicate, LockInMemory, LockOnChain,
         AlreadySettled, CostTooHigh, Release, Refund, Ops
<1>facts. /\ pc[c] # "idle" /\ call[c].op = op /\ call[c].req \in Requests
          /\ queue' \in Seq(Calls)
          /\ \A k \in Calls : pc[k] \notin Critical
  BY <1>first, FirstFacts
<1>total. total' \in Nat
  BY <1>types DEF Locking, Settling, LockDuplicate, LockInMemory, LockOnChain,
     AlreadySettled, CostTooHigh, Release, Refund, Proceed, ledger, TypeOK
<1>frame. UNCHANGED <<call, net, faults, drops>>
  BY DEF Locking, Settling, LockDuplicate, LockInMemory, LockOnChain,
     AlreadySettled, CostTooHigh, Release, Refund, Proceed, ReturnAtOnce

\* Where it goes: it returns, or it goes on with the mutex.
<1>pc. \/ /\ pc' = [pc EXCEPT ![c] = "ok"] /\ owner' = owner
          /\ op = "lock" => Open(call[c].req)'
       \/ /\ pc' = [pc EXCEPT ![c] = "error"] /\ owner' = owner
       \/ /\ pc' = [pc EXCEPT ![c] = "reading"] /\ owner' = c
          /\ op = "lock" => ~Open(call[c].req)'
  <2>1. CASE LockDuplicate(c)
    BY <2>1 DEF LockDuplicate, ReturnAtOnce
  <2>2. CASE LockInMemory(c)
    <3>1. /\ channels' = [channels EXCEPT ![call[c].req] = NewChannel(call[c].amount)]
          /\ ReturnAtOnce(c, "ok")
      BY <2>2 DEF LockInMemory
    <3>2. NewChannel(call[c].amount) # None
      <4>1. NewChannel(call[c].amount) \in Channel
        BY <1>types DEF NewChannel, Channel
      <4>. QED  BY <4>1, NoneAssumption
    <3>. QED  BY <3>1, <3>2, <1>facts, <1>frame DEF ReturnAtOnce, Open, TypeOK
  <2>3. CASE LockOnChain(c)
    BY <2>3, <1>frame DEF LockOnChain, Proceed, Open, ledger
  <2>4. CASE AlreadySettled(c) \/ CostTooHigh(c)
    BY <2>4, <1>facts DEF AlreadySettled, CostTooHigh, ReturnAtOnce, First
  <2>5. CASE Release(c) \/ Refund(c)
    <3>1. op # "lock" /\ Proceed(c)
      BY <2>5, <1>facts DEF Release, Refund, First
    <3>. QED  BY <3>1 DEF Proceed, ReturnAtOnce
  <2>. QED  BY <2>1, <2>2, <2>3, <2>4, <2>5 DEF Locking, Settling
<1>1. CallInv'
  <2>1. ASSUME NEW k \in Calls, k # c
        PROVE  pc'[k] = pc[k]
    BY <2>1, <1>pc, <1>types
  <2>2. pc'[c] # "idle"
    BY <1>pc, <1>types
  <2>3. call' = call
    BY <1>frame
  <2>4. op = "lock" /\ pc'[c] = "ok" => Open(call[c].req)'
    BY <1>pc, <1>types
  <2>5. \A k \in Calls : call[k].op # "none" => call[k].req \in Requests
    BY DEF CallInv
  <2>. QED  BY <2>1, <2>2, <2>3, <2>4, <2>5, <1>open, <1>facts DEF CallInv, Open, Ops
<1>2. MutexInv'
  BY <1>pc, <1>facts, <1>types, <1>frame DEF MutexInv, Critical, Open
<1>3. /\ pc' \in [Calls -> {"idle"} \union Waiting \union Finished]
      /\ owner' \in Calls \union {None}
  BY <1>pc, <1>types DEF Waiting, Finished
<1>. QED  BY <1>1, <1>2, <1>3, <1>facts, <1>total, <1>frame, RestInv DEF Rest, net

\* The exchange with the chain, its answer, and a drop.
LEMMA ChainStep ==
    ASSUME IInv, LedgerStep, NEW c \in Calls, Rpc(c) \/ Answering(c) \/ Drop(c)
    PROVE  Rest'
<1>. USE DEF IInv
<1>open. \A r \in Requests : Open(r) => Open(r)'
  BY LedgerKept
<1>types. /\ pc \in [Calls -> {"idle"} \union Waiting \union Finished]
          /\ owner \in Calls \union {None} /\ None \notin Calls
          /\ queue \in Seq(Calls) /\ chain \in Seq(Calls) /\ stale \in Nat
          /\ nonce \in [Calls -> Nat] /\ wire \subseteq Calls
          /\ faults \in 0..MaxFaults /\ drops \in 0..MaxDrops
          /\ MaxFaults \in Nat /\ MaxDrops \in Nat
  BY ConstantsAssumption DEF TypeOK
<1>frame. UNCHANGED <<call, onChain, total>>
  BY DEF Rpc, ReadNonce, ReadNonceFails, SendFails, Accept, RefuseStale, Answering, Opened,
     OpenFailed, Closed, Drop, ledger, net

\* It keeps the mutex and goes on, or gives it up and is done.
<1>pc. /\ pc' \in [Calls -> {"idle"} \union Waiting \union Finished]
       /\ \A k \in Calls \ {c} : pc'[k] = pc[k]
       /\ pc'[c] = "idle" <=> pc[c] = "idle"
       /\ call[c].op = "lock" /\ pc'[c] = "ok" =>
             channels[call[c].req] # None \/ channels'[call[c].req] # None
       /\ pc'[c] \in Critical => pc[c] \in Critical
       /\ \/ UNCHANGED <<channels, owner>>
          \/ pc[c] \in Critical /\ pc'[c] \notin Critical
          \/ Drop(c)
  <2>. USE DEF Critical, Waiting, Finished
  <2>1. CASE ReadNonce(c) \/ ReadNonceFails(c) \/ SendFails(c)
    BY <2>1, <1>types DEF ReadNonce, ReadNonceFails, SendFails, ledger, mutex
  <2>2. CASE Accept(c) \/ RefuseStale(c)
    <3>1. \/ pc[c] = "sending" /\ pc' = [pc EXCEPT ![c] = "accepted"]
          \/ pc[c] = "sending" /\ pc' = [pc EXCEPT ![c] = "refused"]
          \/ pc' = [pc EXCEPT ![c] = pc[c]]
      BY <2>2 DEF Accept, RefuseStale
    <3>2. pc' = [pc EXCEPT ![c] = pc[c]] => pc' = pc
      BY <1>types
    <3>3. UNCHANGED <<channels, owner>>
      BY <2>2 DEF Accept, RefuseStale, ledger, mutex
    <3>4. CASE pc' = pc
      BY <3>3, <3>4, <1>types DEF CallInv, Open
    <3>5. CASE pc[c] = "sending" /\ pc' = [pc EXCEPT ![c] = "accepted"]
      BY <3>3, <3>5, <1>types
    <3>6. CASE pc[c] = "sending" /\ pc' = [pc EXCEPT ![c] = "refused"]
      BY <3>3, <3>6, <1>types
    <3>. QED  BY <3>1, <3>2, <3>4, <3>5, <3>6
  <2>3. CASE Opened(c)
    <3>1. NewChannel(call[c].amount) # None
      <4>1. NewChannel(call[c].amount) \in Channel
        BY DEF NewChannel, Channel, TypeOK
      <4>. QED  BY <4>1, NoneAssumption
    <3>2. call[c].req \in Requests
      BY <2>3 DEF Opened, CallInv
    <3>3. channels' = [channels EXCEPT ![call[c].req] = NewChannel(call[c].amount)]
      BY <2>3 DEF Opened
    <3>4. channels'[call[c].req] # None
      BY <3>1, <3>2, <3>3 DEF TypeOK
    <3>. QED  BY <2>3, <3>4, <1>types DEF Opened, Return
  <2>4. CASE OpenFailed(c) \/ Closed(c)
    BY <2>4, <1>types DEF OpenFailed, Closed, Return, ledger
  <2>5. CASE Drop(c)
    BY <2>5, <1>types DEF Drop, ledger
  <2>. QED  BY <2>1, <2>2, <2>3, <2>4, <2>5 DEF Rpc, Answering
<1>drop. ASSUME Drop(c)
         PROVE  /\ pc[c] # "idle" /\ pc' = [pc EXCEPT ![c] = "dropped"]
                /\ owner' = IF owner = c THEN None ELSE owner
                /\ channels' = channels /\ queue' \in Seq(Calls)
                /\ drops' \in 0..MaxDrops /\ UNCHANGED <<net, faults>>
  <2>1. queue' \in Seq(Calls)
    <3>1. ASSUME NEW i \in 1..Len(queue)
          PROVE  SubSeq(queue, 1, i - 1) \o SubSeq(queue, i + 1, Len(queue)) \in Seq(Calls)
      <4>1. Len(queue) \in Nat /\ i \in Nat
        BY <1>types
      <4>2. SubSeq(queue, 1, i - 1) \in Seq(Calls)
        BY <1>types, <4>1, SubSeqProperties
      <4>3. SubSeq(queue, i + 1, Len(queue)) \in Seq(Calls)
        BY <1>types, <4>1, SubSeqProperties
      <4>. QED  BY <4>2, <4>3, ConcatProperties
    <3>. QED  BY <1>drop, <3>1, <1>types DEF Drop, LeaveQueue
  <2>. QED  BY <1>drop, <2>1, <1>types DEF Drop, Waiting, ledger
<1>1. CallInv'
  <2>1. call' = call
    BY <1>frame
  <2>2. \A k \in Calls : call[k].op # "none" => call[k].req \in Requests
    BY DEF CallInv
  <2>3. \A k \in Calls : pc'[k] = "idle" <=> pc[k] = "idle"
    BY <1>pc
  <2>4. \A k \in Calls : call[k].op = "lock" /\ pc'[k] = "ok" => Open(call[k].req)'
    <3>1. \A k \in Calls : call[k].op = "lock" /\ pc'[k] = "ok" =>
              channels[call[k].req] # None \/ channels'[call[k].req] # None
      BY <1>pc DEF CallInv, Open
    <3>. QED  BY <3>1, <2>1, <2>2, <1>open DEF Open
  <2>. QED  BY <2>1, <2>2, <2>3, <2>4, <1>open DEF CallInv, Open
<1>2. MutexInv'
  <2>1. CASE Drop(c)
    BY <2>1, <1>drop, <1>frame, <1>types DEF MutexInv, Open, Critical
  <2>2. CASE UNCHANGED <<channels, owner>>
    BY <2>2, <1>frame, <1>pc DEF MutexInv, Open
  <2>3. CASE pc[c] \in Critical /\ pc'[c] \notin Critical
    BY <2>3, <1>pc DEF MutexInv
  <2>. QED  BY <2>1, <2>2, <2>3, <1>pc
<1>3. owner' \in Calls \union {None}
  BY <1>types DEF Rpc, ReadNonce, ReadNonceFails, SendFails, Accept, RefuseStale, Answering, Opened,
     OpenFailed, Closed, Return, Drop, mutex
<1>4. /\ queue' \in Seq(Calls) /\ nonce' \in [Calls -> Nat] /\ wire' \subseteq Calls
      /\ chain' \in Seq(Calls) /\ stale' \in Nat
      /\ faults' \in 0..MaxFaults /\ drops' \in 0..MaxDrops
  <2>1. CASE Rpc(c)
    <3>1. CASE ReadNonce(c)
      <4>1. Len(chain) \in Nat
        BY <1>types
      <4>. QED  BY <4>1, <3>1, <1>types DEF ReadNonce, mutex
    <3>2. CASE ReadNonceFails(c) \/ SendFails(c)
      BY <3>2, <1>types DEF ReadNonceFails, SendFails, Fault, mutex, net
    <3>3. CASE Accept(c)
      <4>1. Append(chain, c) \in Seq(Calls)
        BY <1>types
      <4>2. faults' \in 0..MaxFaults
        BY <3>3, <1>types DEF Accept, Fault
      <4>. QED  BY <4>1, <4>2, <3>3, <1>types DEF Accept, mutex
    <3>4. CASE RefuseStale(c)
      BY <3>4, <1>types DEF RefuseStale, mutex
    <3>. QED  BY <2>1, <3>1, <3>2, <3>3, <3>4 DEF Rpc
  <2>2. CASE Answering(c)
    BY <2>2, <1>types DEF Answering, Opened, OpenFailed, Closed, net
  <2>3. CASE Drop(c)
    BY <2>3, <1>drop, <1>types DEF net
  <2>. QED  BY <2>1, <2>2, <2>3
<1>. QED  BY <1>1, <1>2, <1>3, <1>4, <1>pc, <1>frame, RestInv DEF Rest

LEMMA StepInv == IInv /\ [Next]_vars => IInv'
<1>. SUFFICES ASSUME IInv, [Next]_vars PROVE IInv'
  OBVIOUS
<1>1. LedgerStep
  BY StepsOnLedger
<1>2. channels' \in [Requests -> Channel \union {None}] /\ LedgerInv'
  BY <1>1, LedgerKept
<1>3. Rest'
  <2>1. ASSUME NEW c \in Calls, StartAny(c) \/ Work(c) \/ Drop(c)
        PROVE  Rest'
    BY <2>1, <1>1, StartStep, FirstStep, ChainStep DEF Work
  <2>2. CASE UNCHANGED vars
    BY <2>2 DEF vars, IInv, TypeOK, Rest, CallInv, MutexInv, Open
  <2>. QED  BY <2>1, <2>2 DEF Next
<1>. QED  BY <1>2, <1>3 DEF IInv, TypeOK, Rest

THEOREM LedgerSafety == Spec => []IInv
  BY InitInv, StepInv, PTL DEF Spec

\* The types; in particular no balance ever goes below zero, whatever a proof
\* charges and however often a channel is released or refunded.
THEOREM ChannelTypes == Spec => []TypeOK
<1>1. IInv => TypeOK
  BY DEF IInv
<1>. QED  BY <1>1, LedgerSafety, PTL

-----------------------------------------------------------------------------
(* The refinement: a channel recorded is Escrow's Open, a channel settled   *)
(* its Settle, and every other step a stutter.                             *)

LEMMA EscrowInit == Init => E!Init
  BY DEF Init, E!Init, Held, ToNode, ToClient, Phase, Open, Settled

LEMMA EscrowOpened ==
    ASSUME IInv, NEW r \in Requests, NEW amount \in Amounts, LedgerOpened(r, amount)
    PROVE  E!Open(r, amount)
<1>types. /\ channels \in [Requests -> Channel \union {None}] /\ Amounts \subseteq Nat
          /\ None \notin Channel
  BY ConstantsAssumption, NoneAssumption DEF IInv, TypeOK
<1>1. NewChannel(amount) \in Channel /\ NewChannel(amount) # None
  <2>1. NewChannel(amount) \in Channel
    BY <1>types DEF NewChannel, Channel
  <2>. QED  BY <2>1, <1>types
<1>2. /\ channels[r] = None /\ channels'[r] = NewChannel(amount)
      /\ \A q \in Requests \ {r} : channels'[q] = channels[q]
  BY <1>types DEF LedgerOpened, Open
<1>3. Phase(r) = "none"
  BY <1>2 DEF Phase, Settled, Open
<1>4. /\ Held(r)' = amount /\ ToNode(r)' = ToNode(r) /\ ToClient(r)' = ToClient(r)
      /\ Phase(r)' = "held"
  BY <1>1, <1>2 DEF Held, ToNode, ToClient, Phase, Settled, Open, NewChannel
<1>5. ASSUME NEW q \in Requests \ {r}
      PROVE  /\ Held(q)' = Held(q) /\ ToNode(q)' = ToNode(q)
             /\ ToClient(q)' = ToClient(q) /\ Phase(q)' = Phase(q)
  BY <1>2, <1>5 DEF Held, ToNode, ToClient, Phase, Settled, Open
<1>. QED  BY <1>3, <1>4, <1>5 DEF E!Open

LEMMA EscrowSettled ==
    ASSUME IInv, NEW r \in Requests, NEW ch \in Channel, LedgerSettled(r, ch)
    PROVE  /\ ch.node \in 0..Held(r)
           /\ E!Settle(r, ch.node)
<1>types. channels \in [Requests -> Channel \union {None}] /\ None \notin Channel
  BY NoneAssumption DEF IInv, TypeOK
<1>1. /\ channels[r] \in Channel /\ channels'[r] = ch
      /\ Open(r) /\ ~Settled(r) /\ ch # None
      /\ ch.settled /\ ch.client + ch.node = channels[r].client
      /\ \A q \in Requests \ {r} : channels'[q] = channels[q]
  BY <1>types DEF LedgerSettled, Open
<1>2. Held(r) = channels[r].client /\ ch.client \in Nat /\ ch.node \in Nat
      /\ channels[r].client \in Nat
  BY <1>1 DEF Held, Channel
<1>3. ch.node \in 0..Held(r) /\ ch.client = Held(r) - ch.node
  BY <1>1, <1>2
<1>4. Phase(r) = "held"
  BY <1>1 DEF Phase
<1>5. /\ Held(r)' = 0 /\ ToNode(r)' = ch.node /\ ToClient(r)' = ch.client
      /\ Phase(r)' = "paid"
  BY <1>1 DEF Held, ToNode, ToClient, Phase, Settled, Open
<1>6. ASSUME NEW q \in Requests \ {r}
      PROVE  /\ Held(q)' = Held(q) /\ ToNode(q)' = ToNode(q)
             /\ ToClient(q)' = ToClient(q) /\ Phase(q)' = Phase(q)
  BY <1>1, <1>6 DEF Held, ToNode, ToClient, Phase, Settled, Open
<1>. QED  BY <1>3, <1>4, <1>5, <1>6 DEF E!Settle

LEMMA EscrowStep == IInv /\ [Next]_vars => [E!Next]_E!escrowVars
<1>. SUFFICES ASSUME IInv, [Next]_vars PROVE [E!Next]_E!escrowVars
  OBVIOUS
<1>1. CASE UNCHANGED channels
  BY <1>1 DEF E!escrowVars, Held, ToNode, ToClient, Phase, Settled, Open
<1>2. ASSUME NEW r \in Requests, NEW amount \in Amounts, LedgerOpened(r, amount)
      PROVE  E!Next
  <2>1. E!Open(r, amount)
    BY <1>2, EscrowOpened
  <2>. QED  BY <2>1 DEF E!Next
<1>3. ASSUME NEW r \in Requests, NEW ch \in Channel, LedgerSettled(r, ch)
      PROVE  E!Next
  <2>1. ch.node \in 0..Held(r) /\ E!Settle(r, ch.node)
    BY <1>3, EscrowSettled
  <2>. QED  BY <2>1 DEF E!Next
<1>. QED  BY <1>1, <1>2, <1>3, StepsOnLedger DEF LedgerStep

\* The ledger implements Escrow: a channel is opened once and settled once, and
\* its settlement pays out all of what was locked.
THEOREM LedgerIsEscrow == Spec => EscrowSpec
<1>. QED  BY LedgerSafety, EscrowInit, EscrowStep, PTL DEF Spec, EscrowSpec, E!Spec

-----------------------------------------------------------------------------
(* The chain and the wallet's nonce.                                       *)

InChain(c) == \E i \in 1..Len(chain) : chain[i] = c

\* A transaction is sent once: it leaves when the nonce was read, and is on the
\* wire until the chain has decided on it.
WireInv ==
    /\ IsFiniteSet(wire)
    /\ \A c \in Calls :
          /\ c \in wire => pc[c] \in {"sending", "dropped"} /\ ~InChain(c)
          /\ pc[c] = "sending" => c \in wire
          /\ pc[c] = "accepted" => InChain(c)
          /\ InChain(c) => pc[c] \notin {"idle", "queued", "reading", "sending"}
    /\ \A i, j \in 1..Len(chain) : chain[i] = chain[j] => i = j

\* Transactions that may yet be refused for their nonce: what dropped calls have
\* left on the wire, and one that such a transaction has overtaken.
Doomed == {c \in wire : pc[c] = "dropped" \/ nonce[c] # Len(chain)}

NonceInv == stale + Cardinality(Doomed) <= drops

\* A call that may tell the chain of a settlement, or has told it.
Tells(c) == call[c].op \in {"release", "refund"} /\ (pc[c] \in Critical \/ c \in wire \/ InChain(c))

\* It was the call that settled the channel, and there is one such call.
TellsInv ==
    \A c \in Calls : Tells(c) =>
        /\ Settled(call[c].req) /\ channels[call[c].req].node = call[c].amount
        /\ \A d \in Calls : Tells(d) /\ call[d].req = call[c].req => d = c

\* Transaction i of the chain has opened the channel of r.
Opens(i, r) == call[chain[i]].op = "lock" /\ call[chain[i]].req = r

\* What the ledger records was opened on the chain, and was open before it was closed.
OpenedInv ==
    onChain => \A r \in Requests :
        /\ Open(r) => \E i \in 1..Len(chain) :
              Opens(i, r) /\ call[chain[i]].amount = channels[r].client + channels[r].node
        /\ \A i \in 1..Len(chain) :
              call[chain[i]].op \in {"release", "refund"} /\ call[chain[i]].req = r =>
                  \E j \in 1..Len(chain) : j < i /\ Opens(j, r)

\* A refund charges nothing.
RefundInv == \A c \in Calls : call[c].op = "refund" => call[c].amount = 0

\* The calls that wait for the mutex wait once.
QueueInv ==
    /\ \A i \in 1..Len(queue) : pc[queue[i]] = "queued"
    /\ \A i, j \in 1..Len(queue) : queue[i] = queue[j] => i = j

ChainInv == QueueInv /\ WireInv /\ NonceInv /\ TellsInv /\ OpenedInv /\ RefundInv

LEMMA ChainInit == Init => ChainInv
<1>. SUFFICES ASSUME Init PROVE ChainInv
  OBVIOUS
<1>1. Len(queue) = 0 /\ Len(chain) = 0
  BY DEF Init
<1>2. QueueInv /\ WireInv
  BY <1>1, FS_EmptySet DEF Init, QueueInv, WireInv, InChain
<1>3. NonceInv
  <2>1. Doomed = {}
    BY DEF Init, Doomed
  <2>. QED  BY <2>1, FS_EmptySet DEF Init, NonceInv
<1>4. TellsInv /\ OpenedInv /\ RefundInv
  BY <1>1 DEF Init, TellsInv, Tells, InChain, OpenedInv, Open, RefundInv, Noop
<1>. QED  BY <1>2, <1>3, <1>4 DEF ChainInv

\* What a ledger step leaves alone: the settled channels, and the sum of each.
LEMMA LedgerBalance ==
    ASSUME IInv, LedgerStep, NEW r \in Requests
    PROVE  /\ Settled(r) => channels'[r] = channels[r] /\ Settled(r)'
           /\ Open(r) => channels'[r].client + channels'[r].node = channels[r].client + channels[r].node
<1>types. channels \in [Requests -> Channel \union {None}] /\ LedgerInv
  BY DEF IInv, TypeOK
<1>1. CASE UNCHANGED channels
  BY <1>1 DEF Settled, Open
<1>2. ASSUME NEW q \in Requests, NEW amount \in Amounts, LedgerOpened(q, amount)
      PROVE  /\ Settled(r) => channels'[r] = channels[r] /\ Settled(r)'
             /\ Open(r) => channels'[r] = channels[r]
  BY <1>2, <1>types DEF LedgerOpened, Settled, Open
<1>3. ASSUME NEW q \in Requests, NEW ch \in Channel, LedgerSettled(q, ch)
      PROVE  /\ Settled(r) => channels'[r] = channels[r] /\ Settled(r)'
             /\ Open(r) => channels'[r].client + channels'[r].node = channels[r].client + channels[r].node
  <2>1. CASE r = q
    <3>1. channels'[r] = ch /\ channels[r].node = 0 /\ ~Settled(r)
      BY <1>3, <2>1, <1>types DEF LedgerSettled, LedgerInv
    <3>2. channels[r] \in Channel /\ ch.client + ch.node = channels[r].client
      BY <1>3, <2>1, <1>types DEF LedgerSettled, Open
    <3>3. channels[r].client \in Nat
      BY <3>2 DEF Channel
    <3>. QED  BY <3>1, <3>2, <3>3
  <2>2. CASE r # q
    BY <1>3, <2>2, <1>types DEF LedgerSettled, Settled, Open
  <2>. QED  BY <2>1, <2>2
<1>. QED  BY <1>1, <1>2, <1>3 DEF LedgerStep

-----------------------------------------------------------------------------
(* The queue of the mutex.                                                 *)

\* A call that is first has waited, and is no longer in the queue.
LEMMA FirstLeaves ==
    ASSUME IInv, QueueInv, NEW c \in Calls, NEW op \in Ops, First(c, op)
    PROVE  /\ pc[c] = "queued"
           /\ \A i \in 1..Len(queue') : queue'[i] # c /\ pc[queue'[i]] = "queued"
           /\ \A i, j \in 1..Len(queue') : queue'[i] = queue'[j] => i = j
<1>types. queue \in Seq(Calls) /\ queue # <<>> /\ queue' = Tail(queue) /\ c = queue[1]
  BY DEF First, IInv, TypeOK
<1>1. /\ Len(queue) \in Nat \ {0} /\ Len(queue') = Len(queue) - 1
      /\ \A i \in 1..Len(queue') : queue'[i] = queue[i + 1]
  BY <1>types, HeadTailProperties, EmptySeq
<1>. QED  BY <1>1, <1>types DEF QueueInv

\* A call that leaves the queue leaves all others in it, in their order.
LEMMA DroppedLeaves ==
    ASSUME IInv, QueueInv, NEW c \in Calls, LeaveQueue(c)
    PROVE  /\ \A i \in 1..Len(queue') : queue'[i] # c /\ pc[queue'[i]] = "queued"
           /\ \A i, j \in 1..Len(queue') : queue'[i] = queue'[j] => i = j
<1>types. queue \in Seq(Calls) /\ Len(queue) \in Nat
  BY DEF IInv, TypeOK
<1>1. CASE pc[c] # "queued" /\ queue' = queue
  BY <1>1 DEF QueueInv
<1>2. ASSUME NEW k \in 1..Len(queue), queue[k] = c,
             queue' = SubSeq(queue, 1, k - 1) \o SubSeq(queue, k + 1, Len(queue))
      PROVE  /\ \A i \in 1..Len(queue') : queue'[i] # c /\ pc[queue'[i]] = "queued"
             /\ \A i, j \in 1..Len(queue') : queue'[i] = queue'[j] => i = j
  <2>. DEFINE before == SubSeq(queue, 1, k - 1)  after == SubSeq(queue, k + 1, Len(queue))
  <2>1. /\ before \in Seq(Calls) /\ Len(before) = k - 1
        /\ \A i \in 1..(k - 1) : before[i] = queue[i]
    BY <1>types, SubSeqProperties
  <2>2. /\ after \in Seq(Calls) /\ Len(after) = Len(queue) - k
        /\ \A i \in 1..(Len(queue) - k) : after[i] = queue[k + i]
    <3>1. /\ after \in Seq(Calls)
          /\ Len(after) = IF k + 1 <= Len(queue) THEN Len(queue) - (k + 1) + 1 ELSE 0
          /\ \A i \in 1..(Len(queue) - (k + 1) + 1) : after[i] = queue[(k + 1) + i - 1]
      BY <1>types, SubSeqProperties
    <3>2. \A i \in 1..(Len(queue) - k) : i \in 1..(Len(queue) - (k + 1) + 1) /\ (k + 1) + i - 1 = k + i
      BY <1>types
    <3>. QED  BY <3>1, <3>2, <1>types
  <2>3. /\ Len(queue') = Len(queue) - 1
        /\ \A i \in 1..Len(queue') : queue'[i] = queue[IF i < k THEN i ELSE i + 1]
    <3>. HIDE DEF before, after
    <3>1. /\ Len(before \o after) = (k - 1) + (Len(queue) - k)
          /\ \A i \in 1..((k - 1) + (Len(queue) - k)) :
                (before \o after)[i] = IF i <= k - 1 THEN before[i] ELSE after[i - (k - 1)]
      <4>1. /\ Len(before \o after) = Len(before) + Len(after)
            /\ \A i \in 1..(Len(before) + Len(after)) :
                  (before \o after)[i] = IF i <= Len(before) THEN before[i] ELSE after[i - Len(before)]
        BY <2>1, <2>2, ConcatProperties, Zenon
      <4>. QED  BY <4>1, <2>1, <2>2
    <3>2. queue' = before \o after
      BY <1>2 DEF before, after
    <3>3. Len(queue') = Len(queue) - 1
      BY <3>1, <3>2, <1>types
    <3>4. ASSUME NEW i \in 1..Len(queue')
          PROVE  queue'[i] = queue[IF i < k THEN i ELSE i + 1]
      <4>1. CASE i < k
        <5>1. i \in 1..(k - 1) /\ i \in 1..((k - 1) + (Len(queue) - k))
          BY <4>1, <3>3, <1>types
        <5>2. queue'[i] = before[i]
          BY <5>1, <3>1, <3>2
        <5>3. before[i] = queue[i]
          BY <5>1, <2>1
        <5>. QED  BY <5>2, <5>3, <4>1
      <4>2. CASE ~(i < k)
        <5>1. queue'[i] = after[i - (k - 1)]
          <6>1. i \in 1..((k - 1) + (Len(queue) - k)) /\ ~(i <= k - 1)
            BY <4>2, <3>3, <1>types
          <6>. QED  BY <6>1, <3>1, <3>2
        <5>2. i - (k - 1) \in 1..(Len(queue) - k) /\ k + (i - (k - 1)) = i + 1
          BY <4>2, <3>3, <1>types
        <5>. QED  BY <5>1, <5>2, <2>2, <4>2
      <4>. QED  BY <4>1, <4>2
    <3>. QED  BY <3>3, <3>4
  <2>. HIDE DEF before, after
  <2>4. \A i \in 1..Len(queue') : (IF i < k THEN i ELSE i + 1) \in 1..Len(queue) \ {k}
    BY <2>3, <1>types
  <2>5. \A i \in 1..Len(queue') : queue'[i] # c /\ pc[queue'[i]] = "queued"
    <3>1. ASSUME NEW m \in 1..Len(queue) \ {k}
          PROVE  queue[m] # c /\ pc[queue[m]] = "queued"
      BY <3>1, <1>2 DEF QueueInv
    <3>. QED  BY <2>3, <2>4, <3>1
  <2>6. ASSUME NEW i \in 1..Len(queue'), NEW j \in 1..Len(queue'), queue'[i] = queue'[j]
        PROVE  i = j
    <3>. DEFINE p == IF i < k THEN i ELSE i + 1
                q == IF j < k THEN j ELSE j + 1
    <3>1. p \in 1..Len(queue) /\ q \in 1..Len(queue)
      BY <2>4
    <3>2. queue[p] = queue[q]
      BY <2>3, <2>6
    <3>. HIDE DEF p, q
    <3>3. p = q
      BY <3>1, <3>2 DEF QueueInv
    <3>4. i \in Nat /\ j \in Nat /\ k \in Nat
      BY <2>3, <1>types
    <3>. QED  BY <3>3, <3>4 DEF p, q
  <2>. QED  BY <2>5, <2>6
<1>. QED  BY <1>1, <1>2 DEF LeaveQueue

LEMMA QueueStep ==
    ASSUME IInv, QueueInv, NEW c \in Calls, StartAny(c) \/ Work(c) \/ Drop(c)
    PROVE  QueueInv'
<1>types. /\ queue \in Seq(Calls) /\ Len(queue) \in Nat
          /\ pc \in [Calls -> {"idle"} \union Waiting \union Finished]
  BY DEF IInv, TypeOK
<1>same. ASSUME queue' = queue, pc[c] # "queued", \A k \in Calls \ {c} : pc'[k] = pc[k]
         PROVE  QueueInv'
  <2>1. \A i \in 1..Len(queue) : queue[i] \in Calls \ {c}
    BY <1>same, <1>types DEF QueueInv
  <2>. QED  BY <2>1, <1>same DEF QueueInv
<1>left. ASSUME \A i \in 1..Len(queue') : queue'[i] # c /\ pc[queue'[i]] = "queued",
                \A i, j \in 1..Len(queue') : queue'[i] = queue'[j] => i = j,
                queue' \in Seq(Calls), \A k \in Calls \ {c} : pc'[k] = pc[k]
         PROVE  QueueInv'
  <2>1. \A i \in 1..Len(queue') : queue'[i] \in Calls \ {c}
    BY <1>left
  <2>. QED  BY <2>1, <1>left DEF QueueInv
<1>1. CASE StartAny(c)
  <2>1. /\ queue' = Append(queue, c) /\ pc[c] = "idle"
        /\ pc' = [pc EXCEPT ![c] = "queued"]
    BY <1>1 DEF StartAny, Start
  <2>2. /\ Len(queue') = Len(queue) + 1
        /\ \A i \in 1..Len(queue) : queue'[i] = queue[i] /\ queue[i] \in Calls \ {c}
        /\ queue'[Len(queue) + 1] = c
    BY <2>1, <1>types, AppendProperties DEF QueueInv
  <2>. QED  BY <2>1, <2>2, <1>types DEF QueueInv
<1>2. CASE Locking(c) \/ Settling(c)
  <2>1. PICK op \in Ops : First(c, op)
    BY <1>2 DEF Locking, Settling, LockDuplicate, LockInMemory, LockOnChain,
           AlreadySettled, CostTooHigh, Release, Refund, Ops
  <2>2. \E result : pc' = [pc EXCEPT ![c] = result]
    BY <1>2 DEF Locking, Settling, LockDuplicate, LockInMemory, LockOnChain,
           AlreadySettled, CostTooHigh, Release, Refund, Proceed, ReturnAtOnce
  <2>3. queue' \in Seq(Calls) /\ \A k \in Calls \ {c} : pc'[k] = pc[k]
    BY <2>1, <2>2, FirstFacts, <1>types
  <2>. QED  BY <2>1, <2>3, FirstLeaves, <1>left
<1>3. CASE Rpc(c) \/ Answering(c)
  <2>1. UNCHANGED queue /\ \E result : pc' = [pc EXCEPT ![c] = result]
    BY <1>3 DEF Rpc, ReadNonce, ReadNonceFails, SendFails, Accept, RefuseStale, Answering,
       Opened, OpenFailed, Closed, Return, mutex
  <2>2. CASE pc[c] # "queued"
    BY <2>1, <2>2, <1>same, <1>types
  \* The answer to a call in the queue: there is none, and it would change nothing.
  <2>3. CASE pc[c] = "queued"
    <3>1. pc' = pc
      BY <1>3, <2>3, <1>types DEF Rpc, ReadNonce, ReadNonceFails, SendFails, Accept, RefuseStale,
         Answering, Opened, OpenFailed, Closed
    <3>. QED  BY <2>1, <3>1 DEF QueueInv
  <2>. QED  BY <2>2, <2>3
<1>4. CASE Drop(c)
  <2>1. LeaveQueue(c) /\ pc' = [pc EXCEPT ![c] = "dropped"]
    BY <1>4 DEF Drop
  <2>2. queue' \in Seq(Calls)
    <3>1. Drop(c) => Rest'
      <4>1. LedgerStep
        BY <1>4, StepsOnLedger DEF Next
      <4>. QED  BY <4>1, ChainStep
    <3>. QED  BY <1>4, <3>1 DEF Rest
  <2>. QED  BY <2>1, <2>2, DroppedLeaves, <1>left, <1>types
<1>. QED  BY <1>1, <1>2, <1>3, <1>4 DEF Work

-----------------------------------------------------------------------------
(* Steps that leave the wire alone.                                        *)

Quiet(c) == StartAny(c) \/ Locking(c) \/ Settling(c) \/ ReadNonceFails(c) \/ Answering(c)

\* Where they lead: c starts or waits, goes on to read its nonce as the settler of
\* its channel or to open one, or ends.
LEMMA QuietMoves ==
    ASSUME IInv, QueueInv, RefundInv, NEW c \in Calls, Quiet(c)
    PROVE  /\ UNCHANGED <<net, drops>> /\ \A k \in Calls \ {c} : pc'[k] = pc[k] /\ call'[k] = call[k]
           /\ \/ pc[c] = "idle" /\ pc'[c] = "queued"
              \/ call'[c] = call[c] /\
                 \/ pc[c] = "queued" /\ pc'[c] \in {"ok", "error"}
                 \/ pc[c] = "queued" /\ pc'[c] = "reading" /\ call[c].op = "lock"
                 \/ /\ pc[c] = "queued" /\ pc'[c] = "reading" /\ Open(call[c].req) /\ ~Settled(call[c].req)
                    /\ Settled(call[c].req)' /\ channels'[call[c].req].node = call[c].amount
                 \/ pc[c] = "reading" /\ pc'[c] = "refused"
                 \/ pc[c] \in {"accepted", "refused"} /\ pc'[c] \in {"ok", "error"}
<1>types. /\ channels \in [Requests -> Channel \union {None}] /\ None \notin Channel
          /\ call \in [Calls -> [op : Ops \union {"none"}, req : Requests \union {None}, amount : Nat]]
          /\ pc \in [Calls -> {"idle"} \union Waiting \union Finished]
  BY NoneAssumption DEF IInv, TypeOK
<1>1. CASE StartAny(c)
  BY <1>1, <1>types DEF StartAny, Start
<1>first. ASSUME NEW op \in Ops, First(c, op)
          PROVE  pc[c] = "queued"
  BY <1>first, FirstLeaves
<1>2. CASE LockDuplicate(c) \/ LockInMemory(c) \/ AlreadySettled(c) \/ CostTooHigh(c)
  <2>1. pc[c] = "queued"
    BY <1>2, <1>first DEF LockDuplicate, LockInMemory, AlreadySettled, CostTooHigh, Ops
  <2>2. ReturnAtOnce(c, "ok") \/ ReturnAtOnce(c, "error")
    BY <1>2 DEF LockDuplicate, LockInMemory, AlreadySettled, CostTooHigh
  <2>. QED  BY <2>1, <2>2, <1>types DEF ReturnAtOnce
<1>3. CASE LockOnChain(c)
  <2>1. pc[c] = "queued" /\ call[c].op = "lock"
    BY <1>3, <1>first DEF LockOnChain, Ops, First
  <2>. QED  BY <1>3, <2>1, <1>types DEF LockOnChain, Proceed, ReturnAtOnce
<1>4. ASSUME NEW op \in {"release", "refund"}, First(c, op), ~channels[call[c].req].settled,
             Proceed(c), NEW ch \in Channel, ch.settled,
             op = "release" => ch.node = channels[call[c].req].node + call[c].amount,
             op = "refund" => ch.node = channels[call[c].req].node,
             channels' = [channels EXCEPT ![call[c].req] = ch]
      PROVE  /\ pc[c] = "queued" /\ UNCHANGED <<net, drops, call>>
             /\ \/ pc' = [pc EXCEPT ![c] = "ok"]
                \/ pc' = [pc EXCEPT ![c] = "reading"]
             /\ Open(call[c].req) /\ ~Settled(call[c].req)
             /\ Settled(call[c].req)' /\ channels'[call[c].req].node = call[c].amount
  <2>. DEFINE r == call[c].req
  <2>1. pc[c] = "queued" /\ call[c].op = op /\ r \in Requests
    BY <1>4, <1>first, FirstFacts DEF Ops
  <2>2. Open(r) /\ ~Settled(r) /\ channels[r].node = 0 /\ call[c].amount \in Nat
    <3>1. Open(r)
      BY <2>1 DEF IInv, CallInv
    <3>2. ~Settled(r) /\ call[c].amount \in Nat
      BY <1>4, <1>types DEF Settled
    <3>. QED  BY <2>1, <3>1, <3>2 DEF IInv, LedgerInv
  <2>3. call' = call /\ UNCHANGED <<net, drops>>
           /\ \/ pc' = [pc EXCEPT ![c] = "ok"]
              \/ pc' = [pc EXCEPT ![c] = "reading"]
    BY <1>4 DEF Proceed, ReturnAtOnce
  <2>4. channels'[r] = ch /\ ch # None
    BY <1>4, <2>1, <1>types
  <2>5. ch.node = call[c].amount
    BY <1>4, <2>1, <2>2 DEF RefundInv
  <2>6. Settled(r)' /\ channels'[r].node = call[c].amount
    BY <2>3, <2>4, <2>5, <1>4 DEF Settled, Open
  <2>. QED  BY <2>1, <2>2, <2>3, <2>6
<1>5. CASE Release(c) \/ Refund(c)
  <2>. DEFINE r == call[c].req  ch == channels[r]
  <2>1. PICK op \in {"release", "refund"} : First(c, op)
    BY <1>5 DEF Release, Refund
  <2>2. r \in Requests /\ call[c].op = op /\ call[c].amount \in Nat
    BY <2>1, <1>types, FirstFacts DEF Ops
  <2>3. ch \in Channel /\ ch.node = 0 /\ ch.seq = 0
    <3>1. Open(r) /\ ~ch.settled
      BY <1>5, <2>2 DEF IInv, CallInv, Release, Refund
    <3>. QED  BY <2>2, <3>1, <1>types DEF IInv, LedgerInv, Open, Settled
  <2>4. CASE Release(c)
    <3>1. /\ First(c, "release") /\ ~ch.settled /\ Proceed(c) /\ call[c].amount <= ch.client
          /\ channels' = [channels EXCEPT ![r] = Charged(ch, call[c].amount)]
      BY <2>4 DEF Release
    <3>2. /\ Charged(ch, call[c].amount) \in Channel /\ Charged(ch, call[c].amount).settled
          /\ Charged(ch, call[c].amount).node = ch.node + call[c].amount
      BY <2>2, <2>3, <3>1 DEF Charged, Channel
    <3>. HIDE DEF ch
    <3>3. /\ pc[c] = "queued" /\ UNCHANGED <<net, drops, call>>
          /\ \/ pc' = [pc EXCEPT ![c] = "ok"]
             \/ pc' = [pc EXCEPT ![c] = "reading"]
          /\ Open(r) /\ ~Settled(r) /\ Settled(r)' /\ channels'[r].node = call[c].amount
      BY <3>1, <3>2, <1>4 DEF ch
    <3>. QED  BY <3>3, <1>types
  <2>5. CASE Refund(c)
    <3>1. /\ First(c, "refund") /\ ~ch.settled /\ Proceed(c)
          /\ channels' = [channels EXCEPT ![r] = Refunded(ch)]
      BY <2>5 DEF Refund
    <3>2. /\ Refunded(ch) \in Channel /\ Refunded(ch).settled /\ Refunded(ch).node = ch.node
      BY <2>3 DEF Refunded, Channel
    <3>. HIDE DEF ch
    <3>3. /\ pc[c] = "queued" /\ UNCHANGED <<net, drops, call>>
          /\ \/ pc' = [pc EXCEPT ![c] = "ok"]
             \/ pc' = [pc EXCEPT ![c] = "reading"]
          /\ Open(r) /\ ~Settled(r) /\ Settled(r)' /\ channels'[r].node = call[c].amount
      BY <3>1, <3>2, <1>4 DEF ch
    <3>. QED  BY <3>3, <1>types
  <2>. QED  BY <1>5, <2>4, <2>5
<1>6. CASE ReadNonceFails(c)
  BY <1>6, <1>types DEF ReadNonceFails, net
<1>7. CASE Answering(c)
  BY <1>7, <1>types DEF Answering, Opened, OpenFailed, Closed, Return, net
<1>. QED  BY <1>1, <1>2, <1>3, <1>5, <1>6, <1>7 DEF Quiet, Locking, Settling

\* On a chain a channel is recorded by the call that was told it was opened.
LEMMA NewlyOpen ==
    ASSUME IInv, NEW c \in Calls, StartAny(c) \/ Work(c) \/ Drop(c), onChain,
           NEW r \in Requests, ~Open(r), Open(r)'
    PROVE  /\ pc[c] = "accepted" /\ call[c].op = "lock" /\ call[c].req = r /\ call[c].amount \in Nat
           /\ channels'[r] = NewChannel(call[c].amount)
<1>types. /\ channels \in [Requests -> Channel \union {None}] /\ call[c].amount \in Nat
  BY DEF IInv, TypeOK
<1>1. CASE Opened(c)
  BY <1>1, <1>types DEF Opened, Open
<1>2. CASE Release(c) \/ Refund(c)
  <2>1. PICK op \in {"release", "refund"} : First(c, op)
    BY <1>2 DEF Release, Refund
  <2>2. Open(call[c].req)
    BY <2>1, FirstFacts DEF IInv, CallInv, Ops
  <2>3. call[c].req # r
    BY <2>2
  <2>4. channels'[r] = channels[r]
    BY <1>2, <2>3, <1>types DEF Release, Refund
  <2>. QED  BY <2>4 DEF Open
<1>3. CASE LockInMemory(c)
  BY <1>3 DEF LockInMemory
<1>4. CASE ~Opened(c) /\ ~Release(c) /\ ~Refund(c) /\ ~LockInMemory(c)
  <2>1. UNCHANGED channels
    BY <1>4 DEF StartAny, Start, Work, Locking, Settling, Answering, LockDuplicate, LockOnChain,
       AlreadySettled, CostTooHigh, Rpc, ReadNonce, ReadNonceFails, SendFails, Accept, RefuseStale,
       OpenFailed, Closed, Drop, ledger
  <2>. QED  BY <2>1 DEF Open
<1>. QED  BY <1>1, <1>2, <1>3, <1>4

\* What a step must leave alone, or explain, for the chain to stay in agreement:
\* the accepted transactions, and those who made them.
LEMMA OpenedStep ==
    ASSUME IInv, LedgerStep, WireInv, OpenedInv, TellsInv,
           NEW c \in Calls, StartAny(c) \/ Work(c) \/ Drop(c),
           chain' = chain \/ (chain' = Append(chain, c) /\ c \in wire /\ call' = call),
           \A k \in Calls : pc[k] = "idle" \/ call'[k] = call[k]
    PROVE  OpenedInv'
<1>types. /\ channels \in [Requests -> Channel \union {None}] /\ chain \in Seq(Calls) /\ Len(chain) \in Nat
          /\ None \notin Channel
  BY NoneAssumption DEF IInv, TypeOK
<1>. SUFFICES ASSUME onChain', NEW r \in Requests
              PROVE  /\ Open(r)' => \E i \in 1..Len(chain') : Opens(i, r)'
                            /\ call'[chain'[i]].amount = channels'[r].client + channels'[r].node
                     /\ \A i \in 1..Len(chain') :
                          call'[chain'[i]].op \in {"release", "refund"} /\ call'[chain'[i]].req = r =>
                              \E j \in 1..Len(chain') : j < i /\ Opens(j, r)'
  BY DEF OpenedInv
<1>onChain. onChain
  BY DEF StartAny, Start, Work, Locking, Settling, Answering, LockDuplicate, LockInMemory, LockOnChain,
     AlreadySettled, CostTooHigh, Release, Refund, Proceed, ReturnAtOnce, Rpc, ReadNonce, ReadNonceFails,
     SendFails, Accept, RefuseStale, Opened, OpenFailed, Closed, Drop, net

\* The chain only grows, and its transactions are what they were.
<1>1. /\ Len(chain') \in Nat /\ Len(chain) <= Len(chain')
      /\ \A i \in 1..Len(chain) : chain'[i] = chain[i] /\ call'[chain[i]] = call[chain[i]]
  <2>1. \A i \in 1..Len(chain) : chain[i] \in Calls /\ pc[chain[i]] # "idle"
    BY <1>types DEF WireInv, InChain
  <2>2. /\ Len(chain') \in Nat /\ Len(chain) <= Len(chain')
        /\ \A i \in 1..Len(chain) : chain'[i] = chain[i]
    BY <1>types, AppendProperties
  <2>. QED  BY <2>1, <2>2
<1>2. \A i \in 1..Len(chain) : i \in 1..Len(chain') /\ (Opens(i, r) => Opens(i, r)')
  BY <1>1, <1>types DEF Opens
<1>3. ASSUME Open(r)'
      PROVE  \E i \in 1..Len(chain') : Opens(i, r)'
                /\ call'[chain'[i]].amount = channels'[r].client + channels'[r].node
  <2>1. CASE Open(r)
    <3>1. PICK i \in 1..Len(chain) : Opens(i, r) /\ call[chain[i]].amount = channels[r].client + channels[r].node
      BY <2>1, <1>onChain DEF OpenedInv
    <3>2. channels'[r].client + channels'[r].node = channels[r].client + channels[r].node
      BY <2>1, LedgerBalance
    <3>. QED  BY <3>1, <3>2, <1>1, <1>2
  <2>2. CASE ~Open(r)
    <3>1. /\ pc[c] = "accepted" /\ call[c].op = "lock" /\ call[c].req = r /\ call[c].amount \in Nat
          /\ channels'[r] = NewChannel(call[c].amount)
      BY <1>3, <2>2, <1>onChain, NewlyOpen
    <3>2. PICK i \in 1..Len(chain) : chain[i] = c
      BY <3>1 DEF WireInv, InChain
    <3>3. channels'[r].client + channels'[r].node = call[c].amount
      BY <3>1 DEF NewChannel
    <3>4. Opens(i, r)
      BY <3>1, <3>2 DEF Opens
    <3>. QED  BY <3>2, <3>3, <3>4, <1>1, <1>2
  <2>. QED  BY <2>1, <2>2
<1>4. ASSUME NEW i \in 1..Len(chain'), call'[chain'[i]].op \in {"release", "refund"}, call'[chain'[i]].req = r
      PROVE  \E j \in 1..Len(chain') : j < i /\ Opens(j, r)'
  <2>1. CASE i \in 1..Len(chain)
    <3>1. PICK j \in 1..Len(chain) : j < i /\ Opens(j, r)
      BY <2>1, <1>4, <1>1, <1>onChain DEF OpenedInv
    <3>. QED  BY <3>1, <1>2
  <2>2. CASE i \notin 1..Len(chain)
    <3>1. chain' = Append(chain, c) /\ c \in wire /\ call' = call /\ chain'[i] = c /\ i > Len(chain)
      BY <2>2, <1>types, AppendProperties
    <3>2. Open(r)
      BY <3>1, <1>4 DEF TellsInv, Tells, Settled
    <3>3. PICK j \in 1..Len(chain) : Opens(j, r)
      BY <3>2, <1>onChain DEF OpenedInv
    <3>. QED  BY <3>1, <3>3, <1>2, <1>types
  <2>. QED  BY <2>1, <2>2
<1>. QED  BY <1>3, <1>4

\* A step keeps its calls apart when nobody starts to tell the chain of a channel
\* that was settled already.
LEMMA TellsStep ==
    ASSUME IInv, LedgerStep, TellsInv, NEW c \in Calls,
           \A k \in Calls \ {c} : (Tells(k)' => Tells(k)) /\ call'[k] = call[k],
           Tells(c)' => /\ call'[c] = call[c]
                        /\ \/ Tells(c)
                           \/ /\ Open(call[c].req) /\ ~Settled(call[c].req)
                              /\ Settled(call[c].req)' /\ channels'[call[c].req].node = call[c].amount
    PROVE  TellsInv'
<1>req. \A k \in Calls : call[k].op \in {"release", "refund"} => call[k].req \in Requests
  BY DEF IInv, CallInv, Ops
<1>1. ASSUME NEW k \in Calls, Tells(k)'
      PROVE  /\ call'[k] = call[k] /\ call[k].req \in Requests
             /\ Settled(call[k].req)' /\ channels'[call[k].req].node = call[k].amount
  <2>1. call'[k] = call[k] /\ call[k].req \in Requests
    BY <1>1, <1>req DEF Tells
  <2>2. CASE Tells(k)
    BY <2>1, <2>2, LedgerBalance DEF TellsInv
  <2>3. CASE ~Tells(k)
    BY <2>1, <2>3, <1>1
  <2>. QED  BY <2>1, <2>2, <2>3
<1>2. ASSUME NEW k \in Calls, NEW d \in Calls, Tells(k)', Tells(d)', call'[d].req = call'[k].req
      PROVE  d = k
  <2>1. call'[k] = call[k] /\ call'[d] = call[d]
    BY <1>1, <1>2
  <2>2. (Tells(k) => Settled(call[k].req)) /\ (Tells(d) => Settled(call[d].req))
    BY DEF TellsInv
  <2>. QED  BY <1>2, <2>1, <2>2 DEF TellsInv
<1>. QED  BY <1>1, <1>2 DEF TellsInv, Settled, Open

LEMMA QuietStep ==
    ASSUME IInv, LedgerStep, ChainInv, NEW c \in Calls, Quiet(c)
    PROVE  WireInv' /\ NonceInv' /\ TellsInv' /\ OpenedInv' /\ RefundInv' /\ Doomed' = Doomed
<1>. USE DEF ChainInv
<1>types. /\ call \in [Calls -> [op : Ops \union {"none"}, req : Requests \union {None}, amount : Nat]]
          /\ pc \in [Calls -> {"idle"} \union Waiting \union Finished] /\ chain \in Seq(Calls)
          /\ wire \subseteq Calls
  BY DEF IInv, TypeOK
<1>1. /\ UNCHANGED <<wire, chain, nonce, stale, onChain, drops>>
      /\ \A k \in Calls \ {c} : pc'[k] = pc[k] /\ call'[k] = call[k]
      /\ \/ pc[c] = "idle" /\ pc'[c] = "queued"
         \/ call'[c] = call[c] /\
            \/ pc[c] = "queued" /\ pc'[c] \in {"ok", "error"}
            \/ pc[c] = "queued" /\ pc'[c] = "reading" /\ call[c].op = "lock"
            \/ /\ pc[c] = "queued" /\ pc'[c] = "reading" /\ Open(call[c].req) /\ ~Settled(call[c].req)
               /\ Settled(call[c].req)' /\ channels'[call[c].req].node = call[c].amount
            \/ pc[c] = "reading" /\ pc'[c] = "refused"
            \/ pc[c] \in {"accepted", "refused"} /\ pc'[c] \in {"ok", "error"}
  BY QuietMoves DEF net
<1>2. c \notin wire /\ \A k \in Calls : InChain(k)' <=> InChain(k)
  BY <1>1 DEF WireInv, InChain
<1>3. WireInv'
  BY <1>1, <1>2, <1>types DEF WireInv
<1>4. NonceInv' /\ Doomed' = Doomed
  <2>1. Doomed' = Doomed
    BY <1>1, <1>2, <1>types DEF Doomed
  <2>. QED  BY <1>1, <2>1 DEF NonceInv
<1>5. TellsInv'
  <2>1. \A k \in Calls \ {c} : (Tells(k)' => Tells(k)) /\ call'[k] = call[k]
    BY <1>1, <1>2 DEF Tells
  <2>2. Tells(c)' => pc[c] # "idle"
    BY <1>1, <1>2 DEF Tells, Critical, WireInv
  <2>3. Tells(c)' => /\ call'[c] = call[c]
                     /\ \/ Tells(c)
                        \/ /\ Open(call[c].req) /\ ~Settled(call[c].req)
                           /\ Settled(call[c].req)' /\ channels'[call[c].req].node = call[c].amount
    BY <1>1, <1>2, <2>2 DEF Tells, Critical, WireInv
  <2>. QED  BY <2>1, <2>3, TellsStep
<1>6. OpenedInv'
  <2>1. \A k \in Calls : pc[k] = "idle" \/ call'[k] = call[k]
    BY <1>1
  <2>2. StartAny(c) \/ Work(c) \/ Drop(c)
    BY DEF Quiet, Work, Rpc
  <2>. QED  BY <1>1, <2>1, <2>2, OpenedStep
<1>7. RefundInv'
  <2>1. call'[c].op = "refund" => call'[c].amount = 0
    <3>1. CASE StartAny(c)
      BY <3>1, <1>types DEF StartAny, Start
    <3>2. CASE ~StartAny(c)
      <4>1. UNCHANGED call
        BY <3>2 DEF Quiet, Locking, Settling, ReadNonceFails, Answering, LockDuplicate, LockInMemory,
           LockOnChain, AlreadySettled, CostTooHigh, Release, Refund, Proceed, ReturnAtOnce,
           Opened, OpenFailed, Closed
      <4>. QED  BY <4>1 DEF RefundInv
    <3>. QED  BY <3>1, <3>2
  <2>. QED  BY <2>1, <1>1 DEF RefundInv
<1>. QED  BY <1>3, <1>4, <1>5, <1>6, <1>7

\* A dropped call leaves one transaction behind, at most.
LEMMA DropStep ==
    ASSUME IInv, LedgerStep, ChainInv, NEW c \in Calls, Drop(c)
    PROVE  /\ WireInv' /\ NonceInv' /\ TellsInv' /\ OpenedInv' /\ RefundInv'
           /\ Cardinality(Doomed) \in Nat /\ Cardinality(Doomed') \in Nat
           /\ Cardinality(Doomed') <= Cardinality(Doomed) + (IF c \in wire THEN 1 ELSE 0)
<1>. USE DEF ChainInv
<1>types. /\ pc \in [Calls -> {"idle"} \union Waiting \union Finished] /\ chain \in Seq(Calls)
          /\ wire \subseteq Calls /\ IsFiniteSet(wire) /\ stale \in Nat /\ drops \in Nat
  BY DEF IInv, TypeOK, WireInv
<1>1. /\ UNCHANGED <<wire, chain, nonce, stale, onChain, call, channels>> /\ drops' = drops + 1
      /\ pc[c] \in Waiting /\ pc' = [pc EXCEPT ![c] = "dropped"]
  BY DEF Drop, net, ledger
<1>2. \A k \in Calls : InChain(k)' <=> InChain(k)
  BY <1>1 DEF InChain
<1>3. WireInv'
  BY <1>1, <1>2, <1>types DEF WireInv, Waiting
<1>4. /\ Cardinality(Doomed) \in Nat /\ Cardinality(Doomed') \in Nat
      /\ Cardinality(Doomed') <= Cardinality(Doomed) + (IF c \in wire THEN 1 ELSE 0)
  <2>1. /\ Doomed \subseteq wire /\ Doomed' \subseteq Doomed \union {c}
        /\ c \notin wire => Doomed' = Doomed
    BY <1>1, <1>types DEF Doomed
  <2>2. IsFiniteSet(Doomed) /\ IsFiniteSet(Doomed \union {c}) /\ Cardinality(Doomed) \in Nat
    BY <2>1, <1>types, FS_Subset, FS_AddElement, FS_CardinalityType
  <2>3. Cardinality(Doomed \union {c}) <= Cardinality(Doomed) + 1 /\ Cardinality(Doomed \union {c}) \in Nat
    BY <2>2, FS_AddElement, FS_CardinalityType
  <2>4. Cardinality(Doomed') <= Cardinality(Doomed \union {c}) /\ Cardinality(Doomed') \in Nat
    BY <2>1, <2>2, FS_Subset, FS_CardinalityType
  <2>. QED  BY <2>1, <2>2, <2>3, <2>4
<1>8. NonceInv'
  BY <1>1, <1>4, <1>types DEF NonceInv
<1>5. TellsInv'
  <2>1. \A k \in Calls : (Tells(k)' => Tells(k)) /\ call'[k] = call[k]
    BY <1>1, <1>2, <1>types DEF Tells, Critical
  <2>. QED  BY <2>1, TellsStep
<1>6. OpenedInv'
  BY <1>1, OpenedStep
<1>7. RefundInv'
  BY <1>1 DEF RefundInv
<1>. QED  BY <1>3, <1>4, <1>5, <1>6, <1>7, <1>8

\* The transactions that may be refused, once c is off the wire or on it.
LEMMA DoomedAfter ==
    ASSUME IsFiniteSet(wire), NEW c, NEW D, D \subseteq Doomed \ {c}
    PROVE  /\ IsFiniteSet(Doomed) /\ IsFiniteSet(D)
           /\ Cardinality(Doomed) \in Nat /\ Cardinality(D) \in Nat
           /\ Cardinality(D) <= Cardinality(Doomed)
           /\ c \in Doomed => Cardinality(D) + 1 <= Cardinality(Doomed)
           /\ \A s : Cardinality(D \union {s}) \in Nat /\ Cardinality(D \union {s}) <= Cardinality(D) + 1
                     /\ IsFiniteSet(D \union {s})
<1>1. Doomed \subseteq wire
  BY DEF Doomed
<1>2. IsFiniteSet(Doomed) /\ IsFiniteSet(Doomed \ {c}) /\ IsFiniteSet(D)
  BY <1>1, FS_Subset, FS_RemoveElement
<1>3. Cardinality(D) <= Cardinality(Doomed \ {c})
  BY <1>2, FS_Subset
<1>4. Cardinality(Doomed \ {c}) = IF c \in Doomed THEN Cardinality(Doomed) - 1 ELSE Cardinality(Doomed)
  BY <1>2, FS_RemoveElement
<1>5. Cardinality(Doomed) \in Nat /\ Cardinality(D) \in Nat
  BY <1>2, FS_CardinalityType
<1>6. ASSUME NEW s
      PROVE  Cardinality(D \union {s}) \in Nat /\ Cardinality(D \union {s}) <= Cardinality(D) + 1
             /\ IsFiniteSet(D \union {s})
  <2>1. IsFiniteSet(D \union {s})
    BY <1>2, FS_AddElement
  <2>2. Cardinality(D \union {s}) = IF s \in D THEN Cardinality(D) ELSE Cardinality(D) + 1
    BY <1>2, FS_AddElement
  <2>. QED  BY <2>1, <2>2, <1>5
<1>7. /\ Cardinality(D) <= Cardinality(Doomed)
      /\ c \in Doomed => Cardinality(D) + 1 <= Cardinality(Doomed)
  BY <1>3, <1>4, <1>5
<1>. QED  BY <1>2, <1>5, <1>6, <1>7, Zenon

\* None of them is added, and one that is refused is one of them.
DoomedShrinks ==
    /\ Cardinality(Doomed) \in Nat /\ Cardinality(Doomed') \in Nat
    /\ Cardinality(Doomed') <= Cardinality(Doomed)
    /\ stale' # stale => Cardinality(Doomed') + 1 <= Cardinality(Doomed)

\* The exchange with the chain.
LEMMA ExchangeStep ==
    ASSUME IInv, LedgerStep, ChainInv, NEW c \in Calls,
           ReadNonce(c) \/ SendFails(c) \/ Accept(c) \/ RefuseStale(c)
    PROVE  /\ WireInv' /\ NonceInv' /\ TellsInv' /\ OpenedInv' /\ RefundInv'
           /\ DoomedShrinks
<1>. USE DEF ChainInv
<1>types. /\ pc \in [Calls -> {"idle"} \union Waiting \union Finished]
          /\ chain \in Seq(Calls) /\ Len(chain) \in Nat /\ nonce \in [Calls -> Nat]
          /\ wire \subseteq Calls /\ IsFiniteSet(wire) /\ stale \in Nat /\ drops \in Nat
  BY DEF IInv, TypeOK, WireInv
<1>frame. UNCHANGED <<channels, call, onChain, drops>>
  BY DEF ReadNonce, SendFails, Accept, RefuseStale, ledger
<1>refund. RefundInv'
  BY <1>frame DEF RefundInv
<1>opened. (chain' = chain \/ (chain' = Append(chain, c) /\ c \in wire)) => OpenedInv'
  BY <1>frame, OpenedStep DEF Work, Rpc
<1>1. CASE ReadNonce(c)
  <2>1. /\ pc[c] = "reading" /\ pc' = [pc EXCEPT ![c] = "sending"] /\ UNCHANGED <<chain, stale>>
        /\ nonce' = [nonce EXCEPT ![c] = Len(chain)] /\ wire' = wire \union {c}
    BY <1>1 DEF ReadNonce
  <2>2. \A k \in Calls : InChain(k)' <=> InChain(k)
    BY <2>1 DEF InChain
  <2>3. WireInv'
    <3>1. IsFiniteSet(wire')
      BY <2>1, <1>types, FS_AddElement
    <3>. QED  BY <2>1, <2>2, <3>1, <1>types DEF WireInv
  <2>4. NonceInv' /\ DoomedShrinks
    <3>1. Doomed' \subseteq Doomed \ {c}
      BY <2>1, <1>types DEF Doomed, WireInv
    <3>2. /\ Cardinality(Doomed) \in Nat /\ Cardinality(Doomed') \in Nat
          /\ Cardinality(Doomed') <= Cardinality(Doomed)
          /\ c \in Doomed => Cardinality(Doomed') + 1 <= Cardinality(Doomed)
      BY <3>1, <1>types, DoomedAfter, Zenon
    <3>. QED  BY <3>2, <2>1, <1>frame, <1>types DEF NonceInv, DoomedShrinks
  <2>5. TellsInv'
    <3>1. \A k \in Calls : (Tells(k)' => Tells(k)) /\ call'[k] = call[k]
      BY <2>1, <2>2, <1>types, <1>frame DEF Tells, Critical
    <3>. QED  BY <3>1, TellsStep
  <2>. QED  BY <2>1, <2>3, <2>4, <2>5, <1>opened, <1>refund
<1>2. CASE SendFails(c) \/ RefuseStale(c)
  <2>1. /\ c \in wire /\ wire' = wire \ {c} /\ UNCHANGED <<chain, nonce>>
        /\ pc' = [pc EXCEPT ![c] = IF pc[c] = "sending" THEN "refused" ELSE pc[c]]
        /\ stale' = stale \/ (c \in Doomed /\ stale' = stale + 1)
    BY <1>2 DEF SendFails, RefuseStale, Doomed
  <2>2. \A k \in Calls : InChain(k)' <=> InChain(k)
    BY <2>1 DEF InChain
  <2>3. WireInv'
    <3>1. IsFiniteSet(wire')
      BY <2>1, <1>types, FS_RemoveElement
    <3>. QED  BY <2>1, <2>2, <3>1, <1>types DEF WireInv
  <2>4. NonceInv' /\ DoomedShrinks
    <3>1. Doomed' \subseteq Doomed \ {c}
      BY <2>1, <1>types DEF Doomed
    <3>2. /\ Cardinality(Doomed) \in Nat /\ Cardinality(Doomed') \in Nat
          /\ Cardinality(Doomed') <= Cardinality(Doomed)
          /\ c \in Doomed => Cardinality(Doomed') + 1 <= Cardinality(Doomed)
      BY <3>1, <1>types, DoomedAfter, Zenon
    <3>. QED  BY <3>2, <2>1, <1>frame, <1>types DEF NonceInv, DoomedShrinks
  <2>5. TellsInv'
    <3>1. \A k \in Calls : (Tells(k)' => Tells(k)) /\ call'[k] = call[k]
      BY <2>1, <2>2, <1>types, <1>frame DEF Tells, Critical
    <3>. QED  BY <3>1, TellsStep
  <2>. QED  BY <2>1, <2>3, <2>4, <2>5, <1>opened, <1>refund
<1>3. CASE Accept(c)
  <2>1. /\ c \in wire /\ wire' = wire \ {c} /\ chain' = Append(chain, c) /\ UNCHANGED <<nonce, stale>>
        /\ \/ pc' = [pc EXCEPT ![c] = IF pc[c] = "sending" THEN "accepted" ELSE pc[c]]
           \/ pc[c] = "sending" /\ pc' = [pc EXCEPT ![c] = "refused"]
    BY <1>3 DEF Accept
  <2>2. /\ Len(chain') = Len(chain) + 1 /\ chain'[Len(chain) + 1] = c
        /\ \A i \in 1..Len(chain) : chain'[i] = chain[i]
    BY <2>1, <1>types, AppendProperties
  <2>3. \A k \in Calls : InChain(k)' <=> InChain(k) \/ k = c
    <3>1. /\ \A i \in 1..Len(chain') : i \in 1..Len(chain) \/ i = Len(chain) + 1
          /\ \A i \in 1..Len(chain) : i \in 1..Len(chain')
          /\ Len(chain) + 1 \in 1..Len(chain')
      BY <2>2, <1>types
    <3>2. ASSUME NEW k \in Calls, NEW i \in 1..Len(chain'), chain'[i] = k
          PROVE  InChain(k) \/ k = c
      BY <2>2, <3>1, <3>2 DEF InChain
    <3>3. ASSUME NEW k \in Calls, InChain(k) \/ k = c
          PROVE  \E i \in 1..Len(chain') : chain'[i] = k
      BY <2>2, <3>1, <3>3 DEF InChain
    <3>. QED  BY <3>2, <3>3 DEF InChain
  <2>4. WireInv'
    <3>1. IsFiniteSet(wire')
      BY <2>1, <1>types, FS_RemoveElement
    <3>2. /\ pc[c] \in {"sending", "dropped"} /\ ~InChain(c)
          /\ pc'[c] \in {"accepted", "refused", "dropped"} /\ \A k \in Calls \ {c} : pc'[k] = pc[k]
      BY <2>1, <1>types DEF WireInv
    <3>3. \A i, j \in 1..Len(chain') : chain'[i] = chain'[j] => i = j
      <4>1. \A i, j \in 1..Len(chain) : chain[i] = chain[j] => i = j
        BY DEF WireInv
      <4>2. \A i \in 1..Len(chain) : chain[i] # c
        BY <3>2 DEF InChain
      <4>3. \A i \in 1..Len(chain') : i \in 1..Len(chain) \/ i = Len(chain) + 1
        BY <2>2, <1>types
      <4>. QED  BY <4>1, <4>2, <4>3, <2>2
    <3>. QED  BY <2>1, <2>3, <3>1, <3>2, <3>3 DEF WireInv
  \* The call that sends, if another one, is overtaken; it is the only one.
  <2>5. NonceInv' /\ DoomedShrinks
    <3>1. CASE pc[c] = "sending"
      <4>1. \A k \in wire \ {c} : pc[k] = "dropped"
        BY <3>1, <1>types DEF WireInv, IInv, MutexInv, Critical
      <4>2. Doomed' \subseteq Doomed \ {c}
        BY <4>1, <2>1, <1>types DEF Doomed
      <4>3. /\ Cardinality(Doomed) \in Nat /\ Cardinality(Doomed') \in Nat
            /\ Cardinality(Doomed') <= Cardinality(Doomed)
        BY <4>2, <1>types, DoomedAfter, Zenon
      <4>. QED  BY <4>3, <2>1, <1>frame, <1>types DEF NonceInv, DoomedShrinks
    <3>2. CASE pc[c] # "sending"
      <4>1. pc[c] = "dropped" /\ c \in Doomed
        BY <3>2, <2>1 DEF WireInv, Doomed
      <4>2. \A k \in wire \ {c} : pc[k] = "dropped" \/ k = owner
        BY <1>types DEF WireInv, IInv, MutexInv, Critical
      <4>3. \A k \in wire \ {c} : pc[k] = "dropped" => k \in Doomed
        BY DEF Doomed
      <4>4. Doomed' \subseteq (Doomed \ {c}) \union {owner}
        BY <4>2, <4>3, <2>1 DEF Doomed
      <4>. DEFINE D == Doomed \ {c}
      <4>5. /\ Cardinality(Doomed) \in Nat /\ Cardinality(D) \in Nat
            /\ Cardinality(D) + 1 <= Cardinality(Doomed)
            /\ Cardinality(D \union {owner}) \in Nat
            /\ Cardinality(D \union {owner}) <= Cardinality(D) + 1 /\ IsFiniteSet(D \union {owner})
        BY <4>1, <1>types, DoomedAfter
      <4>6. Cardinality(Doomed') <= Cardinality(D \union {owner}) /\ Cardinality(Doomed') \in Nat
        BY <4>4, <4>5, FS_Subset, FS_CardinalityType
      <4>. HIDE DEF D
      <4>. QED  BY <4>5, <4>6, <2>1, <1>frame, <1>types DEF NonceInv, DoomedShrinks
    <3>. QED  BY <3>1, <3>2
  <2>6. TellsInv'
    <3>1. \A k \in Calls : (Tells(k)' => Tells(k)) /\ call'[k] = call[k]
      BY <2>1, <2>3, <1>types, <1>frame DEF Tells, Critical
    <3>. QED  BY <3>1, TellsStep
  <2>. QED  BY <2>1, <2>4, <2>5, <2>6, <1>opened, <1>refund
<1>. QED  BY <1>1, <1>2, <1>3

LEMMA ChainInvStep == IInv /\ ChainInv /\ [Next]_vars => ChainInv'
<1>. SUFFICES ASSUME IInv, ChainInv, [Next]_vars PROVE ChainInv'
  OBVIOUS
<1>1. LedgerStep
  BY StepsOnLedger
<1>2. ASSUME NEW c \in Calls, StartAny(c) \/ Work(c) \/ Drop(c)
      PROVE  ChainInv'
  <2>1. QueueInv'
    BY <1>2, QueueStep DEF ChainInv
  <2>2. WireInv' /\ NonceInv' /\ TellsInv' /\ OpenedInv' /\ RefundInv'
    BY <1>1, <1>2, QuietStep, DropStep, ExchangeStep DEF Work, Rpc, Quiet
  <2>. QED  BY <2>1, <2>2 DEF ChainInv
<1>3. CASE UNCHANGED vars
  <2>1. QueueInv' /\ RefundInv'
    BY <1>3 DEF vars, ChainInv, QueueInv, RefundInv
  <2>2. WireInv' /\ (\A c \in Calls : InChain(c)' <=> InChain(c))
    BY <1>3 DEF vars, ChainInv, WireInv, InChain
  <2>3. NonceInv'
    BY <1>3 DEF vars, ChainInv, NonceInv, Doomed
  <2>4. TellsInv' /\ OpenedInv'
    BY <1>3 DEF vars, ChainInv, TellsInv, Tells, InChain, OpenedInv, Opens, Open, Settled
  <2>. QED  BY <2>1, <2>2, <2>3, <2>4 DEF ChainInv
<1>. QED  BY <1>2, <1>3 DEF Next

THEOREM ChainSafety == Spec => []ChainInv
  BY ChainInit, ChainInvStep, LedgerSafety, PTL DEF Spec

\* One wallet signs for every call: a transaction that is refused for its nonce is
\* explained by a call that was dropped, whatever else fails (send_tx, under the
\* mutex of lock_funds, release_funds and refund_funds).
THEOREM NonceRacesNeedDrops == Spec => []NonceRaceNeedsDrop
<1>1. IInv /\ ChainInv => NonceRaceNeedsDrop
  <2>. SUFFICES ASSUME IInv, ChainInv PROVE NonceRaceNeedsDrop
    OBVIOUS
  <2>1. Doomed \subseteq wire /\ IsFiniteSet(wire)
    BY DEF Doomed, ChainInv, WireInv
  <2>2. Cardinality(Doomed) \in Nat
    BY <2>1, FS_Subset, FS_CardinalityType
  <2>. QED  BY <2>2 DEF IInv, TypeOK, ChainInv, NonceInv, NonceRaceNeedsDrop
<1>. QED  BY <1>1, LedgerSafety, ChainSafety, PTL

\* What the ledger records was opened on the chain for as much, and what is closed
\* on the chain is settled in the ledger with the same balance, once, and was open
\* before (lock_funds, release_funds, refund_funds).
THEOREM LedgerAgreesWithChain == Spec => []LedgerIsOnChain
<1>1. IInv /\ ChainInv => LedgerIsOnChain
  <2>. SUFFICES ASSUME IInv, ChainInv, onChain, NEW r \in Requests
                PROVE  LET opened == AcceptedTxs({"lock"}, r)
                           closed == AcceptedTxs({"release", "refund"}, r)
                       IN /\ Open(r) => \E i \in opened : call[chain[i]].amount = channels[r].client + channels[r].node
                          /\ Cardinality(closed) <= 1
                          /\ \A i \in closed :
                                /\ Settled(r) /\ channels[r].node = call[chain[i]].amount
                                /\ \E j \in opened : j < i
    BY DEF LedgerIsOnChain
  <2>. DEFINE opened == AcceptedTxs({"lock"}, r)
              closed == AcceptedTxs({"release", "refund"}, r)
  <2>types. /\ chain \in Seq(Calls) /\ \A i \in 1..Len(chain) : chain[i] \in Calls
            /\ WireInv /\ TellsInv /\ OpenedInv
    BY DEF IInv, TypeOK, ChainInv
  <2>1. \A i \in 1..Len(chain) : Opens(i, r) <=> i \in opened
    BY DEF Opens, AcceptedTxs
  <2>2. ASSUME NEW i \in closed
        PROVE  i \in 1..Len(chain) /\ Tells(chain[i]) /\ call[chain[i]].req = r
    BY <2>2, <2>types DEF AcceptedTxs, Tells, InChain
  <2>3. Open(r) => \E i \in opened : call[chain[i]].amount = channels[r].client + channels[r].node
    BY <2>1, <2>types DEF OpenedInv
  <2>4. Cardinality(closed) <= 1
    <3>1. \A i, j \in closed : i = j
      BY <2>2, <2>types DEF TellsInv, WireInv
    <3>2. CASE closed = {}
      BY <3>2, FS_EmptySet
    <3>3. CASE closed # {}
      <4>1. PICK i \in closed : TRUE
        BY <3>3
      <4>2. closed = {i}
        BY <3>1, <4>1
      <4>. HIDE DEF closed
      <4>3. Cardinality(closed) = 1
        BY <4>2, FS_Singleton
      <4>. QED  BY <4>3
    <3>. QED  BY <3>2, <3>3
  <2>5. ASSUME NEW i \in closed
        PROVE  /\ Settled(r) /\ channels[r].node = call[chain[i]].amount
               /\ \E j \in opened : j < i
    <3>1. Settled(r) /\ channels[r].node = call[chain[i]].amount
      BY <2>2, <2>types DEF TellsInv
    <3>2. \E j \in 1..Len(chain) : j < i /\ Opens(j, r)
      BY <2>5, <2>types DEF OpenedInv, AcceptedTxs
    <3>. QED  BY <3>1, <3>2, <2>1
  <2>. QED  BY <2>3, <2>4, <2>5
<1>. QED  BY <1>1, LedgerSafety, ChainSafety, PTL

-----------------------------------------------------------------------------
(* How far the chain and the ledger may diverge.                           *)

\* Locks the chain has taken, locks that dropped calls have left on the wire,
\* channels that are recorded, and locks that are about to be.
LockTxs   == {i \in 1..Len(chain) : call[chain[i]].op = "lock"}
LeftLocks == {c \in wire : pc[c] = "dropped" /\ call[c].op = "lock"}
Recorded  == {r \in Requests : Open(r)}
Awaited   == {c \in Calls : pc[c] = "accepted" /\ call[c].op = "lock"}

\* Every lock on the chain, or on the way, is recorded, about to be, or paid for.
LocksInv ==
    /\ IsFiniteSet(Recorded)
    /\ Cardinality(LockTxs) + Cardinality(LeftLocks)
          <= Cardinality(Recorded) + Cardinality(Awaited) + faults + drops

\* The chain was told that the channel of r is settled, or may yet be.
MayLearn(c, r) == /\ call[c].op \in {"release", "refund"} /\ call[c].req = r
                  /\ pc[c] = "reading" \/ c \in wire \/ InChain(c)

Unlearned == {r \in Requests : Settled(r) /\ \A c \in Calls : ~MayLearn(c, r)}

\* Every settlement the chain never learns of was paid for, and so is every one that
\* a refused nonce may add.
SettlementsInv ==
    onChain => Cardinality(Unlearned) + Cardinality(Doomed) <= faults + drops

DivergenceInv == LocksInv /\ SettlementsInv

\* Adding or removing an element, in inequalities.
LEMMA CardinalityBounds ==
    ASSUME NEW S, IsFiniteSet(S), NEW T, NEW x
    PROVE  /\ Cardinality(S) \in Nat
           /\ T \subseteq S \union {x} =>
                 IsFiniteSet(T) /\ Cardinality(T) \in Nat /\ Cardinality(T) <= Cardinality(S) + 1
           /\ T \subseteq S =>
                 IsFiniteSet(T) /\ Cardinality(T) \in Nat /\ Cardinality(T) <= Cardinality(S)
           /\ T \subseteq S \ {x} /\ x \in S => Cardinality(T) + 1 <= Cardinality(S)
           /\ S \union {x} \subseteq T /\ x \notin S /\ IsFiniteSet(T) => Cardinality(S) + 1 <= Cardinality(T)
<1>1. /\ Cardinality(S) \in Nat /\ IsFiniteSet(S \union {x}) /\ IsFiniteSet(S \ {x})
      /\ Cardinality(S \union {x}) = IF x \in S THEN Cardinality(S) ELSE Cardinality(S) + 1
      /\ Cardinality(S \ {x}) = IF x \in S THEN Cardinality(S) - 1 ELSE Cardinality(S)
  BY FS_CardinalityType, FS_AddElement, FS_RemoveElement
<1>2. ASSUME NEW A, NEW B, IsFiniteSet(A), B \subseteq A
      PROVE  IsFiniteSet(B) /\ Cardinality(B) \in Nat /\ Cardinality(A) \in Nat
             /\ Cardinality(B) <= Cardinality(A)
  BY <1>2, FS_Subset, FS_CardinalityType
<1>3. T \subseteq S \union {x} =>
         IsFiniteSet(T) /\ Cardinality(T) \in Nat /\ Cardinality(T) <= Cardinality(S) + 1
  <2>1. T \subseteq S \union {x} =>
           IsFiniteSet(T) /\ Cardinality(T) \in Nat /\ Cardinality(T) <= Cardinality(S \union {x})
    BY <1>1, <1>2
  <2>. QED  BY <2>1, <1>1
<1>4. T \subseteq S \ {x} /\ x \in S => Cardinality(T) + 1 <= Cardinality(S)
  <2>1. T \subseteq S \ {x} => Cardinality(T) \in Nat /\ Cardinality(T) <= Cardinality(S \ {x})
    BY <1>1, <1>2
  <2>. QED  BY <2>1, <1>1
<1>5. S \union {x} \subseteq T /\ x \notin S /\ IsFiniteSet(T) => Cardinality(S) + 1 <= Cardinality(T)
  <2>1. S \union {x} \subseteq T /\ IsFiniteSet(T) => Cardinality(S \union {x}) <= Cardinality(T)
    BY <1>1, <1>2
  <2>. QED  BY <2>1, <1>1
<1>. QED  BY <1>1, <1>2, <1>3, <1>4, <1>5

\* No recorded channel is ever forgotten.
LEMMA RecordedAfter ==
    ASSUME IInv, LedgerStep, IsFiniteSet(Recorded)
    PROVE  /\ IsFiniteSet(Recorded') /\ Cardinality(Recorded) \in Nat /\ Cardinality(Recorded') \in Nat
           /\ Cardinality(Recorded) <= Cardinality(Recorded')
           /\ \A r \in Requests : ~Open(r) /\ Open(r)' => Cardinality(Recorded) + 1 <= Cardinality(Recorded')
<1>types. channels \in [Requests -> Channel \union {None}]
  BY DEF IInv, TypeOK
<1>1. Recorded \subseteq Recorded'
  BY LedgerKept DEF Recorded
<1>2. \E r : Recorded' \subseteq Recorded \union {r}
  <2>1. CASE UNCHANGED channels
    BY <2>1 DEF Recorded, Open
  <2>2. ASSUME NEW r \in Requests, NEW amount \in Amounts, LedgerOpened(r, amount)
        PROVE  Recorded' \subseteq Recorded \union {r}
    BY <2>2, <1>types DEF LedgerOpened, Recorded, Open
  <2>3. ASSUME NEW r \in Requests, NEW ch \in Channel, LedgerSettled(r, ch)
        PROVE  Recorded' \subseteq Recorded \union {r}
    BY <2>3, <1>types DEF LedgerSettled, Recorded, Open
  <2>. QED  BY <2>1, <2>2, <2>3 DEF LedgerStep
<1>3. PICK r : Recorded' \subseteq Recorded \union {r}
  BY <1>2
<1>4. IsFiniteSet(Recorded') /\ Cardinality(Recorded) \in Nat /\ Cardinality(Recorded') \in Nat
  BY <1>3, CardinalityBounds, Zenon
<1>5. Cardinality(Recorded) <= Cardinality(Recorded')
  BY <1>1, <1>4, CardinalityBounds, Zenon
<1>6. ASSUME NEW q \in Requests, ~Open(q), Open(q)'
      PROVE  Cardinality(Recorded) + 1 <= Cardinality(Recorded')
  <2>1. q \notin Recorded /\ Recorded \union {q} \subseteq Recorded'
    BY <1>1, <1>6 DEF Recorded
  <2>. QED  BY <2>1, <1>4, CardinalityBounds, Zenon
<1>. QED  BY <1>4, <1>5, <1>6

\* Faults and drops are counted; every other step leaves their counts alone.
LEMMA FailuresAfter ==
    ASSUME IInv, NEW c \in Calls, StartAny(c) \/ Work(c) \/ Drop(c)
    PROVE  /\ faults \in Nat /\ faults' \in Nat /\ drops \in Nat /\ drops' \in Nat
           /\ faults <= faults' /\ drops <= drops'
           /\ Drop(c) => drops' = drops + 1
           /\ ReadNonceFails(c) \/ SendFails(c) => faults' = faults + 1
<1>1. faults \in Nat /\ drops \in Nat
  BY DEF IInv, TypeOK
<1>2. faults' = faults \/ faults' = faults + 1
  BY DEF StartAny, Start, Work, Locking, Settling, Answering, LockDuplicate, LockInMemory, LockOnChain,
     AlreadySettled, CostTooHigh, Release, Refund, Proceed, ReturnAtOnce, Rpc, ReadNonce, ReadNonceFails,
     SendFails, Accept, RefuseStale, Opened, OpenFailed, Closed, Drop, Fault
<1>3. drops' = drops \/ drops' = drops + 1
  BY DEF StartAny, Start, Work, Locking, Settling, Answering, LockDuplicate, LockInMemory, LockOnChain,
     AlreadySettled, CostTooHigh, Release, Refund, Proceed, ReturnAtOnce, Rpc, ReadNonce, ReadNonceFails,
     SendFails, Accept, RefuseStale, Opened, OpenFailed, Closed, Drop
<1>. QED  BY <1>1, <1>2, <1>3 DEF Drop, ReadNonceFails, SendFails, Fault

\* The sets that are counted are finite; at most one call is awaited.
LEMMA CountsAreFinite ==
    ASSUME IInv, WireInv
    PROVE  /\ IsFiniteSet(LockTxs) /\ IsFiniteSet(LeftLocks) /\ IsFiniteSet(Awaited)
           /\ Cardinality(LockTxs) \in Nat /\ Cardinality(LeftLocks) \in Nat /\ Cardinality(Awaited) \in Nat
           /\ Awaited \subseteq {owner}
<1>1. LockTxs \subseteq 1..Len(chain) /\ LeftLocks \subseteq wire
  BY DEF LockTxs, LeftLocks
<1>2. Len(chain) \in Nat /\ IsFiniteSet(1..Len(chain)) /\ IsFiniteSet(wire)
  BY FS_Interval DEF IInv, TypeOK, WireInv
<1>3. Awaited \subseteq {owner}
  BY DEF Awaited, IInv, MutexInv, Critical
<1>4. IsFiniteSet({owner})
  BY FS_Singleton
<1>. QED  BY <1>1, <1>2, <1>3, <1>4, FS_Subset, FS_CardinalityType

LEMMA LocksQuiet ==
    ASSUME IInv, LedgerStep, ChainInv, LocksInv, NEW c \in Calls, Quiet(c)
    PROVE  LocksInv'
<1>. USE DEF ChainInv
<1>types. /\ pc \in [Calls -> {"idle"} \union Waiting \union Finished]
          /\ chain \in Seq(Calls) /\ wire \subseteq Calls
  BY DEF IInv, TypeOK
<1>fin. /\ Cardinality(LockTxs) \in Nat /\ Cardinality(LeftLocks) \in Nat /\ Cardinality(Awaited) \in Nat
        /\ IsFiniteSet(Awaited) /\ Awaited \subseteq {owner}
  BY CountsAreFinite
<1>failures. /\ faults \in Nat /\ faults' \in Nat /\ drops \in Nat /\ drops' \in Nat
             /\ faults <= faults' /\ drops <= drops'
  BY FailuresAfter DEF Quiet, Work, Rpc
<1>recorded. /\ IsFiniteSet(Recorded') /\ Cardinality(Recorded) \in Nat /\ Cardinality(Recorded') \in Nat
             /\ Cardinality(Recorded) <= Cardinality(Recorded')
             /\ \A r \in Requests : ~Open(r) /\ Open(r)' => Cardinality(Recorded) + 1 <= Cardinality(Recorded')
  BY RecordedAfter DEF LocksInv
<1>1. /\ UNCHANGED <<wire, chain>> /\ pc'[c] # "accepted" /\ c \notin wire
      /\ \A k \in Calls \ {c} : pc'[k] = pc[k] /\ call'[k] = call[k]
      /\ pc[c] = "idle" \/ call'[c] = call[c]
  BY QuietMoves DEF net, WireInv
<1>2. LockTxs' = LockTxs
  <2>1. \A i \in 1..Len(chain) : chain[i] \in Calls /\ pc[chain[i]] # "idle"
    BY <1>types DEF WireInv, InChain
  <2>. QED  BY <2>1, <1>1 DEF LockTxs
<1>3. LeftLocks' = LeftLocks
  BY <1>1, <1>types DEF LeftLocks
<1>4. CASE c \notin Awaited
  <2>1. Awaited' = Awaited
    BY <1>1, <1>4 DEF Awaited
  <2>. QED  BY <2>1, <1>2, <1>3, <1>fin, <1>failures, <1>recorded DEF LocksInv

\* The answer to a lock: it is recorded now.
<1>5. CASE c \in Awaited
  <2>1. pc[c] = "accepted" /\ call[c].op = "lock"
    BY <1>5 DEF Awaited
  <2>2. Opened(c)
    <3>1. \A op \in Ops : ~First(c, op)
      BY <2>1, FirstLeaves
    <3>. QED  BY <2>1, <3>1 DEF Quiet, StartAny, Start, Locking, Settling, Answering, LockDuplicate,
              LockInMemory, LockOnChain, AlreadySettled, CostTooHigh, Release, Refund, ReadNonceFails,
              OpenFailed, Closed, Ops
  <2>3. call[c].req \in Requests /\ ~Open(call[c].req)
    BY <2>1 DEF IInv, CallInv, MutexInv, Critical
  <2>4. Open(call[c].req)'
    <3>1. channels' = [channels EXCEPT ![call[c].req] = NewChannel(call[c].amount)] /\ call' = call
      BY <2>2 DEF Opened
    <3>2. NewChannel(call[c].amount) \in Channel
      BY DEF NewChannel, Channel, IInv, TypeOK
    <3>. QED  BY <3>1, <3>2, <2>3, NoneAssumption DEF Open, IInv, TypeOK
  <2>5. Cardinality(Recorded) + 1 <= Cardinality(Recorded')
    BY <2>3, <2>4, <1>recorded, <2>2 DEF Opened, Open
  <2>6. Cardinality(Awaited) <= Cardinality(Awaited') + 1 /\ Cardinality(Awaited') \in Nat
    <3>1. Awaited' \subseteq Awaited /\ Awaited \subseteq Awaited' \union {c}
      BY <1>1 DEF Awaited
    <3>2. IsFiniteSet(Awaited') /\ Cardinality(Awaited') \in Nat
      BY <3>1, <1>fin, CardinalityBounds, Zenon
    <3>3. Cardinality(Awaited) <= Cardinality(Awaited') + 1
      BY <3>1, <3>2, CardinalityBounds, Zenon
    <3>. QED  BY <3>2, <3>3
  <2>7. Cardinality(Recorded) + Cardinality(Awaited) <= Cardinality(Recorded') + Cardinality(Awaited')
    BY <2>5, <2>6, <1>fin, <1>recorded
  <2>. QED  BY <2>6, <2>7, <1>2, <1>3, <1>fin, <1>failures, <1>recorded DEF LocksInv
<1>. QED  BY <1>4, <1>5

LEMMA LocksDrop ==
    ASSUME IInv, LedgerStep, ChainInv, LocksInv, NEW c \in Calls, Drop(c)
    PROVE  LocksInv'
<1>. USE DEF ChainInv
<1>types. /\ pc \in [Calls -> {"idle"} \union Waiting \union Finished]
          /\ chain \in Seq(Calls) /\ wire \subseteq Calls
  BY DEF IInv, TypeOK
<1>fin. /\ Cardinality(LockTxs) \in Nat /\ Cardinality(LeftLocks) \in Nat /\ Cardinality(Awaited) \in Nat
        /\ IsFiniteSet(Awaited) /\ IsFiniteSet(LeftLocks) /\ Awaited \subseteq {owner}
  BY CountsAreFinite
<1>failures. /\ faults \in Nat /\ drops \in Nat /\ faults' = faults /\ drops' = drops + 1
  BY FailuresAfter DEF Drop
<1>1. /\ UNCHANGED <<wire, chain, call, channels>> /\ pc[c] \in Waiting
      /\ pc' = [pc EXCEPT ![c] = "dropped"]
  BY DEF Drop, net, ledger
<1>2. LockTxs' = LockTxs /\ Recorded' = Recorded
  BY <1>1 DEF LockTxs, Recorded, Open
<1>3. CASE c \in wire
  <2>1. pc[c] # "accepted"
    BY <1>3 DEF WireInv
  <2>2. Awaited' = Awaited /\ LeftLocks' \subseteq LeftLocks \union {c}
    BY <2>1, <1>1, <1>types DEF Awaited, LeftLocks
  <2>3. Cardinality(LeftLocks') <= Cardinality(LeftLocks) + 1 /\ Cardinality(LeftLocks') \in Nat
    BY <2>2, <1>fin, CardinalityBounds, Zenon
  <2>4. Cardinality(Recorded) \in Nat
    BY FS_CardinalityType DEF LocksInv
  <2>. QED  BY <2>2, <2>3, <2>4, <1>2, <1>fin, <1>failures DEF LocksInv
<1>4. CASE c \notin wire
  <2>1. LeftLocks' = LeftLocks /\ Awaited \subseteq Awaited' \union {c} /\ Awaited' \subseteq Awaited
    BY <1>4, <1>1, <1>types DEF Awaited, LeftLocks
  <2>2. IsFiniteSet(Awaited') /\ Cardinality(Awaited') \in Nat
    BY <2>1, <1>fin, CardinalityBounds, Zenon
  <2>3. Cardinality(Awaited) <= Cardinality(Awaited') + 1
    BY <2>1, <2>2, CardinalityBounds, Zenon
  <2>4. Cardinality(Recorded) \in Nat
    BY FS_CardinalityType DEF LocksInv
  <2>. QED  BY <2>1, <2>2, <2>3, <2>4, <1>2, <1>fin, <1>failures DEF LocksInv
<1>. QED  BY <1>3, <1>4

LEMMA LocksExchange ==
    ASSUME IInv, LedgerStep, ChainInv, LocksInv, NEW c \in Calls,
           ReadNonce(c) \/ SendFails(c) \/ Accept(c) \/ RefuseStale(c)
    PROVE  LocksInv'
<1>. USE DEF ChainInv
<1>types. /\ pc \in [Calls -> {"idle"} \union Waiting \union Finished]
          /\ chain \in Seq(Calls) /\ Len(chain) \in Nat /\ wire \subseteq Calls
  BY DEF IInv, TypeOK
<1>fin. /\ Cardinality(LockTxs) \in Nat /\ Cardinality(LeftLocks) \in Nat /\ Cardinality(Awaited) \in Nat
        /\ IsFiniteSet(LockTxs) /\ IsFiniteSet(Awaited) /\ IsFiniteSet(LeftLocks) /\ Awaited \subseteq {owner}
  BY CountsAreFinite
<1>failures. /\ faults \in Nat /\ faults' \in Nat /\ drops \in Nat /\ drops' \in Nat
             /\ faults <= faults' /\ drops <= drops'
  BY FailuresAfter DEF Work, Rpc
<1>frame. UNCHANGED <<channels, call, drops>> /\ Recorded' = Recorded
          /\ IsFiniteSet(Recorded) /\ Cardinality(Recorded) \in Nat
  BY FS_CardinalityType DEF ReadNonce, SendFails, Accept, RefuseStale, ledger, Recorded, Open, LocksInv
<1>1. CASE ReadNonce(c)
  <2>1. /\ pc[c] = "reading" /\ pc' = [pc EXCEPT ![c] = "sending"] /\ chain' = chain
        /\ wire' = wire \union {c}
    BY <1>1 DEF ReadNonce
  <2>2. LockTxs' = LockTxs /\ LeftLocks' = LeftLocks /\ Awaited' = Awaited
    BY <2>1, <1>types, <1>frame DEF LockTxs, LeftLocks, Awaited
  <2>. QED  BY <2>2, <1>fin, <1>failures, <1>frame DEF LocksInv
<1>2. CASE SendFails(c) \/ RefuseStale(c)
  <2>1. /\ c \in wire /\ wire' = wire \ {c} /\ chain' = chain
        /\ pc' = [pc EXCEPT ![c] = IF pc[c] = "sending" THEN "refused" ELSE pc[c]]
    BY <1>2 DEF SendFails, RefuseStale
  <2>2. LockTxs' = LockTxs /\ LeftLocks' \subseteq LeftLocks /\ Awaited' = Awaited
    BY <2>1, <1>types, <1>frame DEF LockTxs, LeftLocks, Awaited, WireInv
  <2>3. Cardinality(LeftLocks') \in Nat /\ Cardinality(LeftLocks') <= Cardinality(LeftLocks)
    BY <2>2, <1>fin, CardinalityBounds, Zenon
  <2>. QED  BY <2>2, <2>3, <1>fin, <1>failures, <1>frame DEF LocksInv
<1>3. CASE Accept(c)
  <2>1. /\ c \in wire /\ wire' = wire \ {c} /\ chain' = Append(chain, c)
        /\ \/ pc' = [pc EXCEPT ![c] = IF pc[c] = "sending" THEN "accepted" ELSE pc[c]]
           \/ pc[c] = "sending" /\ pc' = [pc EXCEPT ![c] = "refused"] /\ faults' = faults + 1
    BY <1>3 DEF Accept, Fault
  <2>2. /\ Len(chain') = Len(chain) + 1 /\ chain'[Len(chain) + 1] = c
        /\ \A i \in 1..Len(chain) : chain'[i] = chain[i]
    BY <2>1, <1>types, AppendProperties
  <2>3. \A i \in 1..Len(chain') : i \in 1..Len(chain) \/ (i = Len(chain) + 1 /\ chain'[i] = c)
    BY <2>2, <1>types
  <2>4. pc[c] \in {"sending", "dropped"} /\ LeftLocks' \subseteq LeftLocks
    BY <2>1, <1>types, <1>frame DEF WireInv, LeftLocks
  <2>5. Cardinality(LeftLocks') \in Nat /\ Cardinality(LeftLocks') <= Cardinality(LeftLocks)
    BY <2>4, <1>fin, CardinalityBounds, Zenon
  <2>6. CASE call[c].op # "lock"
    <3>1. Awaited' = Awaited
      BY <2>1, <2>4, <2>6, <1>types, <1>frame DEF Awaited
    <3>2. LockTxs' \subseteq LockTxs
      BY <2>2, <2>3, <2>6, <1>frame DEF LockTxs
    <3>3. Cardinality(LockTxs') \in Nat /\ Cardinality(LockTxs') <= Cardinality(LockTxs)
      BY <3>2, <1>fin, CardinalityBounds, Zenon
    <3>. QED  BY <3>1, <3>3, <2>5, <1>fin, <1>failures, <1>frame DEF LocksInv
  <2>7. CASE call[c].op = "lock"
    <3>1. LockTxs' \subseteq LockTxs \union {Len(chain) + 1}
      BY <2>2, <2>3, <1>frame DEF LockTxs
    <3>2. Cardinality(LockTxs') \in Nat /\ Cardinality(LockTxs') <= Cardinality(LockTxs) + 1
      BY <3>1, <1>fin, CardinalityBounds, Zenon
    <3>3. CASE pc[c] = "dropped"
      <4>1. pc' = pc
        BY <3>3, <2>1, <1>types
      <4>2. Awaited' = Awaited /\ c \in LeftLocks /\ LeftLocks' \subseteq LeftLocks \ {c}
        BY <4>1, <3>3, <2>1, <2>7, <1>frame DEF Awaited, LeftLocks
      <4>3. Cardinality(LeftLocks') + 1 <= Cardinality(LeftLocks)
        BY <4>2, <1>fin, CardinalityBounds, Zenon
      <4>. QED  BY <4>2, <4>3, <3>2, <2>5, <1>fin, <1>failures, <1>frame DEF LocksInv
    <3>4. CASE pc[c] = "sending" /\ pc' = [pc EXCEPT ![c] = "accepted"]
      <4>1. c \notin Awaited /\ Awaited' \subseteq Awaited \union {c} /\ Awaited \union {c} \subseteq Awaited'
        BY <3>4, <2>7, <1>types, <1>frame DEF Awaited
      <4>2. IsFiniteSet(Awaited') /\ Cardinality(Awaited') \in Nat
        BY <4>1, <1>fin, CardinalityBounds, Zenon
      <4>3. Cardinality(Awaited) + 1 <= Cardinality(Awaited')
        BY <4>1, <4>2, <1>fin, CardinalityBounds, Zenon
      <4>. QED  BY <4>2, <4>3, <3>2, <2>5, <1>fin, <1>failures, <1>frame DEF LocksInv
    <3>5. CASE pc[c] = "sending" /\ pc' = [pc EXCEPT ![c] = "refused"] /\ faults' = faults + 1
      <4>1. Awaited' = Awaited
        BY <3>5, <1>types, <1>frame DEF Awaited
      <4>. QED  BY <4>1, <3>2, <3>5, <2>5, <1>fin, <1>failures, <1>frame DEF LocksInv
    <3>. QED  BY <3>3, <3>4, <3>5, <2>1, <2>4
  <2>. QED  BY <2>6, <2>7
<1>. QED  BY <1>1, <1>2, <1>3

\* On a chain, the call that settles a channel goes on to read its nonce.
LEMMA NewlySettled ==
    ASSUME IInv, QueueInv, NEW c \in Calls, StartAny(c) \/ Work(c) \/ Drop(c), onChain,
           NEW r \in Requests, ~Settled(r), Settled(r)'
    PROVE  MayLearn(c, r)'
<1>types. /\ channels \in [Requests -> Channel \union {None}] /\ None \notin Channel
          /\ pc \in [Calls -> {"idle"} \union Waiting \union Finished]
          /\ call \in [Calls -> [op : Ops \union {"none"}, req : Requests \union {None}, amount : Nat]]
  BY NoneAssumption DEF IInv, TypeOK
<1>1. CASE Release(c) \/ Refund(c)
  <2>1. PICK op \in {"release", "refund"} : First(c, op)
    BY <1>1 DEF Release, Refund
  <2>2. call[c].op = op
    BY <2>1 DEF First
  <2>3. call' = call /\ pc' = [pc EXCEPT ![c] = "reading"]
    BY <1>1 DEF Release, Refund, Proceed
  <2>4. call[c].req = r
    BY <1>1, <1>types DEF Release, Refund, Settled, Open
  <2>. QED  BY <2>2, <2>3, <2>4, <1>types DEF MayLearn
<1>2. CASE LockInMemory(c)
  BY <1>2 DEF LockInMemory
<1>3. CASE Opened(c)
  <2>1. channels' = [channels EXCEPT ![call[c].req] = NewChannel(call[c].amount)]
    BY <1>3 DEF Opened
  <2>. QED  BY <2>1, <1>types DEF Settled, Open, NewChannel
<1>4. CASE ~Opened(c) /\ ~Release(c) /\ ~Refund(c) /\ ~LockInMemory(c)
  <2>1. UNCHANGED channels
    BY <1>4 DEF StartAny, Start, Work, Locking, Settling, Answering, LockDuplicate, LockOnChain,
       AlreadySettled, CostTooHigh, Rpc, ReadNonce, ReadNonceFails, SendFails, Accept, RefuseStale,
       OpenFailed, Closed, Drop, ledger
  <2>. QED  BY <2>1 DEF Settled, Open
<1>. QED  BY <1>1, <1>2, <1>3, <1>4

\* A settlement is given up by the call that made it, if at all.
LEMMA UnlearnedAfter ==
    ASSUME IInv, ChainInv, LocksInv, NEW c \in Calls, StartAny(c) \/ Work(c) \/ Drop(c), onChain,
           \A k \in Calls \ {c} : \A r \in Requests : MayLearn(k, r) => MayLearn(k, r)'
    PROVE  /\ IsFiniteSet(Unlearned) /\ Cardinality(Unlearned) \in Nat /\ Cardinality(Unlearned') \in Nat
           /\ Cardinality(Unlearned') <= Cardinality(Unlearned) + 1
           /\ (\A r \in Requests : MayLearn(c, r) => MayLearn(c, r)')
                 => Cardinality(Unlearned') <= Cardinality(Unlearned)
<1>1. Unlearned \subseteq Recorded
  BY DEF Unlearned, Recorded, Settled
<1>2. IsFiniteSet(Unlearned) /\ Cardinality(Unlearned) \in Nat
  BY <1>1, FS_Subset, FS_CardinalityType DEF LocksInv
<1>3. ASSUME NEW r \in Unlearned', r \notin Unlearned
      PROVE  r = call[c].req /\ MayLearn(c, r) /\ ~MayLearn(c, r)'
  <2>1. r \in Requests /\ Settled(r)' /\ \A k \in Calls : ~MayLearn(k, r)'
    BY <1>3 DEF Unlearned
  <2>2. Settled(r)
    BY <2>1, NewlySettled DEF ChainInv
  <2>3. MayLearn(c, r)
    BY <1>3, <2>1, <2>2 DEF Unlearned
  <2>. QED  BY <2>1, <2>3 DEF MayLearn
<1>4. Unlearned' \subseteq Unlearned \union {call[c].req}
  BY <1>3
<1>5. Cardinality(Unlearned') \in Nat /\ Cardinality(Unlearned') <= Cardinality(Unlearned) + 1
  BY <1>2, <1>4, CardinalityBounds, Zenon
<1>6. ASSUME \A r \in Requests : MayLearn(c, r) => MayLearn(c, r)'
      PROVE  Cardinality(Unlearned') <= Cardinality(Unlearned)
  <2>1. \A r \in Unlearned' : r \in Requests
    BY DEF Unlearned
  <2>2. Unlearned' \subseteq Unlearned
    BY <1>3, <1>6, <2>1
  <2>. QED  BY <2>2, <1>2, CardinalityBounds, Zenon
<1>. QED  BY <1>2, <1>5, <1>6

LEMMA SettlementsStep ==
    ASSUME IInv, LedgerStep, ChainInv, LocksInv, SettlementsInv,
           NEW c \in Calls, StartAny(c) \/ Work(c) \/ Drop(c)
    PROVE  SettlementsInv'
<1>types. /\ pc \in [Calls -> {"idle"} \union Waiting \union Finished]
          /\ chain \in Seq(Calls) /\ Len(chain) \in Nat /\ wire \subseteq Calls
  BY DEF IInv, TypeOK
<1>failures. /\ faults \in Nat /\ faults' \in Nat /\ drops \in Nat /\ drops' \in Nat
             /\ faults <= faults' /\ drops <= drops'
             /\ Drop(c) => drops' = drops + 1
             /\ ReadNonceFails(c) \/ SendFails(c) => faults' = faults + 1
  BY FailuresAfter
<1>onChain. onChain' = onChain
  BY DEF StartAny, Start, Work, Locking, Settling, Answering, LockDuplicate, LockInMemory, LockOnChain,
     AlreadySettled, CostTooHigh, Release, Refund, Proceed, ReturnAtOnce, Rpc, ReadNonce, ReadNonceFails,
     SendFails, Accept, RefuseStale, Opened, OpenFailed, Closed, Drop, net
<1>. SUFFICES ASSUME onChain
              PROVE  Cardinality(Unlearned') + Cardinality(Doomed') <= faults' + drops'
  BY <1>onChain DEF SettlementsInv
<1>before. Cardinality(Unlearned) + Cardinality(Doomed) <= faults + drops
  BY DEF SettlementsInv

\* What c gives up costs one at most, and nothing when it gives up nothing.
<1>after. ASSUME \A k \in Calls \ {c} : \A r \in Requests : MayLearn(k, r) => MayLearn(k, r)'
          PROVE  /\ Cardinality(Unlearned) \in Nat /\ Cardinality(Unlearned') \in Nat
                 /\ Cardinality(Unlearned') <= Cardinality(Unlearned) + 1
                 /\ (\A r \in Requests : MayLearn(c, r) => MayLearn(c, r)')
                       => Cardinality(Unlearned') <= Cardinality(Unlearned)
  BY <1>after, UnlearnedAfter
<1>finite. IsFiniteSet(Doomed) /\ Cardinality(Doomed) \in Nat
  <2>1. Doomed \subseteq wire /\ IsFiniteSet(wire)
    BY DEF Doomed, ChainInv, WireInv
  <2>. QED  BY <2>1, FS_Subset, FS_CardinalityType
<1>1. CASE Quiet(c)
  <2>1. /\ UNCHANGED <<wire, chain>> /\ Doomed' = Doomed
        /\ \A k \in Calls \ {c} : pc'[k] = pc[k] /\ call'[k] = call[k]
        /\ pc[c] = "idle" \/ call'[c] = call[c]
    BY <1>1, QuietMoves, QuietStep DEF net, ChainInv
  <2>2. \A k \in Calls : InChain(k)' <=> InChain(k)
    BY <2>1 DEF InChain
  <2>3. \A k \in Calls \ {c} : \A r \in Requests : MayLearn(k, r) => MayLearn(k, r)'
    BY <2>1, <2>2 DEF MayLearn
  <2>4. CASE pc[c] # "reading"
    <3>1. \A r \in Requests : MayLearn(c, r) => MayLearn(c, r)'
      BY <2>1, <2>2, <2>4 DEF MayLearn, ChainInv, WireInv
    <3>. QED  BY <2>1, <2>3, <3>1, <1>after, <1>before, <1>failures, <1>finite
  <2>5. CASE pc[c] = "reading"
    <3>1. \A op \in Ops : ~First(c, op)
      BY <2>5, FirstLeaves DEF ChainInv
    <3>2. ReadNonceFails(c)
      BY <2>5, <3>1, <1>1 DEF Quiet, StartAny, Start, Locking, Settling, Answering, LockDuplicate,
         LockInMemory, LockOnChain, AlreadySettled, CostTooHigh, Release, Refund, Opened,
         OpenFailed, Closed, Ops
    <3>. QED  BY <2>1, <2>3, <3>2, <1>after, <1>before, <1>failures, <1>finite
  <2>. QED  BY <2>4, <2>5
<1>2. CASE Drop(c)
  <2>1. /\ UNCHANGED <<wire, chain, call>> /\ pc' = [pc EXCEPT ![c] = "dropped"]
    BY <1>2 DEF Drop, net
  <2>2. \A k \in Calls : InChain(k)' <=> InChain(k)
    BY <2>1 DEF InChain
  <2>3. \A k \in Calls \ {c} : \A r \in Requests : MayLearn(k, r) => MayLearn(k, r)'
    BY <2>1, <2>2, <1>types DEF MayLearn
  <2>4. c \in wire => \A r \in Requests : MayLearn(c, r) => MayLearn(c, r)'
    BY <2>1 DEF MayLearn
  <2>5. /\ Cardinality(Doomed') \in Nat
        /\ Cardinality(Doomed') <= Cardinality(Doomed) + (IF c \in wire THEN 1 ELSE 0)
    BY <1>2, DropStep
  <2>6. CASE c \in wire
    BY <1>2, <2>3, <2>4, <2>5, <2>6, <1>after, <1>before, <1>failures, <1>finite
  <2>7. CASE c \notin wire
    BY <1>2, <2>3, <2>5, <2>7, <1>after, <1>before, <1>failures, <1>finite
  <2>. QED  BY <2>6, <2>7
<1>3. CASE ReadNonce(c) \/ SendFails(c) \/ Accept(c) \/ RefuseStale(c)
  <2>1. DoomedShrinks
    BY <1>3, ExchangeStep
  <2>2. call' = call /\ \A k \in Calls \ {c} : /\ pc'[k] = pc[k]
                                               /\ k \in wire => k \in wire'
    BY <1>3, <1>types DEF ReadNonce, SendFails, Accept, RefuseStale
  <2>3. \A k \in Calls : InChain(k) => InChain(k)'
    <3>1. CASE chain' = chain
      BY <3>1 DEF InChain
    <3>2. CASE Accept(c)
      <4>1. /\ Len(chain') = Len(chain) + 1
            /\ \A i \in 1..Len(chain) : chain'[i] = chain[i]
        BY <3>2, <1>types, AppendProperties DEF Accept
      <4>. QED  BY <4>1, <1>types DEF InChain
    <3>. QED  BY <1>3, <3>1, <3>2 DEF ReadNonce, SendFails, RefuseStale
  <2>4. \A k \in Calls \ {c} : \A r \in Requests : MayLearn(k, r) => MayLearn(k, r)'
    BY <2>2, <2>3 DEF MayLearn
  <2>5. CASE ReadNonce(c)
    <3>1. c \in wire'
      BY <2>5 DEF ReadNonce
    <3>2. \A r \in Requests : MayLearn(c, r) => MayLearn(c, r)'
      BY <2>2, <3>1 DEF MayLearn
    <3>. QED  BY <2>1, <2>4, <3>2, <1>after, <1>before, <1>failures DEF DoomedShrinks
  <2>6. CASE Accept(c)
    <3>1. InChain(c)'
      <4>1. chain' = Append(chain, c)
        BY <2>6 DEF Accept
      <4>2. Len(chain') = Len(chain) + 1 /\ chain'[Len(chain) + 1] = c
        BY <4>1, <1>types, AppendProperties
      <4>. QED  BY <4>2, <1>types DEF InChain
    <3>2. \A r \in Requests : MayLearn(c, r) => MayLearn(c, r)'
      BY <2>2, <3>1 DEF MayLearn
    <3>. QED  BY <2>1, <2>4, <3>2, <1>after, <1>before, <1>failures DEF DoomedShrinks
  <2>7. CASE SendFails(c)
    BY <2>1, <2>4, <2>7, <1>after, <1>before, <1>failures DEF DoomedShrinks
  <2>8. CASE RefuseStale(c)
    <3>1. stale' # stale
      BY <2>8 DEF RefuseStale, IInv, TypeOK
    <3>. QED  BY <2>1, <2>4, <3>1, <1>after, <1>before, <1>failures DEF DoomedShrinks
  <2>. QED  BY <1>3, <2>5, <2>6, <2>7, <2>8
<1>. QED  BY <1>1, <1>2, <1>3 DEF Work, Rpc, Quiet

LEMMA DivergenceStep == IInv /\ ChainInv /\ DivergenceInv /\ [Next]_vars => DivergenceInv'
<1>. SUFFICES ASSUME IInv, ChainInv, DivergenceInv, [Next]_vars PROVE DivergenceInv'
  OBVIOUS
<1>1. LedgerStep
  BY StepsOnLedger
<1>2. ASSUME NEW c \in Calls, StartAny(c) \/ Work(c) \/ Drop(c)
      PROVE  DivergenceInv'
  <2>1. LocksInv'
    BY <1>1, <1>2, LocksQuiet, LocksDrop, LocksExchange DEF DivergenceInv, Work, Rpc, Quiet
  <2>2. SettlementsInv'
    BY <1>1, <1>2, SettlementsStep DEF DivergenceInv
  <2>. QED  BY <2>1, <2>2 DEF DivergenceInv
<1>3. CASE UNCHANGED vars
  <2>1. Recorded' = Recorded /\ LockTxs' = LockTxs /\ LeftLocks' = LeftLocks /\ Awaited' = Awaited
    BY <1>3 DEF vars, Recorded, Open, LockTxs, LeftLocks, Awaited
  <2>2. \A k \in Calls, r \in Requests : MayLearn(k, r)' <=> MayLearn(k, r)
    BY <1>3 DEF vars, MayLearn, InChain
  <2>3. \A r \in Requests : Settled(r)' <=> Settled(r)
    BY <1>3 DEF vars, Settled, Open
  <2>4. Unlearned' = Unlearned /\ Doomed' = Doomed
    BY <1>3, <2>2, <2>3 DEF vars, Unlearned, Doomed
  <2>. QED  BY <1>3, <2>1, <2>4 DEF vars, DivergenceInv, LocksInv, SettlementsInv
<1>. QED  BY <1>2, <1>3 DEF Next

LEMMA DivergenceInit == Init => DivergenceInv
<1>. SUFFICES ASSUME Init PROVE DivergenceInv
  OBVIOUS
<1>1. Recorded = {} /\ LeftLocks = {} /\ Unlearned = {} /\ Doomed = {} /\ Awaited = {}
  BY DEF Init, Recorded, Open, LeftLocks, Unlearned, Settled, Doomed, Awaited, Noop
<1>2. LockTxs = {}
  <2>1. Len(chain) = 0
    BY DEF Init
  <2>. QED  BY <2>1 DEF LockTxs
<1>3. IsFiniteSet({}) /\ Cardinality({}) = 0 /\ faults = 0 /\ drops = 0
  BY FS_EmptySet DEF Init
<1>. QED  BY <1>1, <1>2, <1>3 DEF DivergenceInv, LocksInv, SettlementsInv

THEOREM DivergenceSafety == Spec => []DivergenceInv
  BY DivergenceInit, DivergenceStep, LedgerSafety, ChainSafety, PTL DEF Spec

\* A channel open on the chain that the ledger does not know, and one settled in the
\* ledger that the chain does not know of, cost a failed RPC or a dropped call each,
\* for any number of calls and channels (lock_funds, release_funds).
THEOREM DivergencesNeedFailures == Spec => []DivergenceNeedsFailures
<1>1. IInv /\ ChainInv /\ DivergenceInv => DivergenceNeedsFailures
  <2>. SUFFICES ASSUME IInv, ChainInv, DivergenceInv PROVE DivergenceNeedsFailures
    OBVIOUS
  <2>failures. faults \in Nat /\ drops \in Nat
    BY DEF IInv, TypeOK
  <2>fin. /\ Cardinality(LockTxs) \in Nat /\ Cardinality(LeftLocks) \in Nat /\ Cardinality(Awaited) \in Nat
          /\ IsFiniteSet(Awaited) /\ Awaited \subseteq {owner}
    BY CountsAreFinite DEF ChainInv
  <2>recorded. IsFiniteSet(Recorded) /\ Cardinality(Recorded) \in Nat
    BY FS_CardinalityType DEF DivergenceInv, LocksInv
  <2>1. Cardinality(Awaited) <= IF \E r \in Requests : AtWork({"lock"}, r) THEN 1 ELSE 0
    <3>1. CASE Awaited = {}
      BY <3>1, FS_EmptySet
    <3>2. CASE Awaited # {}
      <4>1. PICK c \in Calls : c \in Awaited /\ c = owner
        BY <3>2, <2>fin DEF Awaited
      <4>2. call[c].req \in Requests /\ AtWork({"lock"}, call[c].req)
        BY <4>1 DEF Awaited, AtWork, IInv, CallInv
      <4>3. IsFiniteSet({owner}) /\ Cardinality({owner}) = 1
        BY FS_Singleton
      <4>4. Cardinality(Awaited) <= 1
        BY <4>3, <2>fin, FS_Subset
      <4>. QED  BY <4>2, <4>4
    <3>. QED  BY <3>1, <3>2
  <2>2. Cardinality(LockTxs) <= Cardinality(Recorded)
           + (IF \E r \in Requests : AtWork({"lock"}, r) THEN 1 ELSE 0) + faults + drops
    BY <2>1, <2>fin, <2>recorded, <2>failures DEF DivergenceInv, LocksInv
  <2>. DEFINE Unsettled == {r \in Requests :
                  /\ Settled(r) /\ ~AtWork({"release", "refund"}, r)
                  /\ AcceptedTxs({"release", "refund"}, r) = {}}
  \* A dropped call may have left its transaction on the wire: it is doomed, or will
  \* be learned of.
  <2>3. ASSUME onChain
        PROVE  Cardinality(Unsettled) <= faults + drops
    <3>. DEFINE Left == {c \in wire : pc[c] = "dropped"}
                LeftReqs == {r \in Requests : \E c \in Left : call[c].req = r}
    <3>1. Unsettled \subseteq Unlearned \union LeftReqs
      <4>. SUFFICES ASSUME NEW r \in Unsettled, r \notin Unlearned
                    PROVE  r \in LeftReqs
        OBVIOUS
      <4>1. PICK c \in Calls : MayLearn(c, r)
        BY DEF Unlearned
      <4>2. /\ call[c].op \in {"release", "refund"} /\ call[c].req = r
            /\ pc[c] = "reading" \/ c \in wire \/ InChain(c)
        BY <4>1 DEF MayLearn
      <4>3. ~InChain(c)
        BY <4>2 DEF InChain, AcceptedTxs
      <4>4. pc[c] \notin Critical
        BY <4>2 DEF IInv, MutexInv, AtWork
      <4>5. c \in wire /\ pc[c] = "dropped"
        BY <4>2, <4>3, <4>4 DEF ChainInv, WireInv, Critical
      <4>. QED  BY <4>2, <4>5
    <3>2. /\ Left \subseteq Doomed /\ IsFiniteSet(Doomed) /\ Cardinality(Doomed) \in Nat
          /\ IsFiniteSet(Unlearned) /\ Cardinality(Unlearned) \in Nat
      <4>1. Doomed \subseteq wire /\ IsFiniteSet(wire) /\ Left \subseteq Doomed
        BY DEF Doomed, ChainInv, WireInv
      <4>2. Unlearned \subseteq Recorded
        BY DEF Unlearned, Recorded, Settled
      <4>. QED  BY <4>1, <4>2, <2>recorded, FS_Subset, FS_CardinalityType
    <3>3. /\ IsFiniteSet(Left) /\ Cardinality(Left) \in Nat
          /\ Cardinality(Left) <= Cardinality(Doomed)
      BY <3>2, FS_Subset, FS_CardinalityType
    <3>4. IsFiniteSet(LeftReqs) /\ Cardinality(LeftReqs) <= Cardinality(Left)
      <4>. DEFINE reqOf == [c \in Left |-> call[c].req]
      <4>1. Left \subseteq Calls /\ \A c \in Left : call[c].req \in Requests
        BY DEF IInv, TypeOK, CallInv
      <4>2. reqOf \in [Left -> LeftReqs] /\ \A r \in LeftReqs : \E c \in Left : reqOf[c] = r
        BY <4>1
      <4>3. reqOf \in Surjection(Left, LeftReqs)
        BY <4>2 DEF Surjection
      <4>. HIDE DEF Left, LeftReqs, reqOf
      <4>. QED  BY <4>3, <3>3, FS_Surjection
    <3>. HIDE DEF Left, LeftReqs, Unsettled
    <3>5. IsFiniteSet(Unlearned \union LeftReqs)
          /\ Cardinality(Unlearned \union LeftReqs) <= Cardinality(Unlearned) + Cardinality(LeftReqs)
      <4>1. IsFiniteSet(Unlearned \intersect LeftReqs)
        BY <3>2, FS_Subset
      <4>2. /\ Cardinality(LeftReqs) \in Nat
            /\ Cardinality(Unlearned \intersect LeftReqs) \in Nat
        BY <3>4, <4>1, FS_CardinalityType
      <4>3. /\ IsFiniteSet(Unlearned \union LeftReqs)
            /\ Cardinality(Unlearned \union LeftReqs) = Cardinality(Unlearned)
                  + Cardinality(LeftReqs) - Cardinality(Unlearned \intersect LeftReqs)
        BY <3>2, <3>4, FS_Union
      <4>. QED  BY <3>2, <4>2, <4>3
    <3>6. /\ Cardinality(Unsettled) \in Nat /\ Cardinality(LeftReqs) \in Nat
          /\ Cardinality(Unsettled) <= Cardinality(Unlearned \union LeftReqs)
          /\ Cardinality(Unlearned \union LeftReqs) \in Nat
      BY <3>1, <3>4, <3>5, FS_Subset, FS_CardinalityType
    <3>7. Cardinality(Unlearned) + Cardinality(Doomed) <= faults + drops
      BY <2>3 DEF DivergenceInv, SettlementsInv
    <3>. QED  BY <3>2, <3>3, <3>4, <3>5, <3>6, <3>7, <2>failures
  <2>. QED  BY <2>2, <2>3 DEF DivergenceNeedsFailures, LockTxs, Recorded
<1>. QED  BY <1>1, LedgerSafety, ChainSafety, DivergenceSafety, PTL
=============================================================================
