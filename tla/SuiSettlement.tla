---------------------------- MODULE SuiSettlement ----------------------------
(***************************************************************************)
(* The Sui adapter settlement/src/sui.rs, called for several requests at a *)
(* time and for the anchoring of Merkle roots, on one wallet.  Every call  *)
(* is a transaction of the node's: it asks for its coins and takes the     *)
(* first that is large enough, lets the fullnode build the transaction,    *)
(* signs it and has it executed.                                           *)
(*                                                                         *)
(* The chain, its fullnode and the Move package are external: the fullnode *)
(* builds with the coins as they are, one coin cannot be both payment and  *)
(* gas, and a transaction runs on the versions it was built with or not at *)
(* all.  lock_escrow takes its coin whole; a receipt is an object, which a *)
(* transaction digest does not name.                                       *)
(***************************************************************************)
EXTENDS Integers, Sequences, Sums

CONSTANTS
    SuiTasks,      \* requests, and roots to anchor
    Anchored,      \* those of them that are roots
    Price,         \* amount_nanox of each request
    Balances,      \* the coins of the wallet, in the fullnode's order
    GasBudget,     \* of "lock", "release", "refund" and "anchor"
    MaxSuiFaults   \* bound: calls that fail, or whose answer is lost

\* A request pays something, and a transaction's gas, one unit, is less than its budget.
ASSUME SuiAssumption ==
    /\ IsFiniteSet(SuiTasks) /\ Anchored \subseteq SuiTasks
    /\ Price \in Nat \ {0} /\ Balances \in Seq(Nat) /\ MaxSuiFaults \in Nat
    /\ GasBudget \in [{"lock", "release", "refund", "anchor"} -> Nat \ {0, 1}]

VARIABLES
    call,     \* what each task calls: "lock", "release", "refund", "anchor", ...
    at,       \* where in the call: "payment", "gas", "build", "execute"
    payment,  \* the coin it pays with, 0 if none
    gas,      \* the coin it pays the gas with
    built,    \* balance and versions the transaction was built with
    coins,    \* each coin: its balance and version, and whether the wallet has it
    sealed,   \* the escrows: what each lock put away
    handle,   \* tasks whose lock_funds returned a handle
    usedBetween, \* history: tasks whose payment coin another transaction used
    suiFaults

suiVars == <<call, at, payment, gas, built, coins, sealed, handle, usedBetween, suiFaults>>

CoinIds == DOMAIN Balances
Unbuilt == [pay |-> 0, gas |-> 0]

SuiInit ==
    /\ call = [t \in SuiTasks |-> IF t \in Anchored THEN "anchor" ELSE "lock"]
    /\ at = [t \in SuiTasks |-> IF t \in Anchored THEN "gas" ELSE "payment"]
    /\ payment = [t \in SuiTasks |-> 0]
    /\ gas = [t \in SuiTasks |-> 0]
    /\ built = [t \in SuiTasks |-> Unbuilt]
    /\ coins = [i \in CoinIds |-> [balance |-> Balances[i], version |-> 1, mine |-> TRUE]]
    /\ sealed = [t \in SuiTasks |-> 0]
    /\ handle = {} /\ usedBetween = {} /\ suiFaults = 0

SuiFault == suiFaults < MaxSuiFaults /\ suiFaults' = suiFaults + 1

LargeEnough(least) == {i \in CoinIds : coins[i].mine /\ coins[i].balance >= least}

\* pick_gas_coin: the first of the fullnode's list.
FirstCoin(least) == CHOOSE i \in LargeEnough(least) : \A j \in LargeEnough(least) : i <= j

\* Without a lock there is no receipt; a release that fails is a warning.
Fails(t) ==
    /\ call' = [call EXCEPT ![t] = [lock |-> "none", release |-> "receipt",
                                   refund |-> "kept", anchor |-> "none"][@]]
    /\ at' = [at EXCEPT ![t] = "end"]

PickPayment(t) ==
    /\ at[t] = "payment"
    /\ \/ /\ LargeEnough(Price) # {}
          /\ payment' = [payment EXCEPT ![t] = FirstCoin(Price)]
          /\ at' = [at EXCEPT ![t] = "gas"]
          /\ UNCHANGED <<call, suiFaults>>
       \/ LargeEnough(Price) = {} /\ Fails(t) /\ UNCHANGED <<payment, suiFaults>>
       \/ SuiFault /\ Fails(t) /\ UNCHANGED payment
    /\ UNCHANGED <<gas, built, coins, sealed, handle, usedBetween>>

PickGas(t) ==
    LET budget == GasBudget[call[t]] IN
    /\ at[t] = "gas"
    /\ \/ /\ LargeEnough(budget) # {}
          /\ gas' = [gas EXCEPT ![t] = FirstCoin(budget)]
          /\ at' = [at EXCEPT ![t] = "build"]
          /\ UNCHANGED <<call, suiFaults>>
       \/ LargeEnough(budget) = {} /\ Fails(t) /\ UNCHANGED <<gas, suiFaults>>
       \/ SuiFault /\ Fails(t) /\ UNCHANGED gas
    /\ UNCHANGED <<payment, built, coins, sealed, handle, usedBetween>>

Version(i) == IF i = 0 THEN 0 ELSE coins[i].version

\* What unsafe_moveCall can build now: a release or a refund names its escrow by
\* the digest of the lock, which is no object.
Buildable(t) ==
    /\ call[t] \in {"lock", "anchor"}
    /\ gas[t] # payment[t]
    /\ coins[gas[t]].mine /\ coins[gas[t]].balance >= GasBudget[call[t]]
    /\ payment[t] # 0 => coins[payment[t]].mine

Build(t) ==
    /\ at[t] = "build"
    /\ \/ /\ Buildable(t)
          /\ built' = [built EXCEPT ![t] = [pay |-> Version(payment[t]), gas |-> Version(gas[t])]]
          /\ at' = [at EXCEPT ![t] = "execute"]
          /\ UNCHANGED <<call, suiFaults>>
       \/ ~Buildable(t) /\ Fails(t) /\ UNCHANGED <<built, suiFaults>>
       \/ SuiFault /\ Fails(t) /\ UNCHANGED built
    /\ UNCHANGED <<payment, gas, coins, sealed, handle, usedBetween>>

Current(t) == built[t] = [pay |-> Version(payment[t]), gas |-> Version(gas[t])]

\* The coins after a transaction that ran: a unit of gas, and the payment coin if
\* the package took it.
Charged(t, takes) == [i \in CoinIds |->
    [balance |-> IF i = gas[t] THEN coins[i].balance - 1 ELSE coins[i].balance,
     version |-> IF i \in {gas[t], payment[t]} THEN coins[i].version + 1 ELSE coins[i].version,
     mine    |-> IF i = payment[t] THEN ~takes ELSE coins[i].mine]]

\* The digest comes back whether the transaction's effects were a success or not;
\* the adapter does not look at them.
Returns(t) ==
    IF call[t] = "lock"
    THEN /\ call' = [call EXCEPT ![t] = "release"] /\ at' = [at EXCEPT ![t] = "gas"]
         /\ handle' = handle \union {t}
    ELSE /\ call' = [call EXCEPT ![t] = "done"] /\ at' = [at EXCEPT ![t] = "end"]
         /\ UNCHANGED handle

\* sui_executeTransactionBlock
Execute(t) ==
    /\ at[t] = "execute" /\ Current(t)
    /\ \E aborts \in BOOLEAN :
          LET takes == ~aborts /\ call[t] = "lock" IN
          /\ coins' = Charged(t, takes)
          /\ sealed' = IF takes THEN [sealed EXCEPT ![t] = coins[payment[t]].balance] ELSE sealed
          /\ aborts => SuiFault
          /\ \/ Returns(t) /\ (~aborts => UNCHANGED suiFaults)
             \/ ~aborts /\ SuiFault /\ Fails(t) /\ UNCHANGED handle
    /\ usedBetween' = usedBetween \union
          {u \in SuiTasks \ {t} : at[u] \in {"gas", "build"} /\ payment[u] \in {gas[t], payment[t]} \ {0}}
    /\ payment' = [payment EXCEPT ![t] = 0]
    /\ gas' = [gas EXCEPT ![t] = 0]
    /\ UNCHANGED built

\* Mutated form: a lock that fails leaves a handle, as the Arc gateway's does.
ExecuteRefused_Handle(t) ==
    /\ at[t] = "execute" /\ ~Current(t)
    /\ Returns(t)
    /\ UNCHANGED <<payment, gas, built, coins, sealed, usedBetween, suiFaults>>

\* Another transaction has used one of the coins, or the call fails.
ExecuteRefused(t) ==
    /\ at[t] = "execute"
    /\ \/ ~Current(t) /\ UNCHANGED suiFaults
       \/ SuiFault
    /\ Fails(t)
    /\ UNCHANGED <<payment, gas, built, coins, sealed, handle, usedBetween>>

\* The refund of a handle, by a caller of the adapter.
RefundSui(t) ==
    /\ call[t] = "receipt"
    /\ call' = [call EXCEPT ![t] = "refund"] /\ at' = [at EXCEPT ![t] = "gas"]
    /\ UNCHANGED <<payment, gas, built, coins, sealed, handle, usedBetween, suiFaults>>

SuiNext == \E t \in SuiTasks :
    \/ PickPayment(t) \/ PickGas(t) \/ Build(t) \/ Execute(t) \/ ExecuteRefused(t)
    \/ RefundSui(t)

SuiSpec == SuiInit /\ [][SuiNext]_suiVars
-----------------------------------------------------------------------------
(* Properties.                                                             *)

\* An escrow holds what its handle says or more, unless another transaction paid
\* its gas with the coin after pick_gas_coin had chosen it and before the fullnode
\* built the transaction with it (sui.rs:240-372).
EscrowIsFull ==
    \A t \in SuiTasks : sealed[t] > 0 => sealed[t] >= Price \/ t \in usedBetween

WalletCoins == {i \in CoinIds : coins[i].mine}
CoinBalance == [i \in CoinIds |-> coins[i].balance]
Spent == SumOver(Balances, CoinIds) - SumOver(CoinBalance, WalletCoins) - SumOver(sealed, SuiTasks)

\* A coin goes into one escrow: what the wallet had is in its coins and the escrows,
\* less a unit for each transaction.
CoinsAreSpentOnce == Spent \in 0..Cardinality(SuiTasks)

\* A handle without an escrow comes of a transaction that was executed in vain, and
\* an escrow without a handle of an answer that was lost.
HandlesAreEscrows == suiFaults = 0 => \A t \in SuiTasks : sealed[t] > 0 <=> t \in handle

\* The escrows the adapter makes are those it says, of what it says, whatever the
\* order in which settlements and anchorings use the wallet.
SuiEscrowsAreRight == EscrowIsFull /\ CoinsAreSpentOnce /\ HandlesAreEscrows
=============================================================================
