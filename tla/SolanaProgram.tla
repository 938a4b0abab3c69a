---------------------------- MODULE SolanaProgram ----------------------------
(***************************************************************************)
(* The Anchor program programs/pinaivu: escrows, score accounts, node      *)
(* registrations and the global statistics.  An instruction is an action   *)
(* on the accounts it writes, and is guarded by what its handler and the   *)
(* constraints of its accounts require; the transaction that carries it    *)
(* fails otherwise and leaves everything as it was.  Rent is left out.     *)
(***************************************************************************)
EXTENDS FiniteSetsExt, Sums

CONSTANTS Wallets,        \* accounts that sign
          Requests,       \* request ids: the seeds of the escrows
          NodeKeys,       \* P2P keys of nodes: the seeds of scores and registrations
          Amounts,        \* lamports that are locked
          Timeouts,       \* the timeout_secs a client passes
          DefaultTimeout, \* program_state.escrow_timeout_secs
          Latencies,      \* latency_ms of a proof
          Roots,          \* Merkle roots
          Funds,          \* lamports of each wallet at the start
          MaxTime,        \* bound: Clock::unix_timestamp
          Nil             \* no account; the zero hash

ASSUME ProgramAssumption ==
    /\ Amounts \subseteq Nat /\ Timeouts \subseteq Int /\ Latencies \subseteq Nat
    /\ DefaultTimeout \in Nat /\ Funds \in Nat /\ MaxTime \in Nat
    /\ IsFiniteSet(Wallets) /\ IsFiniteSet(Requests) /\ Wallets \intersect Requests = {}
    /\ Nil \notin Wallets \union Requests \union Roots

VARIABLES escrow,        \* the EscrowAccount of each request
          score,         \* the NodeScore of each node
          registration,  \* the NodeRegistration of each node
          state,         \* ProgramState
          lamports,      \* what each wallet and each escrow holds
          clock

programVars == <<escrow, score, registration, state, lamports, clock>>

ProgramInit ==
    /\ escrow = [r \in Requests |-> Nil]
    /\ score = [k \in NodeKeys |-> Nil]
    /\ registration = [k \in NodeKeys |-> Nil]
    /\ state = [nodes |-> 0, jobs |-> 0, volume |-> 0]
    /\ lamports = [a \in Wallets \union Requests |-> IF a \in Wallets THEN Funds ELSE 0]
    /\ clock = 0

Transfer(from, to, amount) ==
    lamports' = [lamports EXCEPT ![from] = @ - amount, ![to] = @ + amount]

-----------------------------------------------------------------------------
(* Escrow.                                                                 *)

\* The escrow's address comes from the request id: it is made once.
CanLock(client, r, amount) ==
    /\ escrow[r] = Nil
    /\ lamports[client] >= amount

lock_escrow(client, r, node, amount, timeout) ==
    /\ CanLock(client, r, amount)
    /\ escrow' = [escrow EXCEPT ![r] =
          [client |-> client, node |-> node, amount |-> amount, state |-> "Locked",
           expires |-> clock + (IF timeout > 0 THEN timeout ELSE DefaultTimeout), proof |-> Nil]]
    /\ Transfer(client, r, amount)

Locked(r) == escrow[r] # Nil /\ escrow[r].state = "Locked"

\* Mutated form: the state is not looked at.
CanRelease_Unchecked(signer, r) ==
    /\ escrow[r] # Nil
    /\ clock <= escrow[r].expires
    /\ signer = escrow[r].node

CanRelease(signer, r) ==
    /\ Locked(r)
    /\ clock <= escrow[r].expires
    /\ signer = escrow[r].node

release_escrow(signer, r, proof) ==
    /\ CanRelease(signer, r)
    /\ escrow' = [escrow EXCEPT ![r] = [@ EXCEPT !.state = "Released", !.proof = proof]]
    /\ Transfer(r, signer, escrow[r].amount)
    /\ state' = [state EXCEPT !.jobs = @ + 1, !.volume = @ + escrow[r].amount]

\* Mutated form: the state is not looked at.
CanRefund_Unchecked(signer, r) ==
    /\ escrow[r] # Nil
    /\ clock > escrow[r].expires
    /\ signer = escrow[r].client

CanRefund(signer, r) ==
    /\ Locked(r)
    /\ clock > escrow[r].expires
    /\ signer = escrow[r].client

refund_escrow(signer, r) ==
    /\ CanRefund(signer, r)
    /\ escrow' = [escrow EXCEPT ![r].state = "Refunded"]
    /\ Transfer(r, signer, escrow[r].amount)

-----------------------------------------------------------------------------
(* Score.                                                                  *)

\* Success rate (always 10000 basis points), volume and latency: 40, 40 and 20
\* percent of 10^9.  The quotients are exact, so they are written as products.
recompute_score(jobs, latency) ==
    400000000 + 40000 * Min({jobs, 10000}) + 40000 * (5000 - Min({latency, 5000}))

initialize_score(authority, k) ==
    /\ score[k] = Nil
    /\ score' = [score EXCEPT ![k] =
          [authority |-> authority, root |-> Nil, jobs |-> 0, earned |-> 0,
           latency |-> 0, score |-> 0]]

IsAuthority(signer, account) == account # Nil /\ account.authority = signer

CanSubmit(signer, k, proof) == proof # Nil /\ IsAuthority(signer, score[k])

submit_proof(signer, k, proof, sample, earned) ==
    /\ CanSubmit(signer, k, proof)
    /\ LET old     == score[k]
           latency == (old.latency * 9 + sample) \div 10
       IN  score' = [score EXCEPT ![k] =
              [old EXCEPT !.jobs = @ + 1, !.earned = @ + earned, !.latency = latency,
                          !.score = recompute_score(old.jobs + 1, latency)]]

anchor_merkle_root(signer, k, root) ==
    /\ IsAuthority(signer, score[k])
    /\ score' = [score EXCEPT ![k].root = root]

-----------------------------------------------------------------------------
(* Registry.                                                               *)

register_node(authority, k) ==
    /\ registration[k] = Nil
    /\ registration' = [registration EXCEPT ![k] = [authority |-> authority, active |-> TRUE]]
    /\ state' = [state EXCEPT !.nodes = @ + 1]

update_node(signer, k, active) ==
    /\ IsAuthority(signer, registration[k])
    /\ registration' = [registration EXCEPT ![k].active = active]

AdvanceClock ==
    /\ clock < MaxTime
    /\ clock' = clock + 1
    /\ UNCHANGED <<escrow, score, registration, state, lamports>>

-----------------------------------------------------------------------------
(* Properties.                                                             *)

EscrowAccount ==
    [client : Wallets, node : Wallets, amount : Amounts, expires : Nat,
     state : {"Locked", "Released", "Refunded"}, proof : Requests \union {Nil}]

MaxScore == 1000000000

NodeScore ==
    [authority : Wallets, root : Roots \union {Nil}, jobs : Nat, earned : Nat,
     latency : Nat, score : 0..MaxScore]

\* No account is told from every account.
ASSUME NilAssumption == Nil \notin EscrowAccount \union NodeScore

ProgramTypeOK ==
    /\ escrow \in [Requests -> EscrowAccount \union {Nil}]
    /\ score \in [NodeKeys -> NodeScore \union {Nil}]
    /\ registration \in [NodeKeys -> [authority : Wallets, active : BOOLEAN] \union {Nil}]
    /\ state \in [nodes : Nat, jobs : Nat, volume : Nat]
    /\ lamports \in [Wallets \union Requests -> Nat]
    /\ clock \in 0..MaxTime

InState(r, s) == escrow[r] # Nil /\ escrow[r].state = s

Held(r) == IF Locked(r) THEN escrow[r].amount ELSE 0
ToNode(r) == IF InState(r, "Released") THEN escrow[r].amount ELSE 0
ToClient(r) == IF InState(r, "Refunded") THEN escrow[r].amount ELSE 0
Phase(r) == IF escrow[r] = Nil THEN "none" ELSE IF Locked(r) THEN "held" ELSE "paid"

E == INSTANCE Escrow WITH
        Deals <- Requests,
        held <- [r \in Requests |-> Held(r)],
        toNode <- [r \in Requests |-> ToNode(r)],
        toClient <- [r \in Requests |-> ToClient(r)],
        phase <- [r \in Requests |-> Phase(r)]

\* Whoever signs which transactions, and on whichever side of the expiry they
\* land: an escrow is made once and paid out once, all of it to the node or all
\* of it back to the client.
EscrowSpec == E!Spec
=============================================================================
