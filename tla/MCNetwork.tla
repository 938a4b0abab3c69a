------------------------------ MODULE MCNetwork ------------------------------
(***************************************************************************)
(* Bounds for Swarm, Marketplace, NodeScheduler, InferenceStream and       *)
(* Reputation.  They share no state, so every behaviour is one of one of   *)
(* them: interleaving them would multiply the states and add none of       *)
(* interest.                                                               *)
(***************************************************************************)
EXTENDS Swarm, Marketplace, NodeScheduler, InferenceStream, MCReputation

VARIABLE part   \* which of them the behaviour is of

Parts == {"swarm", "market", "scheduler", "stream", "reputation"}
allVars == <<part, swarmVars, marketVars, schedulerVars, streamVars, reputationVars>>

Plain == [serves |-> TRUE, slots |-> 1, price |-> 1000, escrow |-> 100, tee |-> FALSE]
Large == [serves |-> TRUE, slots |-> 2, price |-> 2000, escrow |-> 0, tee |-> TRUE]
Other == [serves |-> FALSE, slots |-> 2, price |-> 2000, escrow |-> 0, tee |-> TRUE]
MCEngines == {Plain, Large, Other}

\* budget_nanox is u64::MAX: more than any price.
MCBudget == [r \in Asks |-> 1000000]

Idle == [active |-> 0, queued |-> 0]
Busy == [active |-> 1, queued |-> 3]
MCLoads == {Idle, Busy}

\* The chats of n messages, each short or long.
ChatsOf(n, roles) ==
    {[by |-> "chat", messages |-> [i \in 1..n |-> [role |-> role[i], text |-> <<i>>, bytes |-> size[i]]]] :
         role \in [1..n -> roles], size \in [1..n -> {1, 20}]}

\* Four messages show which of three are kept, three who is taken for whom.
MCChats == UNION {ChatsOf(n, Roles) : n \in 1..3} \union ChatsOf(4, {"system", "user"})

\* The requests of a peer and sealed ones have one message.
Single(who) == [by |-> who, messages |-> <<[role |-> "user", text |-> <<1>>, bytes |-> 1]>>]

MCConversations == MCChats \union {Single("encrypted"), Single("peer")}

\* The engine answers requests of one message: how it answers does not depend on
\* what it is asked.
OneAnswer == collector = "asking" /\ Len(asked.messages) > 1 => collector' # "collecting"

MCInit ==
    /\ part \in Parts /\ SwarmInit /\ MarketInit /\ SchedulerInit /\ StreamInit /\ ReputationInit
    /\ part # "market" => engine = [n \in Bidders |-> Plain] /\ known = {}
    /\ part # "stream" => asked = Single("peer")

MCNext ==
    /\ UNCHANGED part
    /\ \/ /\ part = "swarm" /\ SwarmNext
          /\ UNCHANGED <<marketVars, schedulerVars, streamVars, reputationVars>>
       \/ /\ part = "market" /\ MarketNext
          /\ UNCHANGED <<swarmVars, schedulerVars, streamVars, reputationVars>>
       \/ /\ part = "scheduler" /\ SchedulerNext
          /\ UNCHANGED <<swarmVars, marketVars, streamVars, reputationVars>>
       \/ /\ part = "stream" /\ StreamNext /\ OneAnswer
          /\ UNCHANGED <<swarmVars, marketVars, schedulerVars, reputationVars>>
       \/ /\ part = "reputation" /\ MCReputationNext
          /\ UNCHANGED <<swarmVars, marketVars, schedulerVars, streamVars>>

\* As in SchedulerFairSpec and StreamFairSpec.
MCSpec ==
    /\ MCInit /\ [][MCNext]_allVars
    /\ \A j \in Jobs : WF_allVars(/\ part = "scheduler" /\ Task(j)
                                  /\ UNCHANGED <<part, swarmVars, marketVars, streamVars, reputationVars>>)
    /\ WF_allVars(/\ part = "stream" /\ StreamTasks
                  /\ UNCHANGED <<part, swarmVars, marketVars, schedulerVars, reputationVars>>)
    /\ WF_allVars(/\ part = "stream" /\ Break
                  /\ UNCHANGED <<part, swarmVars, marketVars, schedulerVars, reputationVars>>)

\* A job taken on is answered, and a generation begun comes to an end.
WorkEnds == JobsAreAnswered /\ StreamsEnd
==============================================================================
