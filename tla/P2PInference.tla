---------------------------- MODULE P2PInference ----------------------------
(***************************************************************************)
(* Inference routed to a peer: infer_via_p2p on the node the client talks  *)
(* to, the swarm task and the event loop of every node, and                *)
(* execute_p2p_inference on the target.                                    *)
(*                                                                         *)
(* A request is published on the topic of its model and on inference/any,  *)
(* and its chunks on inference/any; what comes on the topic of a model is  *)
(* ignored.  Gossip is taken in by the swarm task, handed on through a     *)
(* bounded channel of events, and routed by the event loop to the bounded  *)
(* channel a handler collects its answer from.  The swarm task serves the  *)
(* commands of everybody else on its node, the event loop included, only   *)
(* while it does not wait for room for an event.                           *)
(***************************************************************************)
EXTENDS Integers, Sequences, FiniteSets

CONSTANTS Requests,   \* requests, with the response ids made for them
          Nodes,
          ModelNodes, \* the nodes subscribed to the topic of the model
          Tokens,
          Answers,    \* what the engine may answer
          EventCap,   \* room in the channel of events (256)
          ChunkCap,   \* room in the channel of a collector (256)
          MaxFaults,  \* bound: messages lost, delayed or doubled, publications
                      \* and inferences that fail
          MaxDrops,   \* bound: handlers dropped at an await
          MaxOthers   \* bound: events of other kinds

ASSUME InferenceAssumption ==
    /\ ModelNodes \subseteq Nodes
    /\ Answers \subseteq Seq(Tokens) \ {<<>>}
    /\ EventCap \in Nat \ {0} /\ ChunkCap \in Nat \ {0}
    /\ MaxFaults \in Nat /\ MaxDrops \in Nat /\ MaxOthers \in Nat

VARIABLES
    pc,         \* where the handler of each request is
    home,       \* the node that handles it
    target,     \* the node that is to execute it
    collectors, \* response_collectors of all nodes; response ids are unique
    rx,         \* the chunks that wait for each handler
    answer,     \* the chunks it has collected
    overflown,  \* requests a chunk was dropped for, its collector being full
    inFlight,   \* the messages on the way to each node
    seen,       \* the messages a node has published or received
    events,     \* the channel of events of each node
    sending,    \* the event its swarm task waits with for room there
    asking,     \* the request its event loop asks the own peer id for
    run,        \* the execution of each request
    faults, drops, others

handlerVars == <<pc, home, target, collectors, rx, answer, overflown, drops>>
networkVars == <<inFlight, seen>>
nodeVars    == <<events, sending, asking, others>>
vars == <<handlerVars, networkVars, nodeVars, run, faults>>

Request(r, topic) == [kind |-> "request", req |-> r, topic |-> topic]
Chunk(r, token, last) ==
    [kind |-> "chunk", req |-> r, topic |-> "any", token |-> token, last |-> last, error |-> FALSE]
\* "Set on error - token will be empty".
ErrorChunk(r) ==
    [kind |-> "chunk", req |-> r, topic |-> "any", token |-> "", last |-> TRUE, error |-> TRUE]

Other == [kind |-> "other"]

NotRun == [at |-> "none", tokens |-> <<>>, sent |-> 0]

Init ==
    /\ pc = [r \in Requests |-> "idle"]
    /\ home \in [Requests -> Nodes] /\ target \in [Requests -> Nodes]
    /\ collectors = {}
    /\ rx = [r \in Requests |-> <<>>]
    /\ answer = [r \in Requests |-> <<>>]
    /\ overflown = {}
    /\ inFlight = [n \in Nodes |-> <<>>]
    /\ seen = [n \in Nodes |-> {}]
    /\ events = [n \in Nodes |-> <<>>]
    /\ sending = [n \in Nodes |-> <<>>]
    /\ asking = [n \in Nodes |-> <<>>]
    /\ run = [r \in Requests |-> NotRun]
    /\ faults = 0
    /\ drops = 0
    /\ others = 0

Goto(r, to) == pc' = [pc EXCEPT ![r] = to]
Fault == faults < MaxFaults /\ faults' = faults + 1

\* The swarm task is in its select: it takes commands and messages.
Free(n) == sending[n] = <<>>

-----------------------------------------------------------------------------
(* Gossip.                                                                 *)

Subscribers(topic) == IF topic = "model" THEN ModelNodes ELSE Nodes

\* Messages are told apart by their topic and their bytes: what a node has
\* published or received is refused as a duplicate.
New(n, m) == m \notin seen[n]

See(n, msgs) == seen' = [seen EXCEPT ![n] = @ \union msgs]

\* What n publishes goes to every other subscriber of its topic.
Copy(n, p, m) == IF p # n /\ p \in Subscribers(m.topic) /\ New(n, m) THEN <<m>> ELSE <<>>

Publish(n, m) ==
    /\ inFlight' = [p \in Nodes |-> inFlight[p] \o Copy(n, p, m)]
    /\ See(n, {m})

PublishBoth(n, m1, m2) ==
    /\ inFlight' = [p \in Nodes |-> inFlight[p] \o Copy(n, p, m1) \o Copy(n, p, m2)]
    /\ See(n, {m1, m2})

Without(msgs, i) == SubSeq(msgs, 1, i - 1) \o SubSeq(msgs, i + 1, Len(msgs))

\* A message is lost, comes later than those after it, or comes twice.
Disturb(n) ==
    /\ Fault
    /\ \E i \in 1..Len(inFlight[n]) : \E copies \in 0..2 :
          /\ copies = 1 => i < Len(inFlight[n])
          /\ inFlight' = [inFlight EXCEPT ![n] =
                 IF copies = 0 THEN Without(@, i)
                 ELSE IF copies = 1 THEN Append(Without(@, i), @[i]) ELSE Append(@, @[i])]
    /\ UNCHANGED <<handlerVars, seen, nodeVars, run>>

-----------------------------------------------------------------------------
(* The swarm task.                                                         *)

\* Mutated form: the requests on the topic of a model are taken as well.
Known_ModelTopics(m) == TRUE

\* from_hash knows the topics of TOPIC_ constants, and no topic of a model.
Known(m) == m.topic = "any"

\* dispatch_gossipsub_message, then event_tx.send: without room it waits.
Deliver(n) ==
    /\ Free(n) /\ inFlight[n] # <<>>
    /\ inFlight' = [inFlight EXCEPT ![n] = Tail(@)]
    /\ LET m == Head(inFlight[n]) IN
          /\ See(n, {m})
          /\ sending' = [sending EXCEPT ![n] = IF New(n, m) /\ Known(m) THEN <<m>> ELSE <<>>]
    /\ UNCHANGED <<handlerVars, events, asking, others, run, faults>>

\* A peer that comes or goes, its announcement, bid or reputation root.
OtherEvent(n) ==
    /\ Free(n)
    /\ others < MaxOthers
    /\ others' = others + 1
    /\ sending' = [sending EXCEPT ![n] = <<Other>>]
    /\ UNCHANGED <<handlerVars, networkVars, events, asking, run, faults>>

Send(n) ==
    /\ ~Free(n) /\ Len(events[n]) < EventCap
    /\ events' = [events EXCEPT ![n] = @ \o sending[n]]
    /\ sending' = [sending EXCEPT ![n] = <<>>]
    /\ UNCHANGED <<handlerVars, networkVars, asking, others, run, faults>>

-----------------------------------------------------------------------------
(* The event loop.                                                         *)

Pop(n) ==
    /\ asking[n] = <<>> /\ events[n] # <<>>
    /\ events' = [events EXCEPT ![n] = Tail(@)]

\* A targeted request: the loop itself asks the swarm task for the own id.
HandleRequest(n) ==
    /\ Pop(n) /\ Head(events[n]).kind = "request"
    /\ asking' = [asking EXCEPT ![n] = <<Head(events[n])>>]
    /\ UNCHANGED <<handlerVars, networkVars, sending, others, run, faults>>

\* The answer: the target spawns the execution, every other node ignores it.
OwnPeerId(n) ==
    /\ asking[n] # <<>> /\ Free(n)
    /\ asking' = [asking EXCEPT ![n] = <<>>]
    /\ LET req == Head(asking[n]).req IN
       IF target[req] = n
       THEN \E tokens \in Answers :
                run' = [run EXCEPT ![req] = [at |-> "running", tokens |-> tokens, sent |-> 0]]
       ELSE UNCHANGED run
    /\ UNCHANGED <<handlerVars, networkVars, events, sending, others, faults>>

\* Where a handler is that holds the receiving end of its collector.
Working == {"subscribe", "publish", "collect", "cleanup"}
Ended == {"done", "failed", "dropped"}

Listening(r) == pc[r] \in Working

TrySend(r, chunk) ==
    IF Len(rx[r]) < ChunkCap
    THEN rx' = [rx EXCEPT ![r] = Append(@, chunk)] /\ UNCHANGED overflown
    ELSE overflown' = overflown \union {r} /\ UNCHANGED rx

\* A chunk: it goes to the collector of its response id, if there is one.
HandleChunk(n) ==
    /\ Pop(n) /\ Head(events[n]).kind = "chunk"
    /\ LET r == Head(events[n]).req IN
       IF r \in collectors /\ home[r] = n /\ Listening(r)
       THEN TrySend(r, Head(events[n]))
       ELSE UNCHANGED <<rx, overflown>>
    /\ UNCHANGED <<pc, home, target, collectors, answer, drops, networkVars, sending, asking, others, run, faults>>

\* Any other event: the registry, a bid's collector or a line of the log.
HandleOther(n) ==
    /\ Pop(n) /\ Head(events[n]) = Other
    /\ UNCHANGED <<handlerVars, networkVars, sending, asking, others, run, faults>>

-----------------------------------------------------------------------------
(* The handler, infer_via_p2p.                                             *)

\* Mutated form: the collector is registered by and by.
Register_Late(r) ==
    /\ \/ pc[r] = "idle" /\ Goto(r, "subscribe") /\ UNCHANGED collectors
       \/ pc[r] = "collect" /\ collectors' = collectors \union {r} /\ UNCHANGED pc
    /\ UNCHANGED <<home, target, rx, answer, overflown, drops, networkVars, nodeVars, run, faults>>

Register(r) ==
    /\ pc[r] = "idle"
    /\ Goto(r, "subscribe")
    /\ collectors' = collectors \union {r}
    /\ UNCHANGED <<home, target, rx, answer, overflown, drops, networkVars, nodeVars, run, faults>>

\* The topic it subscribes to stays silent: chunks come on inference/any.
Subscribe(r) ==
    /\ pc[r] = "subscribe" /\ Free(home[r])
    /\ Goto(r, "publish")
    /\ UNCHANGED <<home, target, collectors, rx, answer, overflown, drops, networkVars, nodeVars, run, faults>>

Broadcast(r) ==
    /\ pc[r] = "publish" /\ Free(home[r])
    /\ PublishBoth(home[r], Request(r, "model"), Request(r, "any"))
    /\ Goto(r, "collect")
    /\ UNCHANGED <<home, target, collectors, rx, answer, overflown, drops, nodeVars, run, faults>>

\* inference/any has no peer: an error is returned, though the topic of the
\* model may have had one; the collector stays behind.
BroadcastFails(r) ==
    /\ pc[r] = "publish" /\ Free(home[r])
    /\ Fault
    /\ \/ Publish(home[r], Request(r, "model"))
       \/ UNCHANGED networkVars
    /\ Goto(r, "failed")
    /\ UNCHANGED <<home, target, collectors, rx, answer, overflown, drops, nodeVars, run>>

\* Errors are not part of the answer; they and the final chunk end it.
Receive(r) ==
    /\ pc[r] = "collect" /\ rx[r] # <<>>
    /\ rx' = [rx EXCEPT ![r] = Tail(@)]
    /\ answer' = [answer EXCEPT ![r] = IF Head(rx[r]).error THEN @ ELSE Append(@, Head(rx[r]))]
    /\ Goto(r, IF Head(rx[r]).last THEN "cleanup" ELSE "collect")
    /\ UNCHANGED <<home, target, collectors, overflown, drops, networkVars, nodeVars, run, faults>>

\* Mutated form: waits for the chunks of a node that has answered once.
Timeout_OnlySilence(r) ==
    /\ pc[r] = "collect" /\ answer[r] = <<>>
    /\ Goto(r, "cleanup")
    /\ UNCHANGED <<home, target, collectors, rx, answer, overflown, drops, networkVars, nodeVars, run, faults>>

\* 120 seconds, whatever has come.
Timeout(r) ==
    /\ pc[r] = "collect"
    /\ Goto(r, "cleanup")
    /\ UNCHANGED <<home, target, collectors, rx, answer, overflown, drops, networkVars, nodeVars, run, faults>>

\* Mutated form: the collector stays behind.
Cleanup_Forgets(r) ==
    /\ pc[r] = "cleanup"
    /\ Goto(r, "done")
    /\ UNCHANGED <<home, target, collectors, rx, answer, overflown, drops, networkVars, nodeVars, run, faults>>

\* What follows touches nothing here: an unsubscribe command that is not waited
\* for, settle_and_build_receipt, and the response, complete or not.
Cleanup(r) ==
    /\ pc[r] = "cleanup"
    /\ collectors' = collectors \ {r}
    /\ Goto(r, "done")
    /\ UNCHANGED <<home, target, rx, answer, overflown, drops, networkVars, nodeVars, run, faults>>

\* The client hangs up: what is registered stays.
Drop(r) ==
    /\ pc[r] \in Working
    /\ drops < MaxDrops
    /\ drops' = drops + 1
    /\ Goto(r, "dropped")
    /\ UNCHANGED <<home, target, collectors, rx, answer, overflown, networkVars, nodeVars, run, faults>>

-----------------------------------------------------------------------------
(* The execution, execute_p2p_inference.                                   *)

\* Mutated form: a refused chunk is published again.
PublishChunk_Retry(r) ==
    LET e == run[r]
        last == e.sent + 1 = Len(e.tokens)
        chunk == Chunk(r, e.tokens[e.sent + 1], last) IN
    /\ e.at = "running" /\ Free(target[r])
    /\ New(target[r], chunk)
    /\ Publish(target[r], chunk)
    /\ run' = [run EXCEPT ![r] = [at |-> IF last THEN "ended" ELSE "running",
                              tokens |-> e.tokens, sent |-> e.sent + 1]]
    /\ UNCHANGED <<handlerVars, nodeVars, faults>>

\* A chunk is published; a refused publication is logged, and the next sent.
PublishChunk(r) ==
    LET e == run[r]
        last == e.sent + 1 = Len(e.tokens) IN
    /\ e.at = "running" /\ Free(target[r])
    /\ Publish(target[r], Chunk(r, e.tokens[e.sent + 1], last))
    /\ run' = [run EXCEPT ![r] = [at |-> IF last THEN "ended" ELSE "running",
                              tokens |-> e.tokens, sent |-> e.sent + 1]]
    /\ UNCHANGED <<handlerVars, nodeVars, faults>>

\* The engine fails, at once or while it streams; or its stream just ends.
EngineFails(r) ==
    LET e == run[r] IN
    /\ e.at = "running" /\ Free(target[r])
    /\ Fault
    /\ Publish(target[r], ErrorChunk(r)) \/ UNCHANGED networkVars
    /\ run' = [run EXCEPT ![r] = [at |-> "ended", tokens |-> e.tokens, sent |-> e.sent]]
    /\ UNCHANGED <<handlerVars, nodeVars>>

-----------------------------------------------------------------------------
SwarmTask(n) == Deliver(n) \/ Send(n)
EventLoop(n) == HandleRequest(n) \/ HandleChunk(n) \/ HandleOther(n)
Handler(r) == Subscribe(r) \/ Broadcast(r) \/ Receive(r) \/ Cleanup(r)

Next ==
    \/ \E n \in Nodes : SwarmTask(n) \/ EventLoop(n) \/ OwnPeerId(n) \/ OtherEvent(n) \/ Disturb(n)
    \/ \E r \in Requests :
          \/ Register(r) \/ Handler(r) \/ BroadcastFails(r) \/ Timeout(r) \/ Drop(r)
          \/ PublishChunk(r) \/ EngineFails(r)

Spec == Init /\ [][Next]_vars

\* Tasks are scheduled, timers fire and the engine answers.
FairSpec ==
    /\ Spec
    /\ \A n \in Nodes : WF_vars(SwarmTask(n)) /\ WF_vars(EventLoop(n)) /\ SF_vars(OwnPeerId(n))
    /\ \A r \in Requests : SF_vars(Handler(r)) /\ WF_vars(Timeout(r)) /\ SF_vars(PublishChunk(r))

-----------------------------------------------------------------------------
(* Properties.                                                             *)

Messages == [kind : {"request"}, req : Requests, topic : {"model", "any"}]
Chunks == [kind : {"chunk"}, req : Requests, topic : {"any"}, token : Tokens \union {""},
           last : BOOLEAN, error : BOOLEAN]

\* Every variable has its type, and no channel holds more than it has room for.
TypeOK ==
    /\ pc \in [Requests -> {"idle"} \union Working \union Ended]
    /\ home \in [Requests -> Nodes] /\ target \in [Requests -> Nodes]
    /\ collectors \subseteq Requests /\ overflown \subseteq Requests
    /\ rx \in [Requests -> Seq(Chunks)] /\ \A r \in Requests : Len(rx[r]) <= ChunkCap
    /\ answer \in [Requests -> Seq(Chunks)]
    /\ inFlight \in [Nodes -> Seq(Messages \union Chunks)]
    /\ seen \in [Nodes -> SUBSET (Messages \union Chunks)]
    /\ events \in [Nodes -> Seq(Messages \union Chunks \union {Other})] /\ \A n \in Nodes : Len(events[n]) <= EventCap
    /\ sending \in [Nodes -> Seq(Messages \union Chunks \union {Other})] /\ \A n \in Nodes : Len(sending[n]) <= 1
    /\ asking \in [Nodes -> Seq(Messages)] /\ \A n \in Nodes : Len(asking[n]) <= 1
    /\ run \in [Requests -> [at : {"none", "running", "ended"}, tokens : Seq(Tokens), sent : Nat]]
    /\ faults \in 0..MaxFaults
    /\ drops \in 0..MaxDrops
    /\ others \in 0..MaxOthers

Text(chunks) == [i \in 1..Len(chunks) |-> chunks[i].token]
\* A chunk equal to one before it does not come; the final one is like no other.
ComesThrough(tokens, i) == i = Len(tokens) \/ \A j \in 1..i - 1 : tokens[j] # tokens[i]

Collapsed(tokens) ==
    LET kept[i \in 0..Len(tokens)] ==
            IF i = 0 THEN <<>>
            ELSE IF ComesThrough(tokens, i) THEN Append(kept[i - 1], tokens[i]) ELSE kept[i - 1]
    IN  kept[Len(tokens)]

\* The final chunk was received.
Complete(r) == answer[r] # <<>> /\ answer[r][Len(answer[r])].last

\* A complete answer is what the engine generated, less the chunks it repeated,
\* unless the network was disturbed or a chunk did not fit.
CompleteIsGenerated ==
    \A r \in Requests :
        Complete(r) => \/ Text(answer[r]) = Collapsed(run[r].tokens)
                       \/ faults > 0 \/ r \in overflown

\* A request is published on two topics and may come twice, and nothing remembers
\* the requests a node has executed: yet none is executed a second time.
ExecutedOnce ==
    [][\A r \in Requests : run[r].at # "none" =>
           run'[r].tokens = run[r].tokens /\ run'[r].sent >= run[r].sent]_vars

\* A collector is there for as long as chunks are waited for, and outlives only
\* a handler that was dropped or could not send its request.
CollectorsCoverHandlers ==
    \A r \in Requests :
        /\ Listening(r) => r \in collectors
        /\ r \in collectors => Listening(r) \/ pc[r] \in {"failed", "dropped"}

\* The event loop waits for the swarm task, which waits for the event loop.
Stuck(n) == asking[n] # <<>> /\ ~Free(n) /\ Len(events[n]) = EventCap

\* A client gets an answer within the timeout, unless its node is stuck.
HandlersEnd == \A r \in Requests : pc[r] = "subscribe" ~> pc[r] \in Ended \/ Stuck(home[r])

Executing(r) == run[r].at = "running"

\* What a node is asked to execute, it executes to the end, unless it is stuck.
ExecutionsEnd == \A r \in Requests : Executing(r) ~> ~Executing(r) \/ Stuck(target[r])

\* "A configurable heartbeat fires every network.announce_heartbeat_secs": the
\* swarm task comes back to its select again and again.
HeartbeatGoesOn == \A n \in Nodes : []<>Free(n)
=============================================================================
