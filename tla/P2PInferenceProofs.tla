------------------------ MODULE P2PInferenceProofs ------------------------
(***************************************************************************)
(* The types, the collectors, the executions and the answers of            *)
(* P2PInference, for any requests, nodes, engine, capacities and faults.   *)
(***************************************************************************)
EXTENDS P2PInference, SequenceTheorems, SumTheorems, TLAPS

CollectorInv ==
    /\ pc \in [Requests -> {"idle"} \union Working \union Ended]
    /\ collectors \subseteq Requests
    /\ CollectorsCoverHandlers

LEMMA CollectorInit == Init => CollectorInv
  BY DEF Init, CollectorInv, CollectorsCoverHandlers, Listening, Working

\* What neither moves a handler nor touches the collectors.
LEMMA CollectorsKept ==
    ASSUME CollectorInv, UNCHANGED <<pc, collectors>>
    PROVE  CollectorInv'
  BY DEF CollectorInv, CollectorsCoverHandlers, Listening

\* A handler moves on, and its collector stays as it is.
LEMMA Moves ==
    ASSUME CollectorInv, NEW r \in Requests, NEW to \in Working \union Ended,
           Goto(r, to), UNCHANGED collectors,
           to \in Working => Listening(r),
           to = "done" => r \notin collectors
    PROVE  CollectorInv'
  BY DEF CollectorInv, CollectorsCoverHandlers, Listening, Goto, Working, Ended

LEMMA CollectorStep ==
    ASSUME CollectorInv, [Next]_vars
    PROVE  CollectorInv'
<1>. USE DEF Listening, Working, Ended
<1>1. ASSUME NEW n \in Nodes, SwarmTask(n) \/ EventLoop(n) \/ OwnPeerId(n) \/ OtherEvent(n) \/ Disturb(n)
      PROVE  CollectorInv'
  <2>1. UNCHANGED <<pc, collectors>>
    BY <1>1 DEF SwarmTask, EventLoop, Deliver, Send, HandleRequest, OwnPeerId, HandleChunk, HandleOther,
                OtherEvent, Disturb, handlerVars
  <2>. QED  BY <2>1, CollectorsKept
<1>2. ASSUME NEW r \in Requests, Register(r)
      PROVE  CollectorInv'
  BY <1>2 DEF Register, Goto, CollectorInv, CollectorsCoverHandlers
<1>3. ASSUME NEW r \in Requests, Cleanup(r)
      PROVE  CollectorInv'
  BY <1>3 DEF Cleanup, Goto, CollectorInv, CollectorsCoverHandlers
<1>4. ASSUME NEW r \in Requests, Subscribe(r) \/ Broadcast(r) \/ BroadcastFails(r)
      PROVE  CollectorInv'
  <2>1. CASE Subscribe(r)
    BY <2>1, Moves DEF Subscribe
  <2>2. CASE Broadcast(r)
    BY <2>2, Moves DEF Broadcast
  <2>3. CASE BroadcastFails(r)
    BY <2>3, Moves DEF BroadcastFails
  <2>. QED  BY <1>4, <2>1, <2>2, <2>3
<1>5. ASSUME NEW r \in Requests, Receive(r) \/ Timeout(r)
      PROVE  CollectorInv'
  <2>1. PICK to \in {"cleanup", "collect"} : Goto(r, to)
    BY <1>5 DEF Receive, Timeout
  <2>2. pc[r] = "collect" /\ UNCHANGED collectors
    BY <1>5 DEF Receive, Timeout
  <2>. QED  BY <2>1, <2>2, Moves
<1>6. ASSUME NEW r \in Requests, Drop(r)
      PROVE  CollectorInv'
  BY <1>6, Moves DEF Drop
<1>7. ASSUME NEW r \in Requests, PublishChunk(r) \/ EngineFails(r)
      PROVE  CollectorInv'
  <2>1. UNCHANGED <<pc, collectors>>
    BY <1>7 DEF PublishChunk, EngineFails, handlerVars
  <2>. QED  BY <2>1, CollectorsKept
<1>8. CASE UNCHANGED vars
  BY <1>8, CollectorsKept DEF vars, handlerVars
<1>. QED  BY <1>1, <1>2, <1>3, <1>4, <1>5, <1>6, <1>7, <1>8 DEF Next, Handler

\* "Register response channel BEFORE subscribing so we don't miss chunks": the
\* collector is there whenever chunks are waited for, and is left behind only by
\* a handler that was dropped or could not send its request.
THEOREM CollectorsAreThere == Spec => []CollectorsCoverHandlers
<1>1. CollectorInv /\ [Next]_vars => CollectorInv'
  BY CollectorStep
<1>2. CollectorInv => CollectorsCoverHandlers
  BY DEF CollectorInv
<1>. QED  BY <1>1, <1>2, CollectorInit, PTL DEF Spec

-----------------------------------------------------------------------------
(* Types.                                                                  *)

Items == Messages \union Chunks \union {Other}

HandlerTypes ==
    /\ pc \in [Requests -> {"idle"} \union Working \union Ended]
    /\ home \in [Requests -> Nodes] /\ target \in [Requests -> Nodes]
    /\ collectors \subseteq Requests
    /\ answer \in [Requests -> Seq(Chunks)]
    /\ drops \in 0..MaxDrops

ChunkTypes ==
    /\ overflown \subseteq Requests
    /\ rx \in [Requests -> Seq(Chunks)] /\ \A r \in Requests : Len(rx[r]) <= ChunkCap

NetworkTypes ==
    /\ inFlight \in [Nodes -> Seq(Messages \union Chunks)]
    /\ seen \in [Nodes -> SUBSET (Messages \union Chunks)]

NodeTypes ==
    /\ events \in [Nodes -> Seq(Items)] /\ \A n \in Nodes : Len(events[n]) <= EventCap
    /\ sending \in [Nodes -> Seq(Items)] /\ \A n \in Nodes : Len(sending[n]) <= 1
    /\ asking \in [Nodes -> Seq(Messages)] /\ \A n \in Nodes : Len(asking[n]) <= 1
    /\ others \in 0..MaxOthers

Executions == [at : {"none", "running", "ended"}, tokens : Seq(Tokens), sent : Nat]

\* An execution that goes on has a chunk left to send.
RunTypes ==
    /\ run \in [Requests -> Executions]
    /\ \A r \in Requests : run[r].at = "running" => run[r].sent < Len(run[r].tokens)

InferenceTypes == HandlerTypes /\ ChunkTypes /\ NetworkTypes /\ NodeTypes /\ RunTypes /\ faults \in 0..MaxFaults

LEMMA TypesInit == Init => InferenceTypes
<1>. SUFFICES ASSUME Init PROVE InferenceTypes
  OBVIOUS
<1>. USE InferenceAssumption DEF Init
<1>1. HandlerTypes /\ ChunkTypes
  BY DEF HandlerTypes, ChunkTypes
<1>2. NetworkTypes /\ NodeTypes
  BY DEF NetworkTypes, NodeTypes
<1>3. RunTypes
  BY DEF RunTypes, NotRun, Executions
<1>. QED  BY <1>1, <1>2, <1>3 DEF InferenceTypes

LEMMA FaultTypes == faults \in 0..MaxFaults /\ Fault => faults' \in 0..MaxFaults
  BY InferenceAssumption DEF Fault

LEMMA HandlerTypesKept ==
    ASSUME HandlerTypes, UNCHANGED <<pc, home, target, collectors, answer, drops>>
    PROVE  HandlerTypes'
  BY DEF HandlerTypes

LEMMA ChunkTypesKept ==
    ASSUME ChunkTypes, UNCHANGED <<rx, overflown>>
    PROVE  ChunkTypes'
  BY DEF ChunkTypes

LEMMA NetworkTypesKept ==
    ASSUME NetworkTypes, UNCHANGED networkVars
    PROVE  NetworkTypes'
  BY DEF NetworkTypes, networkVars

LEMMA NodeTypesKept ==
    ASSUME NodeTypes, UNCHANGED nodeVars
    PROVE  NodeTypes'
  BY DEF NodeTypes, nodeVars

LEMMA RunTypesKept ==
    ASSUME RunTypes, UNCHANGED run
    PROVE  RunTypes'
  BY DEF RunTypes

\* What is sent is of the right kind.
LEMMA MessageTypes ==
    ASSUME NEW r \in Requests
    PROVE  /\ Request(r, "model") \in Messages /\ Request(r, "any") \in Messages
           /\ ErrorChunk(r) \in Chunks
           /\ \A token \in Tokens, last \in BOOLEAN : Chunk(r, token, last) \in Chunks
  BY DEF Request, Chunk, ErrorChunk, Messages, Chunks

LEMMA CopyTypes ==
    ASSUME NEW S, NEW n, NEW p, NEW m \in S
    PROVE  Copy(n, p, m) \in Seq(S)
  BY DEF Copy

LEMMA PublishTypes ==
    ASSUME NetworkTypes, NEW n \in Nodes, NEW m \in Messages \union Chunks, Publish(n, m)
    PROVE  NetworkTypes'
<1>1. \A p \in Nodes : inFlight[p] \o Copy(n, p, m) \in Seq(Messages \union Chunks)
  BY CopyTypes, ConcatProperties DEF NetworkTypes
<1>2. inFlight' \in [Nodes -> Seq(Messages \union Chunks)]
  BY <1>1 DEF Publish
<1>3. seen' \in [Nodes -> SUBSET (Messages \union Chunks)]
  BY DEF Publish, See, NetworkTypes
<1>. QED  BY <1>2, <1>3 DEF NetworkTypes

LEMMA PublishBothTypes ==
    ASSUME NetworkTypes, NEW n \in Nodes, NEW m1 \in Messages \union Chunks, NEW m2 \in Messages \union Chunks,
           PublishBoth(n, m1, m2)
    PROVE  NetworkTypes'
<1>1. \A p \in Nodes : inFlight[p] \o Copy(n, p, m1) \o Copy(n, p, m2) \in Seq(Messages \union Chunks)
  BY CopyTypes, ConcatProperties DEF NetworkTypes
<1>2. inFlight' \in [Nodes -> Seq(Messages \union Chunks)]
  BY <1>1 DEF PublishBoth
<1>3. seen' \in [Nodes -> SUBSET (Messages \union Chunks)]
  BY DEF PublishBoth, See, NetworkTypes
<1>. QED  BY <1>2, <1>3 DEF NetworkTypes

LEMMA WithoutTypes ==
    ASSUME NEW S, NEW s \in Seq(S), NEW i \in 1..Len(s)
    PROVE  Without(s, i) \in Seq(S)
<1>1. SubSeq(s, 1, i - 1) \in Seq(S)
  <2>1. \A k \in 1..i - 1 : s[k] \in S
    BY ElementOfSeq
  <2>. QED  BY <2>1, SubSeqProperties
<1>2. SubSeq(s, i + 1, Len(s)) \in Seq(S)
  <2>1. \A k \in i + 1..Len(s) : s[k] \in S
    BY ElementOfSeq
  <2>. QED  BY <2>1, SubSeqProperties
<1>. QED  BY <1>1, <1>2, ConcatProperties DEF Without

LEMMA TailTypes ==
    ASSUME NEW S, NEW s \in Seq(S), s # <<>>
    PROVE  /\ Head(s) \in S /\ Tail(s) \in Seq(S) /\ Len(Tail(s)) = Len(s) - 1
           /\ Len(s) >= 1 /\ Head(s) = s[1]
  OBVIOUS

LEMMA Singletons ==
    ASSUME NEW S, NEW x \in S
    PROVE  <<x>> \in Seq(S) /\ Len(<<x>>) = 1 /\ <<>> \in Seq(S) /\ Len(<<>>) = 0
  OBVIOUS

LEMMA RoomForOne ==
    ASSUME NEW S, NEW s \in Seq(S), NEW t \in Seq(S), NEW cap \in Nat, Len(s) < cap, Len(t) <= 1
    PROVE  s \o t \in Seq(S) /\ Len(s \o t) <= cap
<1>1. s \o t \in Seq(S) /\ Len(s \o t) = Len(s) + Len(t)
  BY ConcatProperties
<1>2. \A a, b, c \in Int : a < cap /\ b <= 1 /\ c = a + b => c <= cap
  OBVIOUS
<1>3. Len(s) \in Int /\ Len(t) \in Int /\ Len(s \o t) \in Int
  BY <1>1, LenProperties
<1>. QED  BY <1>1, <1>2, <1>3

\* A channel of at most one takes what there is, or nothing.
LEMMA TakesOne ==
    ASSUME NEW S, NEW x \in S, NEW f \in [Nodes -> Seq(S)], \A p \in Nodes : Len(f[p]) <= 1,
           NEW n \in Nodes, NEW g, g = [f EXCEPT ![n] = <<x>>] \/ g = [f EXCEPT ![n] = <<>>]
    PROVE  g \in [Nodes -> Seq(S)] /\ \A p \in Nodes : Len(g[p]) <= 1
<1>1. ASSUME NEW y \in Seq(S), Len(y) <= 1, g = [f EXCEPT ![n] = y]
      PROVE  g \in [Nodes -> Seq(S)] /\ \A p \in Nodes : Len(g[p]) <= 1
  BY <1>1
<1>2. <<x>> \in Seq(S) /\ Len(<<x>>) <= 1
  OBVIOUS
<1>3. <<>> \in Seq(S) /\ Len(<<>>) <= 1
  OBVIOUS
<1>. DEFINE one == <<x>>  none == <<>>
<1>4. CASE g = [f EXCEPT ![n] = one]
  <2>. HIDE DEF one
  <2>1. one \in Seq(S) /\ Len(one) <= 1
    BY <1>2 DEF one
  <2>. QED  BY <1>1, <1>4, <2>1
<1>5. CASE g = [f EXCEPT ![n] = none]
  <2>. HIDE DEF none
  <2>1. none \in Seq(S) /\ Len(none) <= 1
    BY <1>3 DEF none
  <2>. QED  BY <1>1, <1>5, <2>1
<1>. QED  BY <1>4, <1>5

\* One lemma for the steps of the network and the swarm task,
LEMMA NetworkSteps ==
    ASSUME InferenceTypes, NEW n \in Nodes, SwarmTask(n) \/ OtherEvent(n) \/ Disturb(n)
    PROVE  InferenceTypes'
<1>. USE DEF InferenceTypes
<1>1. CASE Deliver(n)
  <2>. DEFINE m == Head(inFlight[n])
  <2>1. inFlight[n] \in Seq(Messages \union Chunks) /\ inFlight[n] # <<>>
    BY <1>1 DEF NetworkTypes, Deliver
  <2>2. m \in Messages \union Chunks /\ Tail(inFlight[n]) \in Seq(Messages \union Chunks)
    BY <2>1, TailTypes
  <2>3. NetworkTypes'
    BY <1>1, <2>2 DEF Deliver, See, NetworkTypes
  <2>4. m \in Items
    BY <2>2 DEF Items
  <2>. HIDE DEF m
  <2>5. sending' \in [Nodes -> Seq(Items)] /\ \A p \in Nodes : Len(sending'[p]) <= 1
    <3>1. sending' = [sending EXCEPT ![n] = <<m>>] \/ sending' = [sending EXCEPT ![n] = <<>>]
      BY <1>1 DEF Deliver, m
    <3>2. sending \in [Nodes -> Seq(Items)] /\ \A p \in Nodes : Len(sending[p]) <= 1
      BY DEF NodeTypes
    <3>. QED  BY <2>4, <3>1, <3>2, TakesOne
  <2>6. NodeTypes'
    BY <1>1, <2>5 DEF NodeTypes, Deliver
  <2>7. HandlerTypes' /\ ChunkTypes' /\ RunTypes' /\ UNCHANGED faults
    BY <1>1, HandlerTypesKept, ChunkTypesKept, RunTypesKept DEF Deliver, handlerVars
  <2>. QED  BY <2>3, <2>6, <2>7
<1>2. CASE Send(n)
  <2>1. events[n] \o sending[n] \in Seq(Items) /\ Len(events[n] \o sending[n]) <= EventCap
    <3>1. events[n] \in Seq(Items) /\ sending[n] \in Seq(Items) /\ Len(sending[n]) <= 1 /\ Len(events[n]) < EventCap
      BY <1>2 DEF NodeTypes, Send
    <3>2. EventCap \in Nat
      BY InferenceAssumption
    <3>. QED  BY <3>1, <3>2, RoomForOne
  <2>2. NodeTypes'
    BY <1>2, <2>1 DEF Send, NodeTypes
  <2>3. HandlerTypes' /\ ChunkTypes' /\ NetworkTypes' /\ RunTypes' /\ UNCHANGED faults
    BY <1>2, HandlerTypesKept, ChunkTypesKept, NetworkTypesKept, RunTypesKept DEF Send, handlerVars
  <2>. QED  BY <2>2, <2>3
<1>3. CASE OtherEvent(n)
  <2>1. <<Other>> \in Seq(Items) /\ Len(<<Other>>) = 1
    BY DEF Items
  <2>2. others' \in 0..MaxOthers
    BY <1>3, InferenceAssumption DEF OtherEvent, NodeTypes
  <2>3. NodeTypes'
    BY <1>3, <2>1, <2>2 DEF OtherEvent, NodeTypes
  <2>4. HandlerTypes' /\ ChunkTypes' /\ NetworkTypes' /\ RunTypes' /\ UNCHANGED faults
    BY <1>3, HandlerTypesKept, ChunkTypesKept, NetworkTypesKept, RunTypesKept DEF OtherEvent, handlerVars
  <2>. QED  BY <2>3, <2>4
<1>4. CASE Disturb(n)
  <2>. DEFINE S == Messages \union Chunks
  <2>1. PICK i \in 1..Len(inFlight[n]) : \E copies \in 0..2 : inFlight' = [inFlight EXCEPT ![n] =
              IF copies = 0 THEN Without(@, i)
              ELSE IF copies = 1 THEN Append(Without(@, i), @[i]) ELSE Append(@, @[i])]
    BY <1>4 DEF Disturb
  <2>2. inFlight[n] \in Seq(S)
    BY DEF NetworkTypes
  <2>3. inFlight[n][i] \in S /\ Without(inFlight[n], i) \in Seq(S)
    BY <2>2, ElementOfSeq, WithoutTypes
  <2>. HIDE DEF S
  <2>4. Append(Without(inFlight[n], i), inFlight[n][i]) \in Seq(S) /\ Append(inFlight[n], inFlight[n][i]) \in Seq(S)
    BY <2>2, <2>3, AppendProperties
  <2>5. PICK s \in Seq(S) : inFlight' = [inFlight EXCEPT ![n] = s]
    BY <2>1, <2>3, <2>4
  <2>6. inFlight' \in [Nodes -> Seq(S)]
    BY <2>5 DEF NetworkTypes, S
  <2>7. NetworkTypes'
    BY <1>4, <2>6 DEF NetworkTypes, S, Disturb
  <2>8. HandlerTypes' /\ ChunkTypes' /\ NodeTypes' /\ RunTypes' /\ faults' \in 0..MaxFaults
    BY <1>4, HandlerTypesKept, ChunkTypesKept, NodeTypesKept, RunTypesKept, FaultTypes DEF Disturb, handlerVars
  <2>. QED  BY <2>7, <2>8
<1>. QED  BY <1>1, <1>2, <1>3, <1>4 DEF SwarmTask

\* of the event loop,
LEMMA PopTypes ==
    ASSUME NodeTypes, NEW n \in Nodes, Pop(n)
    PROVE  /\ events' \in [Nodes -> Seq(Items)] /\ \A p \in Nodes : Len(events'[p]) <= EventCap
           /\ Head(events[n]) \in Items
<1>1. /\ events[n] \in Seq(Items) /\ events[n] # <<>> /\ Len(events[n]) <= EventCap
      /\ events' = [events EXCEPT ![n] = Tail(@)]
  BY DEF NodeTypes, Pop
<1>2. /\ Head(events[n]) \in Items /\ Tail(events[n]) \in Seq(Items)
      /\ Len(Tail(events[n])) = Len(events[n]) - 1
  BY <1>1, TailTypes
<1>3. Len(events[n]) \in Nat /\ EventCap \in Nat
  BY <1>1, LenProperties, InferenceAssumption
<1>. DEFINE rest == Tail(events[n])
<1>4. rest \in Seq(Items) /\ Len(rest) <= EventCap
  BY <1>1, <1>2, <1>3
<1>5. events' = [events EXCEPT ![n] = rest]
  BY <1>1
<1>. HIDE DEF rest
<1>. QED  BY <1>2, <1>4, <1>5 DEF NodeTypes

LEMMA Kinds ==
    ASSUME NEW m \in Items
    PROVE  /\ m.kind = "request" => m \in Messages
           /\ m.kind = "chunk" => m \in Chunks
<1>1. m \in Messages => m.kind = "request"
  BY DEF Messages
<1>2. m \in Chunks => m.kind = "chunk"
  BY DEF Chunks
<1>3. m = Other => m.kind = "other"
  BY DEF Other
<1>. QED  BY <1>1, <1>2, <1>3 DEF Items

LEMMA EventLoopSteps ==
    ASSUME InferenceTypes, NEW n \in Nodes, EventLoop(n) \/ OwnPeerId(n)
    PROVE  InferenceTypes'
<1>. USE DEF InferenceTypes
<1>1. CASE HandleRequest(n)
  <2>1. /\ events' \in [Nodes -> Seq(Items)] /\ \A p \in Nodes : Len(events'[p]) <= EventCap
        /\ Head(events[n]) \in Messages
    BY <1>1, PopTypes, Kinds DEF HandleRequest
  <2>2. /\ asking \in [Nodes -> Seq(Messages)] /\ \A p \in Nodes : Len(asking[p]) <= 1
        /\ asking' = [asking EXCEPT ![n] = <<Head(events[n])>>]
    BY <1>1 DEF HandleRequest, NodeTypes
  <2>3. asking' \in [Nodes -> Seq(Messages)] /\ \A p \in Nodes : Len(asking'[p]) <= 1
    BY <2>1, <2>2, TakesOne
  <2>4. NodeTypes'
    BY <1>1, <2>1, <2>3 DEF HandleRequest, NodeTypes
  <2>5. HandlerTypes' /\ ChunkTypes' /\ NetworkTypes' /\ RunTypes' /\ UNCHANGED faults
    BY <1>1, HandlerTypesKept, ChunkTypesKept, NetworkTypesKept, RunTypesKept DEF HandleRequest, handlerVars
  <2>. QED  BY <2>4, <2>5
<1>2. CASE HandleChunk(n)
  <2>. DEFINE chunk == Head(events[n])  r == chunk.req
  <2>1. /\ events' \in [Nodes -> Seq(Items)] /\ \A p \in Nodes : Len(events'[p]) <= EventCap
        /\ chunk \in Chunks
    BY <1>2, PopTypes, Kinds DEF HandleChunk
  <2>2. r \in Requests
    BY <2>1 DEF Chunks
  <2>3. NodeTypes'
    BY <1>2, <2>1 DEF HandleChunk, NodeTypes
  <2>4. TrySend(r, chunk) \/ UNCHANGED <<rx, overflown>>
    BY <1>2 DEF HandleChunk
  <2>. HIDE DEF chunk, r
  <2>5. ChunkTypes'
    <3>1. CASE UNCHANGED <<rx, overflown>>
      BY <3>1, ChunkTypesKept
    <3>2. CASE TrySend(r, chunk) /\ Len(rx[r]) < ChunkCap
      <4>1. rx' = [rx EXCEPT ![r] = Append(rx[r], chunk)] /\ UNCHANGED overflown
        BY <3>2 DEF TrySend
      <4>2. rx[r] \in Seq(Chunks) /\ Len(rx[r]) \in Nat
        BY <2>2 DEF ChunkTypes
      <4>3. Append(rx[r], chunk) \in Seq(Chunks) /\ Len(Append(rx[r], chunk)) = Len(rx[r]) + 1
        BY <2>1, <4>2, AppendProperties
      <4>. DEFINE more == Append(rx[r], chunk)
      <4>4. more \in Seq(Chunks) /\ Len(more) <= ChunkCap
        BY <3>2, <4>2, <4>3, InferenceAssumption
      <4>5. rx' = [rx EXCEPT ![r] = more]
        BY <4>1
      <4>. HIDE DEF more
      <4>. QED  BY <2>2, <4>1, <4>4, <4>5 DEF ChunkTypes
    <3>3. CASE TrySend(r, chunk) /\ ~(Len(rx[r]) < ChunkCap)
      BY <2>2, <3>3 DEF TrySend, ChunkTypes
    <3>. QED  BY <2>4, <3>1, <3>2, <3>3
  <2>6. HandlerTypes' /\ NetworkTypes' /\ RunTypes' /\ UNCHANGED faults
    BY <1>2, HandlerTypesKept, NetworkTypesKept, RunTypesKept DEF HandleChunk
  <2>. QED  BY <2>3, <2>5, <2>6
<1>3. CASE HandleOther(n)
  <2>1. NodeTypes'
    BY <1>3, PopTypes DEF HandleOther, NodeTypes
  <2>2. HandlerTypes' /\ ChunkTypes' /\ NetworkTypes' /\ RunTypes' /\ UNCHANGED faults
    BY <1>3, HandlerTypesKept, ChunkTypesKept, NetworkTypesKept, RunTypesKept DEF HandleOther, handlerVars
  <2>. QED  BY <2>1, <2>2
<1>4. CASE OwnPeerId(n)
  <2>1. NodeTypes'
    BY <1>4 DEF OwnPeerId, NodeTypes
  <2>2. Head(asking[n]).req \in Requests
    <3>1. asking[n] \in Seq(Messages) /\ asking[n] # <<>>
      BY <1>4 DEF OwnPeerId, NodeTypes
    <3>2. Head(asking[n]) \in Messages
      BY <3>1, TailTypes
    <3>. QED  BY <3>2 DEF Messages
  <2>3. RunTypes'
    <3>1. CASE UNCHANGED run
      BY <3>1, RunTypesKept
    <3>2. ASSUME NEW r \in Requests, NEW tokens \in Answers,
                 run' = [run EXCEPT ![r] = [at |-> "running", tokens |-> tokens, sent |-> 0]]
          PROVE  RunTypes'
      <4>1. tokens \in Seq(Tokens) /\ Len(tokens) > 0
        BY InferenceAssumption, EmptySeq, LenProperties
      <4>. QED  BY <3>2, <4>1 DEF RunTypes, Executions
    <3>. QED  BY <1>4, <2>2, <3>1, <3>2 DEF OwnPeerId
  <2>4. HandlerTypes' /\ ChunkTypes' /\ NetworkTypes' /\ UNCHANGED faults
    BY <1>4, HandlerTypesKept, ChunkTypesKept, NetworkTypesKept DEF OwnPeerId, handlerVars
  <2>. QED  BY <2>1, <2>3, <2>4
<1>. QED  BY <1>1, <1>2, <1>3, <1>4 DEF EventLoop

\* of a handler,
LEMMA HandlerSteps ==
    ASSUME InferenceTypes, NEW r \in Requests,
           Register(r) \/ Handler(r) \/ BroadcastFails(r) \/ Timeout(r) \/ Drop(r)
    PROVE  InferenceTypes'
<1>. USE DEF InferenceTypes, Working, Ended
<1>1. ASSUME Register(r) \/ Subscribe(r) \/ Timeout(r) \/ Cleanup(r) \/ Drop(r)
      PROVE  InferenceTypes'
  <2>1. HandlerTypes'
    <3>1. pc' \in [Requests -> {"idle"} \union Working \union Ended]
      BY <1>1 DEF Register, Subscribe, Timeout, Cleanup, Drop, Goto, HandlerTypes
    <3>2. collectors' \subseteq Requests
      BY <1>1 DEF Register, Subscribe, Timeout, Cleanup, Drop, HandlerTypes
    <3>3. drops' \in 0..MaxDrops
      BY <1>1, InferenceAssumption DEF Register, Subscribe, Timeout, Cleanup, Drop, HandlerTypes
    <3>4. UNCHANGED <<home, target, answer>>
      BY <1>1 DEF Register, Subscribe, Timeout, Cleanup, Drop
    <3>. QED  BY <3>1, <3>2, <3>3, <3>4 DEF HandlerTypes
  <2>2. UNCHANGED <<rx, overflown, networkVars, nodeVars, run, faults>>
    BY <1>1 DEF Register, Subscribe, Timeout, Cleanup, Drop
  <2>. QED  BY <2>1, <2>2, ChunkTypesKept, NetworkTypesKept, NodeTypesKept, RunTypesKept
<1>2. ASSUME Broadcast(r) \/ BroadcastFails(r)
      PROVE  InferenceTypes'
  <2>1. HandlerTypes'
    BY <1>2 DEF Broadcast, BroadcastFails, Goto, HandlerTypes
  <2>2. home[r] \in Nodes
    BY DEF HandlerTypes
  <2>3. Request(r, "model") \in Messages \union Chunks /\ Request(r, "any") \in Messages \union Chunks
    BY MessageTypes
  <2>4. NetworkTypes'
    <3>1. CASE Broadcast(r)
      BY <2>2, <2>3, <3>1, PublishBothTypes DEF Broadcast
    <3>2. CASE BroadcastFails(r)
      BY <2>2, <2>3, <3>2, PublishTypes, NetworkTypesKept DEF BroadcastFails
    <3>. QED  BY <1>2, <3>1, <3>2
  <2>5. ChunkTypes' /\ NodeTypes' /\ RunTypes'
    BY <1>2, ChunkTypesKept, NodeTypesKept, RunTypesKept DEF Broadcast, BroadcastFails
  <2>6. faults' \in 0..MaxFaults
    BY <1>2, FaultTypes DEF Broadcast, BroadcastFails
  <2>. QED  BY <2>1, <2>4, <2>5, <2>6
<1>3. ASSUME Receive(r)
      PROVE  InferenceTypes'
  <2>1. rx[r] \in Seq(Chunks) /\ rx[r] # <<>> /\ Len(rx[r]) <= ChunkCap
    BY <1>3 DEF ChunkTypes, Receive
  <2>2. /\ Head(rx[r]) \in Chunks /\ Tail(rx[r]) \in Seq(Chunks)
        /\ Len(Tail(rx[r])) = Len(rx[r]) - 1
    BY <2>1, TailTypes
  <2>3. Append(answer[r], Head(rx[r])) \in Seq(Chunks) /\ answer[r] \in Seq(Chunks)
    BY <2>2, AppendProperties DEF HandlerTypes
  <2>. DEFINE rest == Tail(rx[r])
  <2>4. rest \in Seq(Chunks) /\ Len(rest) <= ChunkCap
    <3>1. Len(rx[r]) \in Nat /\ ChunkCap \in Nat
      BY <2>1, LenProperties, InferenceAssumption
    <3>. QED  BY <2>1, <2>2, <3>1
  <2>5. rx' = [rx EXCEPT ![r] = rest] /\ UNCHANGED overflown
    BY <1>3 DEF Receive
  <2>6. ChunkTypes'
    <3>. HIDE DEF rest
    <3>. QED  BY <2>4, <2>5 DEF ChunkTypes
  <2>7. PICK text \in Seq(Chunks) : answer' = [answer EXCEPT ![r] = text]
    BY <1>3, <2>3 DEF Receive
  <2>8. HandlerTypes'
    BY <1>3, <2>7 DEF Receive, HandlerTypes, Goto
  <2>9. NetworkTypes' /\ NodeTypes' /\ RunTypes' /\ UNCHANGED faults
    BY <1>3, NetworkTypesKept, NodeTypesKept, RunTypesKept DEF Receive
  <2>. QED  BY <2>6, <2>8, <2>9
<1>. QED  BY <1>1, <1>2, <1>3 DEF Handler

\* and of an execution.
LEMMA ExecutionSteps ==
    ASSUME InferenceTypes, NEW r \in Requests, PublishChunk(r) \/ EngineFails(r)
    PROVE  InferenceTypes'
<1>. USE DEF InferenceTypes
<1>. DEFINE e == run[r]
<1>1. e \in Executions /\ (e.at = "running" => e.sent < Len(e.tokens)) /\ target[r] \in Nodes
  BY DEF RunTypes, HandlerTypes
<1>2. e.at = "running"
  BY DEF PublishChunk, EngineFails
<1>3. HandlerTypes' /\ ChunkTypes' /\ NodeTypes'
  BY HandlerTypesKept, ChunkTypesKept, NodeTypesKept DEF PublishChunk, EngineFails, handlerVars
<1>4. CASE PublishChunk(r)
  <2>. DEFINE last == e.sent + 1 = Len(e.tokens)  m == Chunk(r, e.tokens[e.sent + 1], last)
  <2>1. e.tokens \in Seq(Tokens) /\ e.sent \in Nat /\ e.sent + 1 \in 1..Len(e.tokens)
    BY <1>1, <1>2, LenProperties DEF Executions
  <2>2. e.tokens[e.sent + 1] \in Tokens /\ last \in BOOLEAN
    BY <2>1, ElementOfSeq
  <2>3. m \in Messages \union Chunks
    BY <2>2, MessageTypes
  <2>4. Publish(target[r], m)
    BY <1>4 DEF PublishChunk
  <2>5. NetworkTypes'
    <3>. HIDE DEF m
    <3>. QED  BY <1>1, <2>3, <2>4, PublishTypes
  <2>6. PICK at : /\ at \in {"ended", "running"} /\ (at = "running" => ~last)
                  /\ run' = [run EXCEPT ![r] = [at |-> at, tokens |-> e.tokens, sent |-> e.sent + 1]]
    BY <1>4 DEF PublishChunk
  <2>7. RunTypes'
    BY <2>1, <2>6 DEF RunTypes, Executions
  <2>. QED  BY <1>3, <1>4, <2>5, <2>7 DEF PublishChunk
<1>5. CASE EngineFails(r)
  <2>1. ErrorChunk(r) \in Messages \union Chunks
    BY MessageTypes
  <2>2. NetworkTypes'
    BY <1>1, <1>5, <2>1, PublishTypes, NetworkTypesKept DEF EngineFails
  <2>3. RunTypes'
    BY <1>1, <1>5 DEF EngineFails, RunTypes, Executions
  <2>4. faults' \in 0..MaxFaults
    BY <1>5, FaultTypes DEF EngineFails
  <2>. QED  BY <1>3, <2>2, <2>3, <2>4
<1>. QED  BY <1>4, <1>5

LEMMA TypesStep ==
    ASSUME InferenceTypes, [Next]_vars
    PROVE  InferenceTypes'
<1>1. CASE UNCHANGED vars
  <2>1. UNCHANGED <<handlerVars, networkVars, nodeVars, run, faults>>
    BY <1>1 DEF vars
  <2>. QED  BY <2>1, HandlerTypesKept, ChunkTypesKept, NetworkTypesKept, NodeTypesKept, RunTypesKept
            DEF InferenceTypes, handlerVars
<1>. QED  BY <1>1, NetworkSteps, EventLoopSteps, HandlerSteps, ExecutionSteps DEF Next

\* The types of P2PInference: every channel stays within its capacity, what is
\* routed was sent by somebody, and an execution that goes on has a chunk to send.
THEOREM P2PTypes == Spec => []TypeOK
<1>1. InferenceTypes /\ [Next]_vars => InferenceTypes'
  BY TypesStep
<1>2. InferenceTypes => TypeOK
  BY DEF InferenceTypes, HandlerTypes, ChunkTypes, NetworkTypes, NodeTypes, RunTypes, Executions, Items, TypeOK
<1>. QED  BY <1>1, <1>2, TypesInit, PTL DEF Spec

-----------------------------------------------------------------------------
(* Executions.                                                             *)

\* What a node has let in and has not yet dealt with, the oldest first.
Pipeline(n) == asking[n] \o events[n] \o sending[n]

\* The requests among items are different from one another, came on the topic
\* that is listened to, and are remembered by the gossip.
OnceIn(items, known) ==
    /\ \A i \in 1..Len(items) :
          items[i].kind = "request" => items[i] \in known /\ items[i].topic = "any"
    /\ \A i, j \in 1..Len(items) :
          items[i].kind = "request" /\ items[i] = items[j] => i = j

IsIn(m, items) == \E i \in 1..Len(items) : items[i] = m

\* A request that is executed has passed the pipeline of its target, whose gossip
\* lets it in no more.
RanInv ==
    \A r \in Requests : run[r].at # "none" =>
        /\ Request(r, "any") \in seen[target[r]]
        /\ ~IsIn(Request(r, "any"), Pipeline(target[r]))

OnceInv ==
    /\ \A n \in Nodes : OnceIn(Pipeline(n), seen[n])
    /\ RanInv

LEMMA TailOnce ==
    ASSUME NEW S, NEW s \in Seq(S), s # <<>>, NEW known, OnceIn(s, known)
    PROVE  /\ OnceIn(Tail(s), known)
           /\ \A x : IsIn(x, Tail(s)) => IsIn(x, s)
           /\ Head(s).kind = "request" =>
                 /\ Head(s) \in known /\ Head(s).topic = "any"
                 /\ ~IsIn(Head(s), Tail(s)) /\ IsIn(Head(s), s)
<1>. DEFINE t == Tail(s)
<1>1. /\ t \in Seq(S) /\ Len(s) \in Nat \ {0} /\ Len(t) = Len(s) - 1
      /\ \A i \in 1..Len(t) : t[i] = s[i + 1]
  BY HeadTailProperties, EmptySeq
<1>2. Head(s) = s[1]
  BY TailTypes
<1>. HIDE DEF t
<1>3. \A i \in 1..Len(t) : i + 1 \in 1..Len(s) /\ i \in Nat
  BY <1>1
<1>4. OnceIn(t, known)
  BY <1>1, <1>3 DEF OnceIn
<1>5. ASSUME NEW x, IsIn(x, t)
      PROVE  IsIn(x, s)
  BY <1>1, <1>3, <1>5 DEF IsIn
<1>6. ASSUME Head(s).kind = "request"
      PROVE  /\ Head(s) \in known /\ Head(s).topic = "any"
             /\ ~IsIn(Head(s), t) /\ IsIn(Head(s), s)
  <2>1. 1 \in 1..Len(s)
    BY <1>1
  <2>2. ASSUME NEW i \in 1..Len(t), t[i] = s[1]
        PROVE  FALSE
    <3>1. s[1] = s[i + 1] /\ i + 1 \in 1..Len(s)
      BY <1>1, <1>3, <2>2
    <3>2. 1 = i + 1
      BY <1>2, <1>6, <2>1, <3>1 DEF OnceIn
    <3>. QED  BY <3>2, <1>3
  <2>. QED  BY <1>2, <1>6, <2>1, <2>2 DEF OnceIn, IsIn
<1>. QED  BY <1>4, <1>5, <1>6 DEF t

LEMMA AppendOnce ==
    ASSUME NEW S, NEW s \in Seq(S), NEW m \in S, NEW known, NEW known2, OnceIn(s, known), known \subseteq known2,
           m.kind = "request" => m \in known2 /\ m \notin known /\ m.topic = "any"
    PROVE  /\ OnceIn(s \o <<m>>, known2)
           /\ \A x : IsIn(x, s \o <<m>>) => IsIn(x, s) \/ x = m
<1>. DEFINE t == s \o <<m>>
<1>1. t = Append(s, m)
  BY AppendIsConcat
<1>2. /\ Len(s) \in Nat /\ Len(t) = Len(s) + 1 /\ t[Len(s) + 1] = m
      /\ \A i \in 1..Len(s) : t[i] = s[i]
  BY <1>1, AppendProperties, LenProperties
<1>. HIDE DEF t
<1>3. \A i \in 1..Len(t) : i \in 1..Len(s) \/ i = Len(s) + 1
  BY <1>2
<1>4. ASSUME NEW i \in 1..Len(t), t[i].kind = "request"
      PROVE  t[i] \in known2 /\ t[i].topic = "any"
  BY <1>2, <1>3, <1>4 DEF OnceIn
<1>5. ASSUME NEW i \in 1..Len(t), NEW j \in 1..Len(t), t[i].kind = "request", t[i] = t[j]
      PROVE  i = j
  <2>1. CASE i \in 1..Len(s) /\ j \in 1..Len(s)
    BY <1>2, <1>5, <2>1 DEF OnceIn
  <2>2. CASE i \in 1..Len(s) /\ j = Len(s) + 1
    BY <1>2, <1>5, <2>2 DEF OnceIn
  <2>3. CASE i = Len(s) + 1 /\ j \in 1..Len(s)
    BY <1>2, <1>5, <2>3 DEF OnceIn
  <2>. QED  BY <1>3, <2>1, <2>2, <2>3
<1>6. ASSUME NEW x, IsIn(x, t)
      PROVE  IsIn(x, s) \/ x = m
  BY <1>2, <1>3, <1>6 DEF IsIn
<1>. QED  BY <1>4, <1>5, <1>6 DEF OnceIn, t

LEMMA ConcatTail ==
    ASSUME NEW S, NEW s \in Seq(S), NEW t \in Seq(S), s # <<>>
    PROVE  Tail(s \o t) = Tail(s) \o t /\ Head(s \o t) = Head(s) /\ s \o t # <<>> /\ s \o t \in Seq(S)
<1>. DEFINE u == s \o t  v == Tail(s)
<1>1. /\ u \in Seq(S) /\ Len(u) = Len(s) + Len(t)
      /\ \A i \in 1..Len(s) + Len(t) : u[i] = IF i <= Len(s) THEN s[i] ELSE t[i - Len(s)]
  BY ConcatProperties
<1>2. /\ v \in Seq(S) /\ Len(v) = Len(s) - 1
      /\ \A i \in 1..Len(v) : v[i] = s[i + 1]
  BY HeadTailProperties
<1>3. /\ v \o t \in Seq(S) /\ Len(v \o t) = Len(v) + Len(t)
      /\ \A i \in 1..Len(v) + Len(t) : (v \o t)[i] = IF i <= Len(v) THEN v[i] ELSE t[i - Len(v)]
  BY <1>2, ConcatProperties
<1>4. Len(s) \in Nat \ {0} /\ Len(t) \in Nat
  BY EmptySeq, LenProperties
<1>5. u # <<>>
  BY ConcatEqualIffEmpty
<1>6. /\ Tail(u) \in Seq(S) /\ Len(Tail(u)) = Len(u) - 1 /\ Head(u) = u[1]
      /\ \A i \in 1..Len(Tail(u)) : Tail(u)[i] = u[i + 1]
  BY <1>1, <1>5, HeadTailProperties, TailTypes
<1>. DEFINE w == v \o t  tu == Tail(u)
<1>. HIDE DEF u, v, w, tu
<1>7. \A i \in 1..Len(tu) : tu[i] = w[i]
  <2>. SUFFICES ASSUME NEW i \in 1..Len(tu) PROVE tu[i] = w[i]
    OBVIOUS
  <2>1. i \in Nat /\ i + 1 \in 1..Len(s) + Len(t) /\ i \in 1..Len(v) + Len(t)
    BY <1>1, <1>2, <1>4, <1>6 DEF tu
  <2>2. tu[i] = IF i + 1 <= Len(s) THEN s[i + 1] ELSE t[i + 1 - Len(s)]
    BY <1>1, <1>6, <2>1 DEF tu
  <2>3. w[i] = IF i <= Len(v) THEN v[i] ELSE t[i - Len(v)]
    BY <1>3, <2>1 DEF w
  <2>4. CASE i <= Len(v)
    <3>1. i + 1 <= Len(s) /\ i \in 1..Len(v)
      BY <1>2, <1>4, <2>1, <2>4
    <3>. QED  BY <1>2, <2>2, <2>3, <2>4, <3>1
  <2>5. CASE ~(i <= Len(v))
    <3>1. ~(i + 1 <= Len(s)) /\ i + 1 - Len(s) = i - Len(v)
      BY <1>2, <1>4, <2>1, <2>5
    <3>. QED  BY <2>2, <2>3, <2>5, <3>1
  <2>. QED  BY <2>4, <2>5
<1>8. Len(tu) = Len(w) /\ tu \in Seq(S) /\ w \in Seq(S)
  BY <1>1, <1>2, <1>3, <1>4, <1>6 DEF tu, w
<1>9. tu = w
  BY <1>7, <1>8, SeqEqual
<1>10. Head(u) = Head(s)
  <2>1. u[1] = s[1]
    BY <1>1, <1>4
  <2>. QED  BY <2>1, <1>6, TailTypes
<1>. QED  BY <1>1, <1>5, <1>9, <1>10 DEF u, v, w, tu

LEMMA HeadAndTail ==
    ASSUME NEW S, NEW s \in Seq(S), s # <<>>
    PROVE  <<Head(s)>> \o Tail(s) = s
<1>1. Len(s) \in Nat \ {0}
  BY EmptySeq
<1>2. SubSeq(s, 1, Len(s)) = <<s[1]>> \o SubSeq(s, 1 + 1, Len(s))
  BY <1>1, SubSeqRecursiveFirst
<1>. QED  BY <1>2, SubSeqFull, TailIsSubSeq, TailTypes

LEMMA TailOfOne ==
    ASSUME NEW S, NEW s \in Seq(S), s # <<>>, Len(s) <= 1
    PROVE  Tail(s) = <<>>
<1>1. Len(s) \in Nat \ {0} /\ Tail(s) = SubSeq(s, 2, Len(s))
  BY EmptySeq, TailIsSubSeq
<1>2. Len(s) < 2
  BY <1>1
<1>. QED  BY <1>1, <1>2, SubSeqEmpty

LEMMA ItemsAssociate == \A s, t, u \in Seq(Items) : (s \o t) \o u = s \o (t \o u)
<1>. SUFFICES ASSUME NEW s \in Seq(Items), NEW t \in Seq(Items), NEW u \in Seq(Items)
              PROVE  (s \o t) \o u = s \o (t \o u)
  OBVIOUS
<1>. QED  BY ConcatAssociative

LEMMA PipelineTypes ==
    ASSUME NodeTypes, NEW n \in Nodes
    PROVE  /\ asking[n] \in Seq(Items) /\ events[n] \in Seq(Items) /\ sending[n] \in Seq(Items)
           /\ Pipeline(n) \in Seq(Items) /\ Len(asking[n]) <= 1
<1>1. asking[n] \in Seq(Messages) /\ Messages \subseteq Items
  BY DEF NodeTypes, Items
<1>2. asking[n] \in Seq(Items) /\ events[n] \in Seq(Items) /\ sending[n] \in Seq(Items) /\ Len(asking[n]) <= 1
  BY <1>1, SeqMonotonic DEF NodeTypes
<1>. QED  BY <1>2, ConcatProperties DEF Pipeline

\* The swarm task hands on, or the event loop takes a request: nothing is lost.
LEMMA HandedOn ==
    ASSUME NodeTypes, NEW n \in Nodes, Send(n) \/ HandleRequest(n)
    PROVE  \A p \in Nodes : Pipeline(p)' = Pipeline(p)
<1>. SUFFICES ASSUME NEW p \in Nodes PROVE Pipeline(p)' = Pipeline(p)
  OBVIOUS
<1>1. CASE p # n
  BY <1>1 DEF Send, HandleRequest, Pop, Pipeline, NodeTypes
<1>2. CASE p = n /\ Send(n)
  <2>1. asking'[n] = asking[n] /\ events'[n] = events[n] \o sending[n] /\ sending'[n] = <<>>
    BY <1>2 DEF Send, NodeTypes
  <2>2. asking[n] \o (events[n] \o sending[n]) \in Seq(Items)
    BY PipelineTypes, ConcatProperties
  <2>3. (asking[n] \o (events[n] \o sending[n])) \o <<>> = asking[n] \o (events[n] \o sending[n])
    BY <2>2, ConcatEmptySeq
  <2>4. asking[n] \o (events[n] \o sending[n]) = asking[n] \o events[n] \o sending[n]
    <3>1. asking[n] \in Seq(Items) /\ events[n] \in Seq(Items) /\ sending[n] \in Seq(Items)
      BY PipelineTypes
    <3>. QED  BY <3>1, ItemsAssociate
  <2>. QED  BY <1>2, <2>1, <2>3, <2>4 DEF Pipeline
<1>3. CASE p = n /\ HandleRequest(n)
  <2>1. /\ asking[n] = <<>> /\ asking'[n] = <<Head(events[n])>> /\ sending'[n] = sending[n]
        /\ events'[n] = Tail(events[n]) /\ events[n] # <<>>
    BY <1>3 DEF HandleRequest, Pop, NodeTypes
  <2>2. <<Head(events[n])>> \o Tail(events[n]) = events[n]
    BY <2>1, PipelineTypes, HeadAndTail
  <2>3. <<>> \o events[n] = events[n]
    BY PipelineTypes, ConcatEmptySeq
  <2>. QED  BY <1>3, <2>1, <2>2, <2>3 DEF Pipeline
<1>. QED  BY <1>1, <1>2, <1>3

\* An item is let in at the end,
LEMMA LetIn ==
    ASSUME NodeTypes, NEW n \in Nodes, NEW items, Free(n),
           sending' = [sending EXCEPT ![n] = items], UNCHANGED <<events, asking>>
    PROVE  Pipeline(n)' = Pipeline(n) \o items /\ \A p \in Nodes \ {n} : Pipeline(p)' = Pipeline(p)
<1>1. sending[n] = <<>> /\ sending'[n] = items
  BY DEF Free, NodeTypes
<1>2. asking[n] \o events[n] \in Seq(Items)
  BY PipelineTypes, ConcatProperties
<1>3. Pipeline(n) = asking[n] \o events[n]
  BY <1>1, <1>2, ConcatEmptySeq DEF Pipeline
<1>4. \A p \in Nodes \ {n} : Pipeline(p)' = Pipeline(p)
  BY DEF Pipeline, NodeTypes
<1>. QED  BY <1>1, <1>3, <1>4 DEF Pipeline

\* and leaves at the head.
LEMMA Leaves ==
    ASSUME NodeTypes, NEW n \in Nodes, HandleChunk(n) \/ HandleOther(n) \/ OwnPeerId(n)
    PROVE  /\ Pipeline(n) # <<>> /\ Pipeline(n)' = Tail(Pipeline(n))
           /\ OwnPeerId(n) => Head(Pipeline(n)) = Head(asking[n])
           /\ \A p \in Nodes \ {n} : Pipeline(p)' = Pipeline(p)
<1>1. \A p \in Nodes \ {n} : Pipeline(p)' = Pipeline(p)
  BY DEF Pipeline, NodeTypes, HandleChunk, HandleOther, OwnPeerId, Pop
<1>2. CASE HandleChunk(n) \/ HandleOther(n)
  <2>1. /\ asking[n] = <<>> /\ asking'[n] = <<>> /\ sending'[n] = sending[n]
        /\ events'[n] = Tail(events[n]) /\ events[n] # <<>>
    BY <1>2 DEF HandleChunk, HandleOther, Pop, NodeTypes
  <2>2. Tail(events[n]) \in Seq(Items)
    BY <2>1, PipelineTypes, TailTypes
  <2>3. Pipeline(n) = events[n] \o sending[n] /\ Pipeline(n)' = Tail(events[n]) \o sending[n]
    BY <2>1, <2>2, PipelineTypes, ConcatEmptySeq DEF Pipeline
  <2>4. Pipeline(n) # <<>> /\ Pipeline(n)' = Tail(Pipeline(n))
    <3>1. events[n] \in Seq(Items) /\ sending[n] \in Seq(Items) /\ events[n] # <<>>
      BY <2>1, PipelineTypes
    <3>2. /\ Tail(events[n] \o sending[n]) = Tail(events[n]) \o sending[n]
          /\ events[n] \o sending[n] # <<>>
      BY <3>1, ConcatTail, Zenon
    <3>. QED  BY <2>3, <3>2
  <2>5. ~OwnPeerId(n)
    BY <2>1 DEF OwnPeerId
  <2>. QED  BY <1>1, <2>4, <2>5
<1>3. CASE OwnPeerId(n)
  <2>. DEFINE rest == events[n] \o sending[n]
  <2>1. /\ asking[n] # <<>> /\ asking'[n] = <<>> /\ sending'[n] = sending[n] /\ events'[n] = events[n]
    BY <1>3 DEF OwnPeerId, NodeTypes
  <2>2. rest \in Seq(Items)
    BY PipelineTypes, ConcatProperties
  <2>3. Pipeline(n) = asking[n] \o rest
    <3>1. asking[n] \in Seq(Items) /\ events[n] \in Seq(Items) /\ sending[n] \in Seq(Items)
      BY PipelineTypes
    <3>. QED  BY <3>1, ItemsAssociate DEF Pipeline
  <2>4. <<>> \o events[n] = events[n]
    BY PipelineTypes, ConcatEmptySeq
  <2>5. Pipeline(n)' = rest
    BY <2>1, <2>4 DEF Pipeline
  <2>6. Tail(asking[n]) = <<>>
    BY <2>1, PipelineTypes, TailOfOne, Zenon
  <2>. HIDE DEF rest
  <2>7. Tail(Pipeline(n)) = rest /\ Pipeline(n) # <<>> /\ Head(Pipeline(n)) = Head(asking[n])
    <3>1. <<>> \o rest = rest
      BY <2>2, ConcatEmptySeq
    <3>2. asking[n] \in Seq(Items) /\ asking[n] # <<>>
      BY <2>1, PipelineTypes
    <3>3. /\ Tail(asking[n] \o rest) = Tail(asking[n]) \o rest /\ asking[n] \o rest # <<>>
          /\ Head(asking[n] \o rest) = Head(asking[n])
      BY <2>2, <3>2, ConcatTail, Zenon
    <3>. QED  BY <2>3, <2>6, <3>1, <3>3
  <2>. QED  BY <1>1, <2>5, <2>7
<1>. QED  BY <1>2, <1>3

\* The pipeline of one node moves, and more is remembered.
LEMMA OnceMoves ==
    ASSUME InferenceTypes, OnceInv, UNCHANGED target, NEW n \in Nodes,
           \A p \in Nodes \ {n} : Pipeline(p)' = Pipeline(p),
           \A p \in Nodes : seen[p] \subseteq seen'[p],
           OnceIn(Pipeline(n)', seen'[n]),
           \A r \in Requests : run'[r].at # "none" =>
               IF target[r] = n THEN Request(r, "any") \in seen'[n] /\ ~IsIn(Request(r, "any"), Pipeline(n)')
                                ELSE run[r].at # "none"
    PROVE  OnceInv'
<1>1. \A p \in Nodes : OnceIn(Pipeline(p)', seen'[p])
  BY DEF OnceInv, OnceIn
<1>2. RanInv'
  <2>. SUFFICES ASSUME NEW r \in Requests, run'[r].at # "none"
                PROVE  /\ Request(r, "any") \in seen'[target[r]]
                       /\ ~IsIn(Request(r, "any"), Pipeline(target[r])')
    BY DEF RanInv, Request, IsIn
  <2>1. target[r] \in Nodes
    BY DEF InferenceTypes, HandlerTypes
  <2>2. CASE target[r] = n
    BY <2>2
  <2>3. CASE target[r] # n
    BY <2>1, <2>3 DEF OnceInv, RanInv
  <2>. QED  BY <2>2, <2>3
<1>. QED  BY <1>1, <1>2 DEF OnceInv, OnceIn

\* Nothing is let in, and nothing leaves.
LEMMA OnceKept ==
    ASSUME InferenceTypes, OnceInv, UNCHANGED target,
           \A p \in Nodes : Pipeline(p)' = Pipeline(p),
           \A p \in Nodes : seen[p] \subseteq seen'[p],
           \A r \in Requests : run'[r].at # "none" => run[r].at # "none"
    PROVE  OnceInv'
<1>1. \A p \in Nodes : OnceIn(Pipeline(p)', seen'[p])
  BY DEF OnceInv, OnceIn
<1>2. RanInv'
  <2>. SUFFICES ASSUME NEW r \in Requests, run'[r].at # "none"
                PROVE  /\ Request(r, "any") \in seen'[target[r]]
                       /\ ~IsIn(Request(r, "any"), Pipeline(target[r])')
    BY DEF RanInv, Request, IsIn
  <2>1. target[r] \in Nodes
    BY DEF InferenceTypes, HandlerTypes
  <2>. QED  BY <2>1 DEF OnceInv, RanInv
<1>. QED  BY <1>1, <1>2 DEF OnceInv, OnceIn

LEMMA OnceDelivered ==
    ASSUME InferenceTypes, OnceInv, NEW n \in Nodes, Deliver(n)
    PROVE  OnceInv'
<1>. DEFINE m == Head(inFlight[n])
<1>1. m \in Items
  <2>1. inFlight[n] \in Seq(Messages \union Chunks) /\ inFlight[n] # <<>>
    BY DEF InferenceTypes, NetworkTypes, Deliver
  <2>. QED  BY <2>1, TailTypes DEF Items
<1>2. /\ UNCHANGED <<target, run>> /\ Free(n) /\ UNCHANGED <<events, asking>>
      /\ seen' = [seen EXCEPT ![n] = @ \union {m}]
      /\ sending' = [sending EXCEPT ![n] = IF New(n, m) /\ Known(m) THEN <<m>> ELSE <<>>]
  BY DEF Deliver, handlerVars, See
<1>. HIDE DEF m
<1>3. (\A p \in Nodes : seen[p] \subseteq seen'[p]) /\ seen'[n] = seen[n] \union {m}
  BY <1>2 DEF InferenceTypes, NetworkTypes
<1>4. CASE New(n, m) /\ Known(m)
  <2>1. Pipeline(n)' = Pipeline(n) \o <<m>> /\ \A p \in Nodes \ {n} : Pipeline(p)' = Pipeline(p)
    BY <1>2, <1>4, LetIn DEF InferenceTypes
  <2>2. Pipeline(n) \in Seq(Items)
    BY PipelineTypes DEF InferenceTypes
  <2>3. m.kind = "request" => m \in seen'[n] /\ m \notin seen[n] /\ m.topic = "any"
    BY <1>3, <1>4 DEF New, Known
  <2>4. OnceIn(Pipeline(n), seen[n])
    BY DEF OnceInv
  <2>5. /\ OnceIn(Pipeline(n) \o <<m>>, seen'[n])
        /\ \A x : IsIn(x, Pipeline(n) \o <<m>>) => IsIn(x, Pipeline(n)) \/ x = m
    BY <1>1, <1>3, <2>2, <2>3, <2>4, AppendOnce
  <2>6. ASSUME NEW r \in Requests, run'[r].at # "none"
        PROVE  IF target[r] = n THEN Request(r, "any") \in seen'[n] /\ ~IsIn(Request(r, "any"), Pipeline(n)')
                                ELSE run[r].at # "none"
    <3>1. run[r].at # "none"
      BY <1>2, <2>6
    <3>2. CASE target[r] = n
      <4>1. Request(r, "any") \in seen[n] /\ ~IsIn(Request(r, "any"), Pipeline(n))
        BY <3>1, <3>2 DEF OnceInv, RanInv
      <4>2. Request(r, "any") # m
        BY <1>4, <4>1 DEF New
      <4>. QED  BY <1>3, <2>1, <2>5, <3>2, <4>1, <4>2
    <3>. QED  BY <3>1, <3>2
  <2>. QED  BY <1>2, <1>3, <2>1, <2>5, <2>6, OnceMoves
<1>5. CASE ~(New(n, m) /\ Known(m))
  <2>1. Pipeline(n)' = Pipeline(n) \o <<>> /\ \A p \in Nodes \ {n} : Pipeline(p)' = Pipeline(p)
    BY <1>2, <1>5, LetIn DEF InferenceTypes
  <2>2. Pipeline(n) \o <<>> = Pipeline(n)
    BY PipelineTypes, ConcatEmptySeq DEF InferenceTypes
  <2>. QED  BY <1>2, <1>3, <2>1, <2>2, OnceKept
<1>. QED  BY <1>4, <1>5

LEMMA OnceOther ==
    ASSUME InferenceTypes, OnceInv, NEW n \in Nodes, OtherEvent(n)
    PROVE  OnceInv'
<1>1. UNCHANGED <<target, run, seen, events, asking>> /\ Free(n) /\ sending' = [sending EXCEPT ![n] = <<Other>>]
  BY DEF OtherEvent, handlerVars, networkVars
<1>2. Pipeline(n)' = Pipeline(n) \o <<Other>> /\ \A p \in Nodes \ {n} : Pipeline(p)' = Pipeline(p)
  BY <1>1, LetIn DEF InferenceTypes
<1>3. Pipeline(n) \in Seq(Items) /\ Other \in Items /\ OnceIn(Pipeline(n), seen[n])
  BY PipelineTypes DEF InferenceTypes, Items, OnceInv
<1>4. /\ OnceIn(Pipeline(n) \o <<Other>>, seen[n])
      /\ \A x : IsIn(x, Pipeline(n) \o <<Other>>) => IsIn(x, Pipeline(n)) \/ x = Other
  <2>1. Other.kind # "request"
    BY DEF Other
  <2>. QED  BY <1>3, <2>1, AppendOnce
<1>5. ASSUME NEW r \in Requests, run'[r].at # "none"
      PROVE  IF target[r] = n THEN Request(r, "any") \in seen'[n] /\ ~IsIn(Request(r, "any"), Pipeline(n)')
                              ELSE run[r].at # "none"
  <2>1. Request(r, "any") # Other
    BY DEF Request, Other
  <2>. QED  BY <1>1, <1>2, <1>4, <1>5, <2>1 DEF OnceInv, RanInv
<1>. QED  BY <1>1, <1>2, <1>4, <1>5, OnceMoves

\* An event that leaves goes by, or it is a request executed for the first time.
LEMMA OnceLeft ==
    ASSUME InferenceTypes, OnceInv, NEW n \in Nodes, HandleChunk(n) \/ HandleOther(n) \/ OwnPeerId(n)
    PROVE  OnceInv'
<1>1. /\ Pipeline(n) # <<>> /\ Pipeline(n)' = Tail(Pipeline(n))
      /\ OwnPeerId(n) => Head(Pipeline(n)) = Head(asking[n])
      /\ \A p \in Nodes \ {n} : Pipeline(p)' = Pipeline(p)
  BY Leaves DEF InferenceTypes
<1>2. Pipeline(n) \in Seq(Items) /\ OnceIn(Pipeline(n), seen[n])
  BY PipelineTypes DEF InferenceTypes, OnceInv
<1>3. UNCHANGED <<target, seen>>
  BY DEF HandleChunk, HandleOther, OwnPeerId, handlerVars, networkVars
<1>4. /\ OnceIn(Tail(Pipeline(n)), seen[n])
      /\ \A x : IsIn(x, Tail(Pipeline(n))) => IsIn(x, Pipeline(n))
      /\ Head(Pipeline(n)).kind = "request" =>
            /\ Head(Pipeline(n)) \in seen[n] /\ Head(Pipeline(n)).topic = "any"
            /\ ~IsIn(Head(Pipeline(n)), Tail(Pipeline(n)))
  BY <1>1, <1>2, TailOnce
<1>5. ASSUME NEW r \in Requests, run'[r].at # "none"
      PROVE  IF target[r] = n THEN Request(r, "any") \in seen'[n] /\ ~IsIn(Request(r, "any"), Pipeline(n)')
                              ELSE run[r].at # "none"
  <2>1. CASE run[r].at # "none"
    BY <1>1, <1>3, <1>4, <2>1 DEF OnceInv, RanInv
  <2>2. CASE run[r].at = "none"
    <3>1. OwnPeerId(n)
      BY <1>5, <2>2 DEF HandleChunk, HandleOther
    <3>2. asking[n] \in Seq(Messages) /\ asking[n] # <<>>
      BY <3>1 DEF InferenceTypes, NodeTypes, OwnPeerId
    <3>3. Head(asking[n]) \in Messages
      BY <3>2, TailTypes
    <3>4. r = Head(asking[n]).req /\ target[r] = n
      <4>1. Head(asking[n]).req \in Requests
        BY <3>3 DEF Messages
      <4>. QED  BY <1>5, <2>2, <3>1, <4>1 DEF OwnPeerId, InferenceTypes, RunTypes
    <3>5. Head(asking[n]) = Request(r, "any")
      <4>1. Head(asking[n]).kind = "request"
        BY <3>3 DEF Messages
      <4>2. Head(asking[n]).topic = "any"
        BY <1>1, <1>4, <3>1, <4>1
      <4>. QED  BY <3>3, <3>4, <4>1, <4>2 DEF Messages, Request
    <3>6. Request(r, "any").kind = "request"
      BY DEF Request
    <3>. QED  BY <1>1, <1>3, <1>4, <3>1, <3>4, <3>5, <3>6
  <2>. QED  BY <2>1, <2>2
<1>. QED  BY <1>1, <1>3, <1>4, <1>5, OnceMoves

LEMMA OnceStep ==
    ASSUME InferenceTypes, OnceInv, [Next]_vars
    PROVE  OnceInv'
<1>1. ASSUME UNCHANGED nodeVars, UNCHANGED target, \A p \in Nodes : seen[p] \subseteq seen'[p],
             \A r \in Requests : run'[r].at # "none" => run[r].at # "none"
      PROVE  OnceInv'
  <2>1. \A p \in Nodes : Pipeline(p)' = Pipeline(p)
    BY <1>1 DEF nodeVars, Pipeline
  <2>. QED  BY <1>1, <2>1, OnceKept
<1>2. \A n, m : Publish(n, m) => \A p \in Nodes : seen[p] \subseteq seen'[p]
  BY DEF Publish, See, InferenceTypes, NetworkTypes
<1>3. CASE UNCHANGED vars
  BY <1>1, <1>3 DEF vars, handlerVars, networkVars
<1>4. ASSUME NEW n \in Nodes, SwarmTask(n) \/ EventLoop(n) \/ OwnPeerId(n) \/ OtherEvent(n) \/ Disturb(n)
      PROVE  OnceInv'
  <2>1. CASE Send(n) \/ HandleRequest(n)
    <3>1. UNCHANGED <<target, run, seen>>
      BY <2>1 DEF Send, HandleRequest, handlerVars, networkVars
    <3>. QED  BY <2>1, <3>1, HandedOn, OnceKept DEF InferenceTypes
  <2>2. CASE Disturb(n)
    BY <1>1, <2>2 DEF Disturb, handlerVars
  <2>. QED  BY <1>4, <2>1, <2>2, OnceDelivered, OnceOther, OnceLeft DEF SwarmTask, EventLoop
<1>5. ASSUME NEW r \in Requests, Register(r) \/ Subscribe(r) \/ Receive(r) \/ Cleanup(r) \/ Timeout(r) \/ Drop(r)
      PROVE  OnceInv'
  <2>1. UNCHANGED <<nodeVars, target, networkVars, run>>
    BY <1>5 DEF Register, Subscribe, Receive, Cleanup, Timeout, Drop
  <2>. QED  BY <1>1, <2>1 DEF networkVars
<1>6. ASSUME NEW r \in Requests, Broadcast(r) \/ BroadcastFails(r)
      PROVE  OnceInv'
  <2>1. UNCHANGED <<nodeVars, target, run>>
    BY <1>6 DEF Broadcast, BroadcastFails
  <2>2. CASE Broadcast(r)
    <3>1. \A p \in Nodes : seen[p] \subseteq seen'[p]
      BY <2>2 DEF Broadcast, PublishBoth, See, InferenceTypes, NetworkTypes
    <3>. QED  BY <1>1, <2>1, <3>1
  <2>3. CASE BroadcastFails(r)
    BY <1>1, <1>2, <2>1, <2>3 DEF BroadcastFails, networkVars
  <2>. QED  BY <1>6, <2>2, <2>3
<1>7. ASSUME NEW r \in Requests, PublishChunk(r) \/ EngineFails(r)
      PROVE  OnceInv'
  <2>1. UNCHANGED <<nodeVars, target>> /\ run[r].at = "running"
    BY <1>7 DEF PublishChunk, EngineFails, handlerVars
  <2>2. \A q \in Requests : run'[q].at # "none" => run[q].at # "none"
    BY <1>7, <2>1 DEF PublishChunk, EngineFails, InferenceTypes, RunTypes
  <2>3. \A p \in Nodes : seen[p] \subseteq seen'[p]
    BY <1>2, <1>7 DEF PublishChunk, EngineFails, networkVars
  <2>. QED  BY <1>1, <2>1, <2>2, <2>3
<1>. QED  BY <1>3, <1>4, <1>5, <1>6, <1>7 DEF Next, Handler

LEMMA OnceInit == Init => OnceInv
<1>. SUFFICES ASSUME Init PROVE OnceInv
  OBVIOUS
<1>1. \A n \in Nodes : Pipeline(n) = <<>> /\ Len(Pipeline(n)) = 0
  <2>1. \A n \in Nodes : Pipeline(n) = <<>> \o <<>> \o <<>>
    BY DEF Init, Pipeline
  <2>2. <<>> \o <<>> \o <<>> = <<>> /\ Len(<<>>) = 0
    BY EmptySeq, ConcatEmptySeq
  <2>. QED  BY <2>1, <2>2
<1>. QED  BY <1>1 DEF Init, OnceInv, OnceIn, RanInv, NotRun

\* What is executed has not been executed.
LEMMA RunBegins ==
    ASSUME InferenceTypes, OnceInv, NEW n \in Nodes, OwnPeerId(n)
    PROVE  \/ UNCHANGED run
           \/ \E r \in Requests, tokens \in Answers :
                 /\ run[r].at = "none"
                 /\ run' = [run EXCEPT ![r] = [at |-> "running", tokens |-> tokens, sent |-> 0]]
<1>. DEFINE m == Head(asking[n])
<1>1. Pipeline(n) # <<>> /\ Head(Pipeline(n)) = m
  BY Leaves DEF InferenceTypes
<1>2. m \in Messages
  <2>1. asking[n] \in Seq(Messages) /\ asking[n] # <<>>
    BY DEF InferenceTypes, NodeTypes, OwnPeerId
  <2>. QED  BY <2>1, TailTypes
<1>3. m.kind = "request" => m.topic = "any" /\ IsIn(m, Pipeline(n))
  BY <1>1, PipelineTypes, TailOnce DEF InferenceTypes, OnceInv
<1>4. m = Request(m.req, "any") /\ m.req \in Requests /\ IsIn(m, Pipeline(n))
  BY <1>2, <1>3 DEF Messages, Request
<1>. HIDE DEF m
<1>5. CASE target[m.req] = n
  <2>1. run[m.req].at = "none"
    BY <1>4, <1>5 DEF OnceInv, RanInv
  <2>. QED  BY <1>4, <1>5, <2>1 DEF OwnPeerId, m
<1>6. CASE target[m.req] # n
  BY <1>6 DEF OwnPeerId, m
<1>. QED  BY <1>5, <1>6

\* What a step does to an execution that has begun.
Keeps == \A r \in Requests : run[r].at # "none" =>
             run'[r].tokens = run[r].tokens /\ run'[r].sent >= run[r].sent

LEMMA RunsGoOn ==
    ASSUME InferenceTypes, OnceInv, [Next]_vars
    PROVE  Keeps
<1>1. CASE UNCHANGED run
  BY <1>1 DEF Keeps, InferenceTypes, RunTypes, Executions
<1>2. ASSUME NEW n \in Nodes, OwnPeerId(n)
      PROVE  Keeps
  <2>1. CASE UNCHANGED run
    BY <1>1, <2>1
  <2>2. ASSUME NEW r \in Requests, NEW begun, run[r].at = "none", run' = [run EXCEPT ![r] = begun]
        PROVE  Keeps
    <3>1. \A q \in Requests : q # r => run'[q] = run[q]
      BY <2>2 DEF InferenceTypes, RunTypes
    <3>. QED  BY <2>2, <3>1 DEF Keeps, InferenceTypes, RunTypes, Executions
  <2>. QED  BY <1>2, <2>1, <2>2, RunBegins
<1>3. ASSUME NEW r \in Requests, PublishChunk(r) \/ EngineFails(r)
      PROVE  Keeps
  <2>1. /\ run'[r].tokens = run[r].tokens /\ run'[r].sent >= run[r].sent
        /\ \A q \in Requests : q # r => run'[q] = run[q]
    <3>1. run \in [Requests -> Executions] /\ run[r].sent \in Nat
      BY DEF InferenceTypes, RunTypes, Executions
    <3>2. CASE PublishChunk(r)
      BY <3>1, <3>2 DEF PublishChunk
    <3>3. CASE EngineFails(r)
      BY <3>1, <3>3 DEF EngineFails
    <3>. QED  BY <1>3, <3>2, <3>3
  <2>2. \A q \in Requests : run[q].sent >= run[q].sent
    BY DEF InferenceTypes, RunTypes, Executions
  <2>3. ASSUME NEW q \in Requests
        PROVE  run'[q].tokens = run[q].tokens /\ run'[q].sent >= run[q].sent
    BY <2>1, <2>2
  <2>. QED  BY <2>3 DEF Keeps
<1>4. ASSUME NEW n \in Nodes, SwarmTask(n) \/ EventLoop(n) \/ OtherEvent(n) \/ Disturb(n)
      PROVE  UNCHANGED run
  BY <1>4 DEF SwarmTask, EventLoop, Deliver, Send, HandleRequest, HandleChunk, HandleOther, OtherEvent, Disturb
<1>5. ASSUME NEW r \in Requests, Register(r) \/ Handler(r) \/ BroadcastFails(r) \/ Timeout(r) \/ Drop(r)
      PROVE  UNCHANGED run
  BY <1>5 DEF Register, Handler, Subscribe, Broadcast, Receive, Cleanup, BroadcastFails, Timeout, Drop
<1>6. CASE UNCHANGED vars
  BY <1>1, <1>6 DEF vars
<1>. QED  BY <1>1, <1>2, <1>3, <1>4, <1>5, <1>6 DEF Next

\* A request is published on two topics, comes late or twice, and nothing in
\* event_loop remembers what was executed: no request is executed a second time
\* all the same, since from_hash knows only one of the topics and the gossip lets
\* a message in once.
THEOREM ExecutionsHappenOnce == Spec => ExecutedOnce
<1>1. InferenceTypes /\ OnceInv /\ [Next]_vars => (InferenceTypes /\ OnceInv)'
  BY TypesStep, OnceStep
<1>2. InferenceTypes /\ OnceInv /\ [Next]_vars =>
        [\A r \in Requests : run[r].at # "none" =>
             run'[r].tokens = run[r].tokens /\ run'[r].sent >= run[r].sent]_vars
  BY RunsGoOn DEF Keeps
<1>. QED  BY <1>1, <1>2, TypesInit, OnceInit, PTL DEF Spec, ExecutedOnce
-----------------------------------------------------------------------------
(* Answers.                                                                *)

\* The chunks of an execution, those that come through, and all that could be of a request.
ChunkAt(r, tokens) == [i \in 1..Len(tokens) |-> Chunk(r, tokens[i], i = Len(tokens))]
Places(tokens) == {i \in 1..Len(tokens) : ComesThrough(tokens, i)}
ChunksOf(r) == {m \in Chunks : m.req = r}

\* Of what is mine, items holds what is at the places after lo up to hi, in their order.
Carries(items, mine, at, places, lo, hi) ==
    /\ \A k \in 1..Len(items) : items[k] \in mine => \E i \in places : lo < i /\ i <= hi /\ items[k] = at[i]
    /\ \A i \in places : lo < i /\ i <= hi => \E k \in 1..Len(items) : items[k] = at[i]
    /\ \A k, l \in 1..Len(items), i, j \in places : k < l /\ items[k] = at[i] /\ items[l] = at[j] => i < j

Brings(r, tokens, items, lo, hi) == Carries(items, ChunksOf(r), ChunkAt(r, tokens), Places(tokens), lo, hi)

\* The chunks of a request after the first a, on their way through the node it came from:
\* waiting for the handler, in the channel of events, with the swarm task, in flight.
Way(r, tokens, a, waiting, queued, held, flying, top) ==
    \E x, e, s \in Nat :
        /\ Brings(r, tokens, waiting, a, x) /\ Brings(r, tokens, queued, x, e)
        /\ Brings(r, tokens, held, e, s) /\ Brings(r, tokens, flying, s, top)
        /\ a <= x /\ x <= e /\ e <= s /\ s <= top

\* How far the execution is, as the node sees that handles the request: a node
\* does not hear its own publications.
Reached(r) == IF home[r] = target[r] THEN 0 ELSE run[r].sent

UpTo(r) == {ChunkAt(r, run[r].tokens)[i] : i \in 1..run[r].sent}

\* What gossip knows of the chunks of a request is what was published of them.
PublishedInv(r) ==
    /\ run[r].sent <= Len(run[r].tokens) /\ (run[r].at = "none" => run[r].sent = 0)
    /\ UpTo(r) \subseteq seen[target[r]]
    /\ \A n \in Nodes : \A m \in ChunksOf(r) : m \in seen[n] \/ IsIn(m, inFlight[n]) => m \in UpTo(r)
    /\ pc[r] = "idle" => \A n \in Nodes : Request(r, "any") \notin seen[n] /\ ~IsIn(Request(r, "any"), inFlight[n])

Awaiting(r) == pc[r] = "idle" \/ Listening(r)

OnTheWay(r, a) ==
    Way(r, run[r].tokens, a, rx[r], events[home[r]], sending[home[r]], inFlight[home[r]], Reached(r))

\* None of them is refused by the gossip.
Unheard(r) == \A m \in ChunksOf(r) : ~(m \in seen[home[r]] /\ IsIn(m, inFlight[home[r]]))

FlowInv(r) ==
    /\ \A k \in 1..Len(rx[r]) : rx[r][k] \in ChunksOf(r)
    /\ \A k \in 1..Len(answer[r]) : answer[r][k] \in ChunksOf(r)
    /\ r \notin overflown =>
          \E a \in Nat : /\ a <= Reached(r) /\ Brings(r, run[r].tokens, answer[r], 0, a)
                         /\ Awaiting(r) => OnTheWay(r, a) /\ Unheard(r)

AnswersInv == faults = 0 => \A r \in Requests : PublishedInv(r) /\ FlowInv(r)

\* Every place has a chunk of its own.
Stream(mine, at, places) ==
    /\ places \subseteq Nat /\ \A i \in places : at[i] \in mine
    /\ \A i, j \in places : at[i] = at[j] => i = j

LEMMA CarriesConcat ==
    ASSUME NEW S, NEW p \in Seq(S), NEW q \in Seq(S), NEW mine, NEW at, NEW places, Stream(mine, at, places),
           NEW lo \in Nat, NEW mid \in Nat, NEW hi \in Nat, lo <= mid, mid <= hi,
           Carries(p, mine, at, places, lo, mid), Carries(q, mine, at, places, mid, hi)
    PROVE  Carries(p \o q, mine, at, places, lo, hi)
<1>. DEFINE u == p \o q
<1>1. /\ Len(p) \in Nat /\ Len(q) \in Nat /\ Len(u) = Len(p) + Len(q)
      /\ \A k \in 1..Len(p) + Len(q) : u[k] = IF k <= Len(p) THEN p[k] ELSE q[k - Len(p)]
  BY ConcatProperties, LenProperties
<1>. HIDE DEF u
<1>2. ASSUME NEW k \in 1..Len(u)
      PROVE  \/ k \in 1..Len(p) /\ u[k] = p[k]
             \/ k - Len(p) \in 1..Len(q) /\ u[k] = q[k - Len(p)] /\ ~(k <= Len(p))
  BY <1>1
<1>3. /\ \A k \in 1..Len(p) : k \in 1..Len(u) /\ u[k] = p[k]
      /\ \A k \in 1..Len(q) : k + Len(p) \in 1..Len(u) /\ u[k + Len(p)] = q[k]
  <2>1. \A k \in 1..Len(p) : k \in 1..Len(u) /\ k <= Len(p)
    BY <1>1
  <2>2. \A k \in 1..Len(q) : k + Len(p) \in 1..Len(u) /\ ~(k + Len(p) <= Len(p)) /\ (k + Len(p)) - Len(p) = k
    BY <1>1
  <2>. QED  BY <1>1, <2>1, <2>2
<1>4. places \subseteq Nat
  BY DEF Stream
<1>5. ASSUME NEW k \in 1..Len(u), u[k] \in mine
      PROVE  \E i \in places : lo < i /\ i <= hi /\ u[k] = at[i]
  <2>1. CASE k \in 1..Len(p) /\ u[k] = p[k]
    <3>1. PICK i \in places : lo < i /\ i <= mid /\ p[k] = at[i]
      BY <1>5, <2>1 DEF Carries
    <3>2. i <= hi
      BY <1>4, <3>1
    <3>. QED  BY <2>1, <3>1, <3>2
  <2>2. CASE k - Len(p) \in 1..Len(q) /\ u[k] = q[k - Len(p)]
    <3>1. PICK i \in places : mid < i /\ i <= hi /\ q[k - Len(p)] = at[i]
      BY <1>5, <2>2 DEF Carries
    <3>2. lo < i
      BY <1>4, <3>1
    <3>. QED  BY <2>2, <3>1, <3>2
  <2>. QED  BY <1>2, <2>1, <2>2
<1>6. ASSUME NEW i \in places, lo < i, i <= hi
      PROVE  \E k \in 1..Len(u) : u[k] = at[i]
  <2>1. CASE i <= mid
    BY <1>3, <1>6, <2>1 DEF Carries
  <2>2. CASE ~(i <= mid)
    <3>1. mid < i
      BY <1>4, <2>2
    <3>2. PICK k \in 1..Len(q) : q[k] = at[i]
      BY <1>6, <3>1 DEF Carries
    <3>. QED  BY <1>3, <3>2
  <2>. QED  BY <2>1, <2>2
\* What is in p comes before what is in q.
<1>7. ASSUME NEW k \in 1..Len(p), NEW l \in 1..Len(q), NEW i \in places, NEW j \in places, p[k] = at[i], q[l] = at[j]
      PROVE  i < j
  <2>1. i <= mid
    <3>1. PICK h \in places : lo < h /\ h <= mid /\ p[k] = at[h]
      BY <1>7 DEF Carries, Stream
    <3>2. h = i
      BY <1>7, <3>1 DEF Stream
    <3>. QED  BY <3>1, <3>2
  <2>2. mid < j
    <3>1. PICK h \in places : mid < h /\ h <= hi /\ q[l] = at[h]
      BY <1>7 DEF Carries, Stream
    <3>2. h = j
      BY <1>7, <3>1 DEF Stream
    <3>. QED  BY <3>1, <3>2
  <2>. QED  BY <1>4, <2>1, <2>2
<1>8. ASSUME NEW k \in 1..Len(u), NEW l \in 1..Len(u), NEW i \in places, NEW j \in places,
             k < l, u[k] = at[i], u[l] = at[j]
      PROVE  i < j
  <2>1. CASE k \in 1..Len(p) /\ u[k] = p[k]
    <3>1. CASE l \in 1..Len(p) /\ u[l] = p[l]
      BY <1>8, <2>1, <3>1 DEF Carries
    <3>2. CASE l - Len(p) \in 1..Len(q) /\ u[l] = q[l - Len(p)]
      BY <1>7, <1>8, <2>1, <3>2
    <3>. QED  BY <1>2, <3>1, <3>2
  <2>2. CASE k - Len(p) \in 1..Len(q) /\ u[k] = q[k - Len(p)] /\ ~(k <= Len(p))
    <3>1. ~(l <= Len(p)) /\ k - Len(p) < l - Len(p)
      BY <1>1, <1>8, <2>2
    <3>2. l - Len(p) \in 1..Len(q) /\ u[l] = q[l - Len(p)]
      BY <1>2, <3>1
    <3>3. \A a, b \in 1..Len(q) : a < b /\ q[a] = at[i] /\ q[b] = at[j] => i < j
      BY DEF Carries
    <3>4. q[k - Len(p)] = at[i] /\ q[l - Len(p)] = at[j]
      BY <1>8, <2>2, <3>2
    <3>. QED  BY <2>2, <3>1, <3>2, <3>3, <3>4
  <2>. QED  BY <1>2, <2>1, <2>2
<1>. QED  BY <1>5, <1>6, <1>8 DEF Carries, u

\* What of a queue is carried by its head, and what by the others.
LEMMA CarriesPop ==
    ASSUME NEW S, NEW q \in Seq(S), q # <<>>, NEW mine, NEW at, NEW places, Stream(mine, at, places),
           NEW lo \in Nat, NEW hi \in Nat, lo <= hi, Carries(q, mine, at, places, lo, hi)
    PROVE  \E mid \in Nat : /\ lo <= mid /\ mid <= hi
                            /\ Carries(<<Head(q)>>, mine, at, places, lo, mid)
                            /\ Carries(Tail(q), mine, at, places, mid, hi)
<1>. DEFINE t == Tail(q)  m == Head(q)  one == <<m>>
<1>1. /\ t \in Seq(S) /\ Len(q) \in Nat \ {0} /\ Len(t) = Len(q) - 1 /\ m = q[1]
      /\ \A k \in 1..Len(t) : t[k] = q[k + 1]
  BY HeadTailProperties, EmptySeq, TailTypes
<1>2. Len(one) = 1 /\ one[1] = m
  OBVIOUS
<1>3. 1..1 = {1}
  OBVIOUS
<1>. HIDE DEF t, m, one
<1>4. places \subseteq Nat
  BY DEF Stream
<1>5. \A k \in 1..Len(t) : k + 1 \in 1..Len(q) /\ 1 < k + 1
  BY <1>1
<1>6. 1 \in 1..Len(q) /\ \A k \in 1..Len(q) : k = 1 \/ (k - 1 \in 1..Len(t) /\ q[k] = t[k - 1] /\ 1 < k)
  <2>1. \A k \in 1..Len(q) : k = 1 \/ (k - 1 \in 1..Len(t) /\ (k - 1) + 1 = k /\ 1 < k)
    BY <1>1
  <2>. QED  BY <1>1, <2>1
<1>7. \A k, l \in 1..Len(t), i, j \in places : k < l /\ t[k] = at[i] /\ t[l] = at[j] => i < j
  BY <1>1, <1>5 DEF Carries
<1>8. \A k, l \in 1..1 : ~(k < l)
  BY <1>3
<1>9. CASE m \in mine
  <2>1. PICK mid \in places : lo < mid /\ mid <= hi /\ m = at[mid]
    BY <1>1, <1>6, <1>9 DEF Carries
  <2>2. \A k \in 1..Len(t), j \in places : t[k] = at[j] => mid < j
    <3>1. \A l \in 1..Len(q), j \in places : 1 < l /\ q[l] = at[j] => mid < j
      <4>1. q[1] = at[mid]
        BY <1>1, <2>1
      <4>2. \A k, l \in 1..Len(q), i, j \in places : k < l /\ q[k] = at[i] /\ q[l] = at[j] => i < j
        BY DEF Carries
      <4>. QED  BY <1>6, <2>1, <4>1, <4>2
    <3>. QED  BY <1>1, <1>5, <3>1
  <2>3. Carries(one, mine, at, places, lo, mid)
    <3>1. ASSUME NEW i \in places, lo < i, i <= mid PROVE at[i] = m
      <4>1. i <= hi
        BY <1>4, <2>1, <3>1
      <4>2. PICK k \in 1..Len(q) : q[k] = at[i]
        BY <3>1, <4>1 DEF Carries
      <4>3. CASE k = 1
        BY <1>1, <4>2, <4>3
      <4>4. CASE k - 1 \in 1..Len(t) /\ q[k] = t[k - 1]
        <5>1. mid < i
          BY <2>2, <4>2, <4>4
        <5>. QED  BY <1>4, <3>1, <5>1
      <4>. QED  BY <1>6, <4>3, <4>4
    <3>2. mid <= mid
      BY <1>4
    <3>. QED  BY <1>2, <1>3, <1>8, <2>1, <3>1, <3>2 DEF Carries
  <2>4. Carries(t, mine, at, places, mid, hi)
    <3>1. ASSUME NEW k \in 1..Len(t), t[k] \in mine
          PROVE  \E i \in places : mid < i /\ i <= hi /\ t[k] = at[i]
      <4>1. PICK i \in places : i <= hi /\ t[k] = at[i]
        BY <1>1, <1>5, <3>1 DEF Carries
      <4>. QED  BY <2>2, <4>1
    <3>2. ASSUME NEW i \in places, mid < i, i <= hi
          PROVE  \E k \in 1..Len(t) : t[k] = at[i]
      <4>1. lo < i /\ i # mid
        BY <1>4, <2>1, <3>2
      <4>2. PICK k \in 1..Len(q) : q[k] = at[i]
        BY <3>2, <4>1 DEF Carries
      <4>3. k # 1
        BY <1>1, <2>1, <4>1, <4>2 DEF Stream
      <4>. QED  BY <1>6, <4>2, <4>3
    <3>. QED  BY <1>7, <3>1, <3>2 DEF Carries
  <2>. QED  BY <1>4, <2>1, <2>3, <2>4 DEF t, m, one
<1>10. CASE m \notin mine
  <2>1. Carries(one, mine, at, places, lo, lo)
    <3>1. \A i \in places : ~(lo < i /\ i <= lo)
      BY <1>4
    <3>. QED  BY <1>2, <1>3, <1>8, <1>10, <3>1 DEF Carries
  <2>2. Carries(t, mine, at, places, lo, hi)
    <3>1. \A k \in 1..Len(t) : t[k] \in mine => \E i \in places : lo < i /\ i <= hi /\ t[k] = at[i]
      BY <1>1, <1>5 DEF Carries
    <3>2. ASSUME NEW i \in places, lo < i, i <= hi
          PROVE  \E k \in 1..Len(t) : t[k] = at[i]
      <4>1. PICK k \in 1..Len(q) : q[k] = at[i]
        BY <3>2 DEF Carries
      <4>2. k # 1
        BY <1>1, <1>10, <4>1 DEF Stream
      <4>. QED  BY <1>6, <4>1, <4>2
    <3>. QED  BY <1>7, <3>1, <3>2 DEF Carries
  <2>3. lo <= lo
    OBVIOUS
  <2>. QED  BY <2>1, <2>2, <2>3 DEF t, m, one
<1>. QED  BY <1>9, <1>10

\* What is not mine carries nothing.
LEMMA CarriesForeign ==
    ASSUME NEW items, NEW mine, NEW at, NEW places, Stream(mine, at, places), NEW hi \in Nat,
           \A k \in 1..Len(items) : items[k] \notin mine
    PROVE  Carries(items, mine, at, places, hi, hi)
<1>1. \A i \in places : ~(hi < i /\ i <= hi)
  BY DEF Stream
<1>. QED  BY <1>1 DEF Carries, Stream

LEMMA ForeignCarries ==
    ASSUME NEW items, NEW mine, NEW at, NEW places, Stream(mine, at, places), NEW lo, NEW hi,
           \A k \in 1..Len(items) : items[k] \notin mine, Carries(items, mine, at, places, lo, hi)
    PROVE  Carries(<<>>, mine, at, places, lo, hi)
<1>1. \A k \in 1..Len(<<>>) : FALSE
  OBVIOUS
<1>2. \A i \in places : ~(lo < i /\ i <= hi)
  BY DEF Carries, Stream
<1>. QED  BY <1>1, <1>2 DEF Carries

\* The next chunk is published, or it is equal to one before it.
LEMMA CarriesNext ==
    ASSUME NEW mine, NEW at, NEW places, Stream(mine, at, places), NEW n \in Nat
    PROVE  /\ n + 1 \in places => Carries(<<at[n + 1]>>, mine, at, places, n, n + 1)
           /\ n + 1 \notin places => Carries(<<>>, mine, at, places, n, n + 1)
<1>. DEFINE m == at[n + 1]  one == <<m>>
<1>1. Len(one) = 1 /\ one[1] = m /\ 1..1 = {1}
  OBVIOUS
<1>. HIDE DEF m, one
<1>2. \A i \in places : n < i /\ i <= n + 1 <=> i = n + 1
  BY DEF Stream
<1>3. \A k, l \in 1..1 : ~(k < l)
  BY <1>1
<1>4. n + 1 \in places => Carries(one, mine, at, places, n, n + 1)
  BY <1>1, <1>2, <1>3 DEF Carries, m
<1>5. \A k \in 1..Len(<<>>) : FALSE
  OBVIOUS
<1>6. n + 1 \notin places => Carries(<<>>, mine, at, places, n, n + 1)
  BY <1>2, <1>5 DEF Carries
<1>. QED  BY <1>4, <1>6 DEF m, one

CollapsedRound(tokens, kept, i) ==
    IF i = 0 THEN <<>>
    ELSE IF ComesThrough(tokens, i) THEN Append(kept[i - 1], tokens[i]) ELSE kept[i - 1]

LEMMA CollapsedExists ==
    ASSUME NEW tokens, NEW n \in Nat
    PROVE  \E kept : kept = [i \in 0..n |-> CollapsedRound(tokens, kept, i)]
<1>. DEFINE Built(m) == \E kept : kept = [i \in 0..m |-> CollapsedRound(tokens, kept, i)]
            T == {m \in Nat : Built(m)}
<1>1. 0 \in T
  <2>. DEFINE kept == [i \in 0..0 |-> <<>>]
  <2>1. \A i \in 0..0 : CollapsedRound(tokens, kept, i) = <<>>
    BY DEF CollapsedRound
  <2>2. kept = [i \in 0..0 |-> CollapsedRound(tokens, kept, i)]
    BY <2>1
  <2>. QED  BY <2>2
<1>2. ASSUME NEW m \in Nat, m \in T
      PROVE  m + 1 \in T
  <2>1. PICK old : old = [i \in 0..m |-> CollapsedRound(tokens, old, i)]
    BY <1>2
  <2>. DEFINE kept == [i \in 0..(m + 1) |-> IF i = m + 1 THEN CollapsedRound(tokens, old, i) ELSE old[i]]
  <2>2. \A i \in 0..m : kept[i] = old[i] /\ old[i] = CollapsedRound(tokens, old, i)
    BY <2>1
  <2>3. \A i \in 0..(m + 1) : i = 0 \/ i - 1 \in 0..m
    OBVIOUS
  <2>4. \A i \in 0..(m + 1) : kept[i] = CollapsedRound(tokens, old, i)
    <3>1. \A i \in 0..(m + 1) : i = m + 1 \/ i \in 0..m
      OBVIOUS
    <3>. QED  BY <2>2, <3>1
  <2>5. kept = [i \in 0..(m + 1) |-> kept[i]]
    OBVIOUS
  <2>. HIDE DEF kept
  <2>6. \A i \in 0..(m + 1) : CollapsedRound(tokens, kept, i) = CollapsedRound(tokens, old, i)
    BY <2>2, <2>3 DEF CollapsedRound
  <2>7. kept = [i \in 0..(m + 1) |-> CollapsedRound(tokens, kept, i)]
    BY <2>4, <2>5, <2>6
  <2>. QED  BY <2>7
<1>. HIDE DEF T
<1>3. n \in T
  BY <1>1, <1>2, SetInduction
<1>. QED  BY <1>3 DEF T

\* What Collapsed keeps is what is at the places that come through: any enumeration of them in
\* their order gives it.
\* What is at the first m of the places.
Picks(tokens, place, m) == [k \in 1..m |-> tokens[place[k]]]

LEMMA CollapsedPlaces ==
    ASSUME NEW tokens, Len(tokens) \in Nat, NEW m \in Nat, NEW place,
           \A k \in 1..m : place[k] \in 1..Len(tokens) /\ ComesThrough(tokens, place[k]),
           \A k, l \in 1..m : k < l => place[k] < place[l],
           \A i \in 1..Len(tokens) : ComesThrough(tokens, i) => \E k \in 1..m : place[k] = i
    PROVE  Collapsed(tokens) = Picks(tokens, place, m)
<1>. DEFINE F == CHOOSE kept : kept = [i \in 0..Len(tokens) |-> CollapsedRound(tokens, kept, i)]
<1>1. F = [i \in 0..Len(tokens) |-> CollapsedRound(tokens, F, i)]
  BY CollapsedExists
<1>2. Collapsed(tokens) = F[Len(tokens)]
  BY DEF Collapsed, CollapsedRound
<1>. HIDE DEF F
<1>3. \A i \in 0..Len(tokens) : F[i] = CollapsedRound(tokens, F, i)
  BY <1>1
<1>. DEFINE Picked(c) == [k \in 1..c |-> tokens[place[k]]]
            Good(i) == \E c \in 0..m : F[i] = Picked(c) /\ \A k \in 1..m : place[k] <= i <=> k <= c
            T == {i \in Nat : i <= Len(tokens) => Good(i)}
<1>4. 0 \in T
  <2>1. F[0] = <<>>
    BY <1>3 DEF CollapsedRound
  <2>2. Picked(0) = <<>>
    OBVIOUS
  <2>3. \A k \in 1..m : ~(place[k] <= 0) /\ ~(k <= 0)
    OBVIOUS
  <2>. HIDE DEF Picked
  <2>4. Good(0)
    BY <2>1, <2>2, <2>3
  <2>. HIDE DEF Good
  <2>. QED  BY <2>4
<1>5. ASSUME NEW i \in Nat, i \in T
      PROVE  i + 1 \in T
  <2>. HIDE DEF Good
  <2>. SUFFICES ASSUME i + 1 <= Len(tokens) PROVE Good(i + 1)
    OBVIOUS
  <2>1. Good(i)
    BY <1>5
  <2>. USE DEF Good
  <2>. HIDE DEF Picked
  <2>2. PICK c \in 0..m : F[i] = Picked(c) /\ \A k \in 1..m : place[k] <= i <=> k <= c
    BY <2>1
  <2>3. F[i + 1] = IF ComesThrough(tokens, i + 1) THEN Append(F[i], tokens[i + 1]) ELSE F[i]
    <3>1. i + 1 \in 0..Len(tokens) /\ i + 1 # 0 /\ (i + 1) - 1 = i
      OBVIOUS
    <3>. QED  BY <1>3, <3>1 DEF CollapsedRound
  <2>4. CASE ~ComesThrough(tokens, i + 1)
    <3>1. \A k \in 1..m : place[k] # i + 1 /\ place[k] \in Int
      BY <2>4
    <3>2. \A k \in 1..m : place[k] <= i + 1 <=> place[k] <= i
      BY <3>1
    <3>3. F[i + 1] = Picked(c)
      BY <2>2, <2>3, <2>4
    <3>. QED  BY <2>2, <3>2, <3>3
  <2>5. CASE ComesThrough(tokens, i + 1)
    <3>1. PICK l \in 1..m : place[l] = i + 1
      BY <2>5
    <3>2. ~(l <= c)
      BY <2>2, <3>1
    <3>3. l = c + 1
      <4>. SUFFICES ASSUME l # c + 1 PROVE FALSE
        OBVIOUS
      <4>1. c + 1 \in 1..m /\ c + 1 < l /\ ~(c + 1 <= c)
        BY <3>2
      <4>2. place[c + 1] < i + 1 /\ place[c + 1] \in Int
        BY <3>1, <4>1
      <4>3. place[c + 1] <= i
        BY <4>2
      <4>. QED  BY <2>2, <4>1, <4>3
    <3>4. c + 1 \in 0..m /\ place[c + 1] = i + 1
      BY <3>1, <3>3
    <3>5. ASSUME NEW k \in 1..m PROVE place[k] <= i + 1 <=> k <= c + 1
      <4>1. CASE k <= c
        <5>1. place[k] <= i /\ place[k] \in Int
          BY <2>2, <4>1
        <5>. QED  BY <4>1, <5>1
      <4>2. CASE k = c + 1
        BY <3>4, <4>2
      <4>3. CASE c + 1 < k
        <5>1. place[c + 1] < place[k] /\ place[k] \in Int
          BY <3>1, <3>3, <4>3
        <5>. QED  BY <3>4, <4>3, <5>1
      <4>. QED  BY <4>1, <4>2, <4>3
    <3>6. Append(Picked(c), tokens[i + 1]) = Picked(c + 1)
      BY <3>4 DEF Picked
    <3>7. F[i + 1] = Picked(c + 1)
      BY <2>2, <2>3, <2>5, <3>6
    <3>. QED  BY <3>4, <3>5, <3>7
  <2>. QED  BY <2>4, <2>5
<1>. HIDE DEF T
<1>6. Len(tokens) \in T
  BY <1>4, <1>5, SetInduction
<1>. USE DEF T
<1>. HIDE DEF Picked
<1>7. PICK c \in 0..m : F[Len(tokens)] = Picked(c) /\ \A k \in 1..m : place[k] <= Len(tokens) <=> k <= c
  BY <1>6
<1>8. c = m
  <2>1. ASSUME m \in 1..m PROVE m <= c
    <3>1. place[m] <= Len(tokens)
      BY <2>1
    <3>. QED  BY <1>7, <2>1, <3>1
  <2>. QED  BY <2>1
<1>. QED  BY <1>2, <1>7, <1>8 DEF Picked, Picks

LEMMA ChunkFields ==
    ASSUME NEW r, NEW token, NEW last
    PROVE  /\ Chunk(r, token, last).kind = "chunk" /\ Chunk(r, token, last).req = r
           /\ Chunk(r, token, last).topic = "any" /\ Chunk(r, token, last).error = FALSE
           /\ Chunk(r, token, last).token = token /\ Chunk(r, token, last).last = last
  BY DEF Chunk

LEMMA TokensStream ==
    ASSUME NEW r \in Requests, NEW tokens \in Seq(Tokens)
    PROVE  Stream(ChunksOf(r), ChunkAt(r, tokens), Places(tokens))
<1>1. Len(tokens) \in Nat /\ \A i \in 1..Len(tokens) : tokens[i] \in Tokens
  OBVIOUS
<1>2. \A i \in 1..Len(tokens) : ChunkAt(r, tokens)[i] = Chunk(r, tokens[i], i = Len(tokens))
  BY DEF ChunkAt
<1>3. Places(tokens) \subseteq Nat /\ Places(tokens) \subseteq 1..Len(tokens)
  BY <1>1 DEF Places
<1>4. \A i \in Places(tokens) : ChunkAt(r, tokens)[i] \in ChunksOf(r)
  <2>. SUFFICES ASSUME NEW i \in Places(tokens) PROVE ChunkAt(r, tokens)[i] \in ChunksOf(r)
    OBVIOUS
  <2>. DEFINE last == i = Len(tokens)
  <2>1. ChunkAt(r, tokens)[i] = Chunk(r, tokens[i], last) /\ tokens[i] \in Tokens /\ last \in BOOLEAN
    BY <1>1, <1>2, <1>3
  <2>. HIDE DEF last
  <2>2. Chunk(r, tokens[i], last) \in Chunks
    BY <2>1, MessageTypes
  <2>3. Chunk(r, tokens[i], last).req = r
    BY DEF Chunk
  <2>. QED  BY <2>1, <2>2, <2>3 DEF ChunksOf
<1>5. ASSUME NEW i \in Places(tokens), NEW j \in Places(tokens), ChunkAt(r, tokens)[i] = ChunkAt(r, tokens)[j], i < j
      PROVE  FALSE
  <2>. DEFINE last(k) == k = Len(tokens)
  <2>5. /\ ChunkAt(r, tokens)[i] = Chunk(r, tokens[i], last(i))
        /\ ChunkAt(r, tokens)[j] = Chunk(r, tokens[j], last(j))
    BY <1>2, <1>3
  <2>6. tokens[i] = tokens[j] /\ last(i) = last(j)
    <3>. HIDE DEF last
    <3>1. Chunk(r, tokens[i], last(i)).token = tokens[i] /\ Chunk(r, tokens[j], last(j)).token = tokens[j]
      BY DEF Chunk
    <3>2. Chunk(r, tokens[i], last(i)).last = last(i) /\ Chunk(r, tokens[j], last(j)).last = last(j)
      BY DEF Chunk
    <3>. QED  BY <1>5, <2>5, <3>1, <3>2
  <2>1. tokens[i] = tokens[j] /\ (i = Len(tokens) <=> j = Len(tokens))
    BY <2>6
  <2>2. i \in 1..Len(tokens) /\ j \in 1..Len(tokens)
    BY <1>3
  <2>3. j # Len(tokens)
    BY <1>1, <1>5, <2>1, <2>2
  <2>4. i \in 1..j - 1
    BY <1>1, <1>5, <2>2
  <2>. QED  BY <2>1, <2>3, <2>4 DEF Places, ComesThrough
<1>6. \A i, j \in Places(tokens) : ChunkAt(r, tokens)[i] = ChunkAt(r, tokens)[j] => i = j
  <2>. SUFFICES ASSUME NEW i \in Places(tokens), NEW j \in Places(tokens), ChunkAt(r, tokens)[i] = ChunkAt(r, tokens)[j], i # j
                PROVE  FALSE
    OBVIOUS
  <2>1. i < j \/ j < i
    BY <1>3
  <2>. QED  BY <1>5, <2>1
<1>. QED  BY <1>3, <1>4, <1>6 DEF Stream

\* The lemmas above, for the chunks of a request.
LEMMA BringsConcat ==
    ASSUME NEW r \in Requests, NEW tokens \in Seq(Tokens), NEW p \in Seq(Items), NEW q \in Seq(Items),
           NEW lo \in Nat, NEW mid \in Nat, NEW hi \in Nat, lo <= mid, mid <= hi,
           Brings(r, tokens, p, lo, mid), Brings(r, tokens, q, mid, hi)
    PROVE  Brings(r, tokens, p \o q, lo, hi)
  BY TokensStream, CarriesConcat DEF Brings

LEMMA BringsPop ==
    ASSUME NEW r \in Requests, NEW tokens \in Seq(Tokens), NEW q \in Seq(Items), q # <<>>,
           NEW lo \in Nat, NEW hi \in Nat, lo <= hi, Brings(r, tokens, q, lo, hi)
    PROVE  \E mid \in Nat : /\ lo <= mid /\ mid <= hi
                            /\ Brings(r, tokens, <<Head(q)>>, lo, mid) /\ Brings(r, tokens, Tail(q), mid, hi)
  BY TokensStream, CarriesPop DEF Brings

LEMMA BringsForeign ==
    ASSUME NEW r \in Requests, NEW tokens \in Seq(Tokens), NEW items, NEW hi \in Nat,
           \A k \in 1..Len(items) : items[k] \notin ChunksOf(r)
    PROVE  Brings(r, tokens, items, hi, hi)
  BY TokensStream, CarriesForeign DEF Brings

LEMMA BringsNothing ==
    ASSUME NEW r \in Requests, NEW tokens \in Seq(Tokens), NEW hi \in Nat
    PROVE  Brings(r, tokens, <<>>, hi, hi)
<1>1. \A k \in 1..Len(<<>>) : <<>>[k] \notin ChunksOf(r)
  OBVIOUS
<1>. QED  BY <1>1, BringsForeign

LEMMA ForeignBrings ==
    ASSUME NEW r \in Requests, NEW tokens \in Seq(Tokens), NEW m, m \notin ChunksOf(r), NEW lo, NEW hi,
           Brings(r, tokens, <<m>>, lo, hi)
    PROVE  Brings(r, tokens, <<>>, lo, hi)
<1>. DEFINE one == <<m>>
<1>1. \A k \in 1..Len(one) : one[k] \notin ChunksOf(r)
  OBVIOUS
<1>. HIDE DEF one
<1>2. Carries(one, ChunksOf(r), ChunkAt(r, tokens), Places(tokens), lo, hi)
  BY DEF Brings, one
<1>. QED  BY <1>1, <1>2, TokensStream, ForeignCarries DEF Brings

\* Nothing was published, so there is nothing of it.
LEMMA NothingBrought ==
    ASSUME NEW r \in Requests, NEW tokens \in Seq(Tokens), NEW items, NEW lo \in Nat, Brings(r, tokens, items, lo, 0)
    PROVE  \A k \in 1..Len(items) : items[k] \notin ChunksOf(r)
<1>1. \A i \in Places(tokens) : ~(i <= 0)
  BY DEF Places
<1>. QED  BY <1>1 DEF Brings, Carries

LEMMA BroughtOnce ==
    ASSUME NEW r \in Requests, NEW tokens \in Seq(Tokens), NEW q \in Seq(Items), q # <<>>,
           NEW lo, NEW hi, Brings(r, tokens, q, lo, hi), Head(q) \in ChunksOf(r)
    PROVE  ~IsIn(Head(q), Tail(q))
<1>. DEFINE t == Tail(q)
<1>1. /\ t \in Seq(Items) /\ Len(q) \in Nat \ {0} /\ Len(t) = Len(q) - 1 /\ Head(q) = q[1]
      /\ \A k \in 1..Len(t) : t[k] = q[k + 1]
  BY HeadTailProperties, EmptySeq, TailTypes
<1>. HIDE DEF t
<1>. SUFFICES ASSUME NEW k \in 1..Len(t), t[k] = q[1] PROVE FALSE
  BY <1>1 DEF IsIn, t
<1>2. 1 \in 1..Len(q) /\ k + 1 \in 1..Len(q) /\ 1 < k + 1 /\ q[k + 1] = q[1]
  BY <1>1
<1>3. PICK i \in Places(tokens) : q[1] = ChunkAt(r, tokens)[i]
  BY <1>1, <1>2 DEF Brings, Carries
<1>4. i < i
  BY <1>2, <1>3 DEF Brings, Carries
<1>5. i \in Int
  BY DEF Places
<1>. QED  BY <1>4, <1>5

LEMMA InTail ==
    ASSUME NEW S, NEW q \in Seq(S), q # <<>>
    PROVE  IsIn(Head(q), q) /\ \A x : IsIn(x, Tail(q)) => IsIn(x, q)
<1>. DEFINE t == Tail(q)
<1>1. /\ t \in Seq(S) /\ Len(q) \in Nat \ {0} /\ Len(t) = Len(q) - 1 /\ Head(q) = q[1]
      /\ \A k \in 1..Len(t) : t[k] = q[k + 1]
  BY HeadTailProperties, EmptySeq, TailTypes
<1>. HIDE DEF t
<1>2. 1 \in 1..Len(q) /\ \A k \in 1..Len(t) : k + 1 \in 1..Len(q)
  BY <1>1
<1>. QED  BY <1>1, <1>2 DEF IsIn, t

LEMMA InConcat ==
    ASSUME NEW S, NEW p \in Seq(S), NEW q \in Seq(S), NEW x, IsIn(x, p \o q)
    PROVE  IsIn(x, p) \/ IsIn(x, q)
<1>. DEFINE u == p \o q
<1>1. /\ Len(p) \in Nat /\ Len(q) \in Nat /\ Len(u) = Len(p) + Len(q)
      /\ \A k \in 1..Len(p) + Len(q) : u[k] = IF k <= Len(p) THEN p[k] ELSE q[k - Len(p)]
  BY ConcatProperties, LenProperties
<1>2. PICK k \in 1..Len(u) : u[k] = x
  BY DEF IsIn
<1>. HIDE DEF u
<1>3. CASE k <= Len(p)
  <2>1. k \in 1..Len(p)
    BY <1>1, <1>3
  <2>. QED  BY <1>1, <1>2, <1>3, <2>1 DEF IsIn
<1>4. CASE ~(k <= Len(p))
  <2>1. k - Len(p) \in 1..Len(q) /\ k \in 1..Len(p) + Len(q)
    BY <1>1, <1>4
  <2>. QED  BY <1>1, <1>2, <1>4, <2>1 DEF IsIn
<1>. QED  BY <1>3, <1>4

\* The swarm task hands an event on,
LEMMA WaySends ==
    ASSUME NEW r \in Requests, NEW tokens \in Seq(Tokens), NEW a, NEW top, NEW waiting,
           NEW queued \in Seq(Items), NEW held \in Seq(Items), NEW flying,
           Way(r, tokens, a, waiting, queued, held, flying, top)
    PROVE  Way(r, tokens, a, waiting, queued \o held, <<>>, flying, top)
<1>1. PICK x, e, s \in Nat :
        /\ Brings(r, tokens, waiting, a, x) /\ Brings(r, tokens, queued, x, e)
        /\ Brings(r, tokens, held, e, s) /\ Brings(r, tokens, flying, s, top)
        /\ a <= x /\ x <= e /\ e <= s /\ s <= top
  BY DEF Way
<1>2. Brings(r, tokens, queued \o held, x, s)
  BY <1>1, BringsConcat
<1>3. Brings(r, tokens, <<>>, s, s)
  BY BringsNothing
<1>4. x <= s /\ s <= s
  BY <1>1
<1>. QED  BY <1>1, <1>2, <1>3, <1>4 DEF Way

\* takes a message and keeps it, or drops what is of no request,
LEMMA WayDelivers ==
    ASSUME NEW r \in Requests, NEW tokens \in Seq(Tokens), NEW a, NEW top \in Nat, NEW waiting,
           NEW queued, NEW held, NEW flying \in Seq(Items), flying # <<>>,
           Way(r, tokens, a, waiting, queued, <<>>, flying, top),
           held = <<Head(flying)>> \/ (held = <<>> /\ Head(flying) \notin ChunksOf(r))
    PROVE  Way(r, tokens, a, waiting, queued, held, Tail(flying), top)
<1>1. PICK x, e, s \in Nat :
        /\ Brings(r, tokens, waiting, a, x) /\ Brings(r, tokens, queued, x, e)
        /\ Brings(r, tokens, <<>>, e, s) /\ Brings(r, tokens, flying, s, top)
        /\ a <= x /\ x <= e /\ e <= s /\ s <= top
  BY DEF Way
<1>. DEFINE m == Head(flying)  rest == Tail(flying)  one == <<m>>
<1>2. m \in Items /\ one \in Seq(Items) /\ <<>> \in Seq(Items) /\ <<>> \o one = one /\ <<>> \o <<>> = <<>>
  BY TailTypes
<1>3. PICK t \in Nat : s <= t /\ t <= top /\ Brings(r, tokens, one, s, t) /\ Brings(r, tokens, rest, t, top)
  BY <1>1, BringsPop
<1>4. Brings(r, tokens, held, s, t)
  <2>1. CASE held = <<Head(flying)>>
    BY <1>3, <2>1
  <2>2. CASE held = <<>> /\ m \notin ChunksOf(r)
    BY <1>3, <2>2, ForeignBrings
  <2>. QED  BY <2>1, <2>2
<1>5. held \in Seq(Items) /\ <<>> \o held = held
  BY <1>2
<1>. HIDE DEF m, rest, one
<1>6. Brings(r, tokens, <<>> \o held, e, t)
  <2>1. <<>> \in Seq(Items)
    BY <1>2
  <2>. QED  BY <1>1, <1>3, <1>4, <1>5, <2>1, BringsConcat
<1>7. e <= t
  BY <1>1, <1>3
<1>. QED  BY <1>1, <1>3, <1>5, <1>6, <1>7 DEF Way, rest

\* or reports something else.
LEMMA WayOther ==
    ASSUME NEW r \in Requests, NEW tokens \in Seq(Tokens), NEW a, NEW top, NEW waiting, NEW queued, NEW flying,
           NEW m \in Items, m \notin ChunksOf(r), Way(r, tokens, a, waiting, queued, <<>>, flying, top)
    PROVE  Way(r, tokens, a, waiting, queued, <<m>>, flying, top)
<1>1. PICK x, e, s \in Nat :
        /\ Brings(r, tokens, waiting, a, x) /\ Brings(r, tokens, queued, x, e)
        /\ Brings(r, tokens, <<>>, e, s) /\ Brings(r, tokens, flying, s, top)
        /\ a <= x /\ x <= e /\ e <= s /\ s <= top
  BY DEF Way
<1>. DEFINE one == <<m>>
<1>2. one \in Seq(Items) /\ <<>> \in Seq(Items) /\ <<>> \o one = one /\ \A k \in 1..Len(one) : one[k] \notin ChunksOf(r)
  OBVIOUS
<1>. HIDE DEF one
<1>3. Brings(r, tokens, one, s, s) /\ s <= s
  BY <1>2, BringsForeign
<1>4. Brings(r, tokens, <<>> \o one, e, s)
  BY <1>1, <1>2, <1>3, BringsConcat
<1>. QED  BY <1>1, <1>2, <1>4 DEF Way, one

\* The event loop takes an event, which goes to the handler if it is a chunk of the request.
LEMMA WayPops ==
    ASSUME NEW r \in Requests, NEW tokens \in Seq(Tokens), NEW a \in Nat, NEW top, NEW waiting \in Seq(Items), NEW after,
           NEW queued \in Seq(Items), queued # <<>>, NEW held, NEW flying,
           Way(r, tokens, a, waiting, queued, held, flying, top),
           after = Append(waiting, Head(queued)) \/ (after = waiting /\ Head(queued) \notin ChunksOf(r))
    PROVE  Way(r, tokens, a, after, Tail(queued), held, flying, top)
<1>1. PICK x, e, s \in Nat :
        /\ Brings(r, tokens, waiting, a, x) /\ Brings(r, tokens, queued, x, e)
        /\ Brings(r, tokens, held, e, s) /\ Brings(r, tokens, flying, s, top)
        /\ a <= x /\ x <= e /\ e <= s /\ s <= top
  BY DEF Way
<1>. DEFINE m == Head(queued)  rest == Tail(queued)  one == <<m>>
<1>2. m \in Items /\ one \in Seq(Items) /\ <<>> \in Seq(Items)
  BY TailTypes
<1>3. PICK t \in Nat : x <= t /\ t <= e /\ Brings(r, tokens, one, x, t) /\ Brings(r, tokens, rest, t, e)
  BY <1>1, BringsPop
<1>4. PICK more \in Seq(Items) : after = waiting \o more /\ Brings(r, tokens, more, x, t)
  <2>1. CASE after = Append(waiting, m)
    <3>1. after = waiting \o one
      BY <1>2, <2>1, AppendIsConcat
    <3>. QED  BY <1>2, <1>3, <3>1
  <2>2. CASE after = waiting /\ m \notin ChunksOf(r)
    <3>1. waiting \o <<>> = waiting
      BY ConcatEmptySeq
    <3>2. Brings(r, tokens, <<>>, x, t)
      BY <1>3, <2>2, ForeignBrings
    <3>. QED  BY <1>2, <2>2, <3>1, <3>2
  <2>. QED  BY <2>1, <2>2
<1>. HIDE DEF m, rest, one
<1>5. Brings(r, tokens, after, a, t)
  BY <1>1, <1>3, <1>4, BringsConcat
<1>6. a <= t
  BY <1>1, <1>3
<1>. QED  BY <1>1, <1>3, <1>5, <1>6 DEF Way, rest

\* The handler takes a chunk.
LEMMA WayReceives ==
    ASSUME NEW r \in Requests, NEW tokens \in Seq(Tokens), NEW a \in Nat, NEW top \in Nat, a <= top,
           NEW waiting \in Seq(Items), waiting # <<>>, NEW text \in Seq(Items), NEW queued, NEW held, NEW flying,
           Brings(r, tokens, text, 0, a), Way(r, tokens, a, waiting, queued, held, flying, top)
    PROVE  \E b \in Nat : /\ b <= top /\ Brings(r, tokens, Append(text, Head(waiting)), 0, b)
                          /\ Way(r, tokens, b, Tail(waiting), queued, held, flying, top)
<1>1. PICK x, e, s \in Nat :
        /\ Brings(r, tokens, waiting, a, x) /\ Brings(r, tokens, queued, x, e)
        /\ Brings(r, tokens, held, e, s) /\ Brings(r, tokens, flying, s, top)
        /\ a <= x /\ x <= e /\ e <= s /\ s <= top
  BY DEF Way
<1>. DEFINE m == Head(waiting)  rest == Tail(waiting)  one == <<m>>
<1>2. m \in Items /\ one \in Seq(Items)
  BY TailTypes
<1>3. PICK b \in Nat : a <= b /\ b <= x /\ Brings(r, tokens, one, a, b) /\ Brings(r, tokens, rest, b, x)
  BY <1>1, BringsPop
<1>4. Append(text, m) = text \o one
  BY <1>2, AppendIsConcat
<1>. HIDE DEF m, rest, one
<1>5. Brings(r, tokens, text \o one, 0, b)
  <2>1. 0 \in Nat /\ 0 <= a
    OBVIOUS
  <2>. QED  BY <1>2, <1>3, <2>1, BringsConcat
<1>6. Way(r, tokens, b, rest, queued, held, flying, top)
  BY <1>1, <1>3 DEF Way
<1>7. b <= top
  BY <1>1, <1>3
<1>. QED  BY <1>4, <1>5, <1>6, <1>7 DEF m, rest

\* Something else is published, or the next chunk is.
LEMMA WayGrows ==
    ASSUME NEW r \in Requests, NEW tokens \in Seq(Tokens), NEW a, NEW top \in Nat, NEW next \in Nat, top <= next,
           NEW waiting, NEW queued, NEW held, NEW flying \in Seq(Items), NEW more \in Seq(Items),
           Way(r, tokens, a, waiting, queued, held, flying, top), Brings(r, tokens, more, top, next)
    PROVE  Way(r, tokens, a, waiting, queued, held, flying \o more, next)
<1>1. PICK x, e, s \in Nat :
        /\ Brings(r, tokens, waiting, a, x) /\ Brings(r, tokens, queued, x, e)
        /\ Brings(r, tokens, held, e, s) /\ Brings(r, tokens, flying, s, top)
        /\ a <= x /\ x <= e /\ e <= s /\ s <= top
  BY DEF Way
<1>2. Brings(r, tokens, flying \o more, s, next)
  BY <1>1, BringsConcat
<1>3. s <= next
  BY <1>1
<1>. QED  BY <1>1, <1>2, <1>3 DEF Way

\* While nothing has been published, it does not matter what will be.
LEMMA NothingBrings ==
    ASSUME NEW r \in Requests, NEW tokens \in Seq(Tokens), NEW next \in Seq(Tokens), NEW items,
           Brings(r, tokens, items, 0, 0)
    PROVE  Brings(r, next, items, 0, 0)
<1>1. 0 \in Nat
  OBVIOUS
<1>. QED  BY <1>1, NothingBrought, BringsForeign

LEMMA WayBegins ==
    ASSUME NEW r \in Requests, NEW tokens \in Seq(Tokens), NEW next \in Seq(Tokens), NEW waiting, NEW queued, NEW held, NEW flying,
           Way(r, tokens, 0, waiting, queued, held, flying, 0)
    PROVE  Way(r, next, 0, waiting, queued, held, flying, 0)
<1>1. PICK x, e, s \in Nat :
        /\ Brings(r, tokens, waiting, 0, x) /\ Brings(r, tokens, queued, x, e)
        /\ Brings(r, tokens, held, e, s) /\ Brings(r, tokens, flying, s, 0)
        /\ 0 <= x /\ x <= e /\ e <= s /\ s <= 0
  BY DEF Way
<1>2. x = 0 /\ e = 0 /\ s = 0
  BY <1>1
<1>3. /\ Brings(r, next, waiting, 0, 0) /\ Brings(r, next, queued, 0, 0)
      /\ Brings(r, next, held, 0, 0) /\ Brings(r, next, flying, 0, 0)
  BY <1>1, <1>2, NothingBrings
<1>. QED  BY <1>3 DEF Way


LEMMA AnswerTypes ==
    ASSUME InferenceTypes, NEW r \in Requests
    PROVE  /\ home[r] \in Nodes /\ target[r] \in Nodes
           /\ run[r].tokens \in Seq(Tokens) /\ run[r].sent \in Nat /\ Reached(r) \in Nat
           /\ rx[r] \in Seq(Items) /\ answer[r] \in Seq(Items)
           /\ \A n \in Nodes : events[n] \in Seq(Items) /\ sending[n] \in Seq(Items) /\ inFlight[n] \in Seq(Items)
<1>1. Chunks \subseteq Items /\ Messages \union Chunks \subseteq Items
  BY DEF Items
<1>2. home[r] \in Nodes /\ target[r] \in Nodes /\ rx[r] \in Seq(Chunks) /\ answer[r] \in Seq(Chunks)
  BY DEF InferenceTypes, HandlerTypes, ChunkTypes
<1>3. run[r].tokens \in Seq(Tokens) /\ run[r].sent \in Nat
  BY DEF InferenceTypes, RunTypes, Executions
<1>4. rx[r] \in Seq(Items) /\ answer[r] \in Seq(Items)
  BY <1>1, <1>2, SeqMonotonic
<1>5. ASSUME NEW n \in Nodes
      PROVE  events[n] \in Seq(Items) /\ sending[n] \in Seq(Items) /\ inFlight[n] \in Seq(Items)
  <2>1. inFlight[n] \in Seq(Messages \union Chunks) /\ events[n] \in Seq(Items) /\ sending[n] \in Seq(Items)
    BY DEF InferenceTypes, NetworkTypes, NodeTypes
  <2>. QED  BY <1>1, <2>1, SeqMonotonic
<1>. QED  BY <1>2, <1>3, <1>4, <1>5 DEF Reached

LEMMA ForeignItems ==
    ASSUME NEW r \in Requests
    PROVE  /\ \A q, topic : Request(q, topic) \notin ChunksOf(r)
           /\ Other \notin ChunksOf(r)
           /\ \A m : m.kind # "chunk" \/ m.req # r => m \notin ChunksOf(r)
  BY DEF Request, Other, ChunksOf, Chunks

\* A chunk on its way through a node has been published.
LEMMA NothingOnTheWay ==
    ASSUME NEW r \in Requests, NEW tokens \in Seq(Tokens), NEW a, NEW waiting, NEW queued, NEW held, NEW flying,
           Way(r, tokens, a, waiting, queued, held, flying, 0)
    PROVE  /\ \A k \in 1..Len(queued) : queued[k] \notin ChunksOf(r)
           /\ \A k \in 1..Len(flying) : flying[k] \notin ChunksOf(r)
<1>1. PICK x, e, s \in Nat :
          /\ Brings(r, tokens, queued, x, e) /\ Brings(r, tokens, flying, s, 0)
          /\ x <= e /\ e <= s /\ s <= 0
  BY DEF Way
<1>2. e = 0
  BY <1>1
<1>3. Brings(r, tokens, queued, x, 0)
  BY <1>1, <1>2
<1>. QED  BY <1>1, <1>3, NothingBrought

\* Nothing is known of the chunks of a request that was not known, or of the request.
LEMMA PublishedKept ==
    ASSUME NEW r \in Requests, PublishedInv(r), UNCHANGED <<target, run[r]>>,
           seen[target[r]] \subseteq seen'[target[r]],
           \A n \in Nodes, m \in ChunksOf(r) :
               m \in seen'[n] \/ IsIn(m, inFlight'[n]) => m \in seen[n] \/ IsIn(m, inFlight[n]),
           pc'[r] = "idle" => /\ pc[r] = "idle"
                              /\ \A n \in Nodes : LET m == Request(r, "any") IN
                                     m \in seen'[n] \/ IsIn(m, inFlight'[n]) => m \in seen[n] \/ IsIn(m, inFlight[n])
    PROVE  PublishedInv(r)'
<1>1. UpTo(r)' = UpTo(r)
  BY DEF UpTo
<1>2. UpTo(r)' \subseteq seen'[target'[r]]
  BY <1>1 DEF PublishedInv
<1>3. \A n \in Nodes : \A m \in ChunksOf(r) : m \in seen'[n] \/ IsIn(m, inFlight'[n]) => m \in UpTo(r)'
  BY <1>1 DEF PublishedInv
<1>4. pc'[r] = "idle" => \A n \in Nodes : Request(r, "any") \notin seen'[n] /\ ~IsIn(Request(r, "any"), inFlight'[n])
  BY DEF PublishedInv
<1>5. run'[r].sent <= Len(run'[r].tokens) /\ (run'[r].at = "none" => run'[r].sent = 0)
  BY DEF PublishedInv
<1>. QED  BY <1>2, <1>3, <1>4, <1>5 DEF PublishedInv, IsIn, ChunksOf

\* What a request has received, and is to receive, stays as it is.
LEMMA FlowKept ==
    ASSUME NEW r \in Requests, FlowInv(r), UNCHANGED <<home, target, run[r], rx[r], answer[r]>>,
           UNCHANGED <<events[home[r]], sending[home[r]], inFlight[home[r]]>>,
           r \in overflown => r \in overflown',
           \A m \in ChunksOf(r) : m \in seen'[home[r]] => m \in seen[home[r]],
           Awaiting(r)' => Awaiting(r)
    PROVE  FlowInv(r)'
<1>1. UNCHANGED Reached(r)
  BY DEF Reached
<1>2. \A a : OnTheWay(r, a) => OnTheWay(r, a)'
  BY <1>1 DEF OnTheWay
<1>3. Unheard(r) => Unheard(r)'
  BY DEF Unheard, IsIn, ChunksOf
<1>4. r \notin overflown' => r \notin overflown
  OBVIOUS
<1>. QED  BY <1>1, <1>2, <1>3, <1>4 DEF FlowInv, ChunksOf, Brings

\* What a node publishes that is nothing to a request.
LEMMA FlowPasses ==
    ASSUME InferenceTypes, NEW r \in Requests, FlowInv(r), UNCHANGED <<home, target, run[r], rx[r], answer[r], overflown>>,
           UNCHANGED <<events, sending>>, NEW more \in Seq(Items), \A k \in 1..Len(more) : more[k] \notin ChunksOf(r),
           inFlight'[home[r]] = inFlight[home[r]] \o more,
           \A m \in ChunksOf(r) : m \in seen'[home[r]] => m \in seen[home[r]],
           Awaiting(r)' => Awaiting(r)
    PROVE  FlowInv(r)'
<1>1. UNCHANGED Reached(r)
  BY DEF Reached
<1>2. ASSUME NEW a \in Nat, OnTheWay(r, a)
      PROVE  OnTheWay(r, a)'
  <2>1. Brings(r, run[r].tokens, more, Reached(r), Reached(r))
    BY AnswerTypes, BringsForeign
  <2>2. Way(r, run[r].tokens, a, rx[r], events[home[r]], sending[home[r]], inFlight[home[r]] \o more, Reached(r))
    BY <1>2, <2>1, AnswerTypes, WayGrows DEF OnTheWay
  <2>. QED  BY <1>1, <2>2 DEF OnTheWay
<1>3. Unheard(r) => Unheard(r)'
  <2>1. ASSUME NEW m \in ChunksOf(r), IsIn(m, inFlight'[home[r]])
        PROVE  IsIn(m, inFlight[home[r]])
    <3>1. IsIn(m, inFlight[home[r]]) \/ IsIn(m, more)
      BY <2>1, AnswerTypes, InConcat
    <3>. QED  BY <3>1 DEF IsIn
  <2>. QED  BY <2>1 DEF Unheard, IsIn, ChunksOf
<1>. QED  BY <1>1, <1>2, <1>3 DEF FlowInv, ChunksOf, Brings


\* A handler moves, and nothing else does.
LEMMA AnswersQuiet ==
    ASSUME NEW r \in Requests, PublishedInv(r), FlowInv(r),
           UNCHANGED <<home, target, rx, answer, overflown, networkVars, events, sending, run>>,
           Awaiting(r)' => Awaiting(r), pc'[r] = "idle" => pc[r] = "idle"
    PROVE  PublishedInv(r)' /\ FlowInv(r)'
<1>1. UNCHANGED <<seen, inFlight>>
  BY DEF networkVars
<1>2. PublishedInv(r)'
  <2>1. \A n \in Nodes : \A m : m \in seen'[n] \/ IsIn(m, inFlight'[n]) => m \in seen[n] \/ IsIn(m, inFlight[n])
    BY <1>1
  <2>. QED  BY <1>1, <2>1, PublishedKept
<1>. QED  BY <1>1, <1>2, FlowKept

\* An item moves from one channel of a node to the next.
LEMMA AnswersSend ==
    ASSUME InferenceTypes, NEW r \in Requests, PublishedInv(r), FlowInv(r), NEW n \in Nodes, Send(n)
    PROVE  PublishedInv(r)' /\ FlowInv(r)'
<1>1. /\ UNCHANGED <<pc, home, target, rx, answer, overflown, seen, inFlight, run>>
      /\ events' = [events EXCEPT ![n] = @ \o sending[n]] /\ sending' = [sending EXCEPT ![n] = <<>>]
  BY DEF Send, handlerVars, networkVars
<1>2. PublishedInv(r)'
  <2>1. \A p \in Nodes : \A m : m \in seen'[p] \/ IsIn(m, inFlight'[p]) => m \in seen[p] \/ IsIn(m, inFlight[p])
    BY <1>1
  <2>. QED  BY <1>1, <2>1, PublishedKept
<1>3. UNCHANGED <<Awaiting(r), Reached(r), Unheard(r)>>
  BY <1>1 DEF Awaiting, Listening, Reached, Unheard
<1>4. CASE home[r] # n
  <2>1. UNCHANGED <<events[home[r]], sending[home[r]], inFlight[home[r]]>>
    BY <1>1, <1>4 DEF InferenceTypes, NodeTypes, HandlerTypes
  <2>. QED  BY <1>1, <1>2, <1>3, <2>1, FlowKept
<1>5. CASE home[r] = n
  <2>1. events'[home[r]] = events[home[r]] \o sending[home[r]] /\ sending'[home[r]] = <<>>
    BY <1>1, <1>5 DEF InferenceTypes, NodeTypes
  <2>2. ASSUME NEW a \in Nat, OnTheWay(r, a)
        PROVE  OnTheWay(r, a)'
    <3>1. Way(r, run[r].tokens, a, rx[r], events[home[r]] \o sending[home[r]], <<>>, inFlight[home[r]], Reached(r))
      BY <2>2, AnswerTypes, WaySends DEF OnTheWay
    <3>. QED  BY <1>1, <1>3, <2>1, <3>1 DEF OnTheWay
  <2>. QED  BY <1>1, <1>2, <1>3, <2>2 DEF FlowInv
<1>. QED  BY <1>4, <1>5

LEMMA AnswersOther ==
    ASSUME InferenceTypes, NEW r \in Requests, PublishedInv(r), FlowInv(r), NEW n \in Nodes, OtherEvent(n)
    PROVE  PublishedInv(r)' /\ FlowInv(r)'
<1>1. /\ UNCHANGED <<pc, home, target, rx, answer, overflown, seen, inFlight, events, run>>
      /\ Free(n) /\ sending' = [sending EXCEPT ![n] = <<Other>>]
  BY DEF OtherEvent, handlerVars, networkVars
<1>2. PublishedInv(r)'
  <2>1. \A p \in Nodes : \A m : m \in seen'[p] \/ IsIn(m, inFlight'[p]) => m \in seen[p] \/ IsIn(m, inFlight[p])
    BY <1>1
  <2>. QED  BY <1>1, <2>1, PublishedKept
<1>3. UNCHANGED <<Awaiting(r), Reached(r), Unheard(r)>>
  BY <1>1 DEF Awaiting, Listening, Reached, Unheard
<1>4. CASE home[r] # n
  <2>1. UNCHANGED <<events[home[r]], sending[home[r]], inFlight[home[r]]>>
    BY <1>1, <1>4 DEF InferenceTypes, NodeTypes, HandlerTypes
  <2>. QED  BY <1>1, <1>2, <1>3, <2>1, FlowKept
<1>5. CASE home[r] = n
  <2>1. sending[home[r]] = <<>> /\ sending'[home[r]] = <<Other>>
    BY <1>1, <1>5 DEF InferenceTypes, NodeTypes, Free
  <2>2. Other \in Items /\ Other \notin ChunksOf(r)
    BY ForeignItems DEF Items
  <2>3. ASSUME NEW a \in Nat, OnTheWay(r, a)
        PROVE  OnTheWay(r, a)'
    <3>1. Way(r, run[r].tokens, a, rx[r], events[home[r]], <<Other>>, inFlight[home[r]], Reached(r))
      BY <2>1, <2>2, <2>3, AnswerTypes, WayOther DEF OnTheWay
    <3>. QED  BY <1>1, <1>3, <2>1, <3>1 DEF OnTheWay
  <2>. QED  BY <1>1, <1>2, <1>3, <2>3 DEF FlowInv
<1>. QED  BY <1>4, <1>5

\* What the swarm task takes in: of an answer that is waited for, it refuses nothing.
LEMMA AnswersDelivered ==
    ASSUME InferenceTypes, NEW r \in Requests, PublishedInv(r), FlowInv(r), NEW n \in Nodes, Deliver(n)
    PROVE  PublishedInv(r)' /\ FlowInv(r)'
<1>. DEFINE m == Head(inFlight[n])
<1>1. /\ UNCHANGED <<pc, home, target, rx, answer, overflown, events, run>>
      /\ Free(n) /\ inFlight[n] # <<>> /\ inFlight' = [inFlight EXCEPT ![n] = Tail(@)]
      /\ seen' = [seen EXCEPT ![n] = @ \union {m}]
      /\ sending' = [sending EXCEPT ![n] = IF New(n, m) /\ Known(m) THEN <<m>> ELSE <<>>]
  BY DEF Deliver, handlerVars, See
<1>2. inFlight[n] \in Seq(Items)
  BY AnswerTypes
<1>3. IsIn(m, inFlight[n]) /\ \A x : IsIn(x, Tail(inFlight[n])) => IsIn(x, inFlight[n])
  BY <1>1, <1>2, InTail
<1>4. \A p \in Nodes : /\ seen'[p] = IF p = n THEN seen[n] \union {m} ELSE seen[p]
                       /\ inFlight'[p] = IF p = n THEN Tail(inFlight[n]) ELSE inFlight[p]
  BY <1>1 DEF InferenceTypes, NetworkTypes
<1>. HIDE DEF m
<1>5. PublishedInv(r)'
  <2>1. ASSUME NEW p \in Nodes, NEW x, x \in seen'[p] \/ IsIn(x, inFlight'[p])
        PROVE  x \in seen[p] \/ IsIn(x, inFlight[p])
    <3>1. CASE p = n
      <4>1. CASE x \in seen'[p]
        BY <1>3, <1>4, <3>1, <4>1
      <4>2. CASE IsIn(x, inFlight'[p])
        <5>1. inFlight'[p] = Tail(inFlight[n])
          BY <1>4, <3>1
        <5>. QED  BY <1>3, <3>1, <4>2, <5>1
      <4>. QED  BY <2>1, <4>1, <4>2
    <3>2. CASE p # n
      <4>1. seen'[p] = seen[p] /\ inFlight'[p] = inFlight[p]
        BY <1>4, <3>2
      <4>. QED  BY <2>1, <4>1
    <3>. QED  BY <3>1, <3>2
  <2>2. seen[target[r]] \subseteq seen'[target[r]]
    BY <1>4, AnswerTypes
  <2>. QED  BY <1>1, <2>1, <2>2, PublishedKept
<1>6. UNCHANGED <<Awaiting(r), Reached(r)>>
  BY <1>1 DEF Awaiting, Listening, Reached
<1>7. CASE home[r] # n
  <2>1. UNCHANGED <<events[home[r]], sending[home[r]], inFlight[home[r]], seen[home[r]]>>
    BY <1>1, <1>4, <1>7, AnswerTypes DEF InferenceTypes, NodeTypes
  <2>. QED  BY <1>1, <1>5, <1>6, <2>1, FlowKept
<1>8. CASE home[r] = n
  <2>1. /\ sending[n] = <<>> /\ inFlight'[n] = Tail(inFlight[n]) /\ seen'[n] = seen[n] \union {m}
        /\ sending'[n] = IF New(n, m) /\ Known(m) THEN <<m>> ELSE <<>>
    BY <1>1, <1>4 DEF InferenceTypes, NodeTypes, Free
  <2>2. ASSUME NEW a \in Nat, OnTheWay(r, a), Unheard(r)
        PROVE  OnTheWay(r, a)' /\ Unheard(r)'
    <3>1. m \in ChunksOf(r) => New(n, m) /\ Known(m)
      <4>1. m \in ChunksOf(r) => m.topic = "any"
        BY DEF ChunksOf, Chunks
      <4>. QED  BY <1>3, <1>8, <2>2, <4>1 DEF Unheard, New, Known
    <3>2. sending'[n] = <<m>> \/ (sending'[n] = <<>> /\ m \notin ChunksOf(r))
      BY <2>1, <3>1
    <3>3. Way(r, run[r].tokens, a, rx[r], events[n], <<>>, inFlight[n], Reached(r))
      BY <1>8, <2>1, <2>2 DEF OnTheWay
    <3>4. Way(r, run[r].tokens, a, rx[r], events[n], sending'[n], Tail(inFlight[n]), Reached(r))
      BY <1>1, <1>2, <3>2, <3>3, AnswerTypes, WayDelivers DEF m
    <3>5. OnTheWay(r, a)'
      BY <1>1, <1>6, <1>8, <2>1, <3>4 DEF OnTheWay
    <3>6. m \in ChunksOf(r) => ~IsIn(m, Tail(inFlight[n]))
      <4>1. PICK s \in Nat : Brings(r, run[r].tokens, inFlight[n], s, Reached(r))
        BY <3>3 DEF Way
      <4>. QED  BY <1>1, <1>2, <4>1, AnswerTypes, BroughtOnce DEF m
    <3>7. ASSUME NEW x \in ChunksOf(r), x \in seen[n] \union {m}, IsIn(x, Tail(inFlight[n]))
          PROVE  FALSE
      BY <1>3, <1>8, <2>2, <3>6, <3>7 DEF Unheard
    <3>8. Unheard(r)'
      BY <1>1, <1>8, <2>1, <3>7 DEF Unheard, IsIn, ChunksOf
    <3>. QED  BY <3>5, <3>8
  <2>. QED  BY <1>1, <1>5, <1>6, <2>2 DEF FlowInv
<1>. QED  BY <1>7, <1>8


\* A node knows nothing of an execution whose request it has not published.
LEMMA IdleUnsent ==
    ASSUME InferenceTypes, OnceInv, NEW r \in Requests, PublishedInv(r), pc[r] = "idle"
    PROVE  run[r].at = "none" /\ run[r].sent = 0 /\ Reached(r) = 0
<1>1. target[r] \in Nodes
  BY AnswerTypes
<1>2. run[r].at = "none"
  BY <1>1 DEF PublishedInv, OnceInv, RanInv
<1>. QED  BY <1>2 DEF PublishedInv, Reached

\* What the event loop takes of an answer goes to the collector that waits for it.
LEMMA AnswersPopped ==
    ASSUME InferenceTypes, CollectorInv, OnceInv, NEW r \in Requests, PublishedInv(r), FlowInv(r),
           NEW n \in Nodes, EventLoop(n)
    PROVE  PublishedInv(r)' /\ FlowInv(r)'
<1>. DEFINE m == Head(events[n])
<1>1. /\ UNCHANGED <<pc, home, target, answer, collectors, sending, seen, inFlight, run>>
      /\ events[n] # <<>> /\ events' = [events EXCEPT ![n] = Tail(@)]
  BY DEF EventLoop, HandleRequest, HandleChunk, HandleOther, Pop, handlerVars, networkVars
<1>2. \/ UNCHANGED <<rx, overflown>> /\ m.kind # "chunk"
      \/ /\ m.kind = "chunk"
         /\ IF m.req \in collectors /\ home[m.req] = n /\ Listening(m.req)
            THEN TrySend(m.req, m) ELSE UNCHANGED <<rx, overflown>>
  <2>1. CASE HandleRequest(n)
    BY <2>1 DEF HandleRequest, handlerVars
  <2>2. CASE HandleOther(n)
    BY <2>2 DEF HandleOther, handlerVars, Other
  <2>3. CASE HandleChunk(n)
    BY <2>3 DEF HandleChunk
  <2>. QED  BY <2>1, <2>2, <2>3 DEF EventLoop
<1>3. events[n] \in Seq(Items) /\ m = events[n][1] /\ 1 \in 1..Len(events[n]) /\ m \in Items
  <2>1. events[n] \in Seq(Items)
    BY AnswerTypes
  <2>2. m \in Items /\ m = events[n][1] /\ Len(events[n]) >= 1 /\ Len(events[n]) \in Nat
    BY <1>1, <2>1, TailTypes, LenProperties
  <2>. QED  BY <2>1, <2>2
<1>4. m.kind = "chunk" => m \in Chunks /\ m.req \in Requests
  BY <1>3, Kinds DEF Chunks
<1>. HIDE DEF m
<1>5. PublishedInv(r)'
  <2>1. \A p \in Nodes : \A x : x \in seen'[p] \/ IsIn(x, inFlight'[p]) => x \in seen[p] \/ IsIn(x, inFlight[p])
    BY <1>1
  <2>. QED  BY <1>1, <2>1, PublishedKept
<1>6. UNCHANGED <<Awaiting(r), Reached(r), Unheard(r)>>
  BY <1>1 DEF Awaiting, Listening, Reached, Unheard
<1>7. r \in overflown => r \in overflown'
  BY <1>2 DEF TrySend
<1>8. ASSUME rx'[r] = rx[r], r \notin overflown', home[r] = n => (Awaiting(r) => m \notin ChunksOf(r))
      PROVE  FlowInv(r)'
  <2>1. CASE home[r] # n
    <3>1. UNCHANGED <<events[home[r]], sending[home[r]], inFlight[home[r]]>>
      BY <1>1, <2>1, AnswerTypes DEF InferenceTypes, NodeTypes
    <3>. QED  BY <1>1, <1>6, <1>7, <1>8, <3>1, FlowKept
  <2>2. CASE home[r] = n
    <3>1. events'[home[r]] = Tail(events[home[r]])
      BY <1>1, <2>2 DEF InferenceTypes, NodeTypes
    <3>2. ASSUME NEW a \in Nat, OnTheWay(r, a), Awaiting(r)
          PROVE  OnTheWay(r, a)'
      <4>1. Way(r, run[r].tokens, a, rx[r], events[n], sending[n], inFlight[n], Reached(r))
        BY <2>2, <3>2 DEF OnTheWay
      <4>2. Way(r, run[r].tokens, a, rx[r], Tail(events[n]), sending[n], inFlight[n], Reached(r))
        BY <1>1, <1>3, <1>8, <2>2, <3>2, <4>1, AnswerTypes, WayPops DEF m
      <4>. QED  BY <1>1, <1>6, <1>8, <2>2, <3>1, <4>2 DEF OnTheWay
    <3>. QED  BY <1>1, <1>6, <1>7, <1>8, <3>2 DEF FlowInv, ChunksOf, Brings
  <2>. QED  BY <2>1, <2>2
<1>9. ASSUME rx'[r] = Append(rx[r], m), UNCHANGED overflown, m \in ChunksOf(r), home[r] = n
      PROVE  FlowInv(r)'
  <2>1. events'[n] = Tail(events[n]) /\ rx[r] \in Seq(Items)
    BY <1>1, AnswerTypes DEF InferenceTypes, NodeTypes
  <2>2. ASSUME NEW a \in Nat, OnTheWay(r, a)
        PROVE  OnTheWay(r, a)'
    <3>1. Way(r, run[r].tokens, a, rx[r], events[n], sending[n], inFlight[n], Reached(r))
      BY <1>9, <2>2 DEF OnTheWay
    <3>2. Way(r, run[r].tokens, a, rx'[r], Tail(events[n]), sending[n], inFlight[n], Reached(r))
      BY <1>1, <1>3, <1>9, <2>1, <3>1, AnswerTypes, WayPops DEF m
    <3>. QED  BY <1>1, <1>6, <1>9, <2>1, <3>2 DEF OnTheWay
  <2>3. \A k \in 1..Len(rx'[r]) : rx'[r][k] \in ChunksOf(r)
    <3>1. /\ Len(rx'[r]) = Len(rx[r]) + 1 /\ Len(rx[r]) \in Nat /\ rx'[r][Len(rx[r]) + 1] = m
          /\ \A k \in 1..Len(rx[r]) : rx'[r][k] = rx[r][k]
      BY <1>3, <1>9, <2>1, AppendProperties, LenProperties
    <3>2. \A k \in 1..Len(rx'[r]) : k \in 1..Len(rx[r]) \/ k = Len(rx[r]) + 1
      BY <3>1
    <3>. QED  BY <1>9, <3>1, <3>2 DEF FlowInv
  <2>. QED  BY <1>1, <1>6, <1>9, <2>2, <2>3 DEF FlowInv, ChunksOf, Brings
<1>10. ASSUME rx'[r] = rx[r], r \in overflown'
       PROVE  FlowInv(r)'
  BY <1>1, <1>10 DEF FlowInv, ChunksOf
<1>11. CASE m.kind = "chunk" /\ m.req = r /\ TrySend(r, m) /\ home[r] = n
  <2>1. m \in ChunksOf(r)
    BY <1>4, <1>11 DEF ChunksOf
  <2>2. \/ rx'[r] = Append(rx[r], m) /\ UNCHANGED overflown
        \/ rx'[r] = rx[r] /\ r \in overflown'
    BY <1>11 DEF TrySend, InferenceTypes, ChunkTypes
  <2>. QED  BY <1>5, <1>9, <1>10, <1>11, <2>1, <2>2
<1>12. CASE m \notin ChunksOf(r)
  <2>1. m.kind = "chunk" => m.req # r
    BY <1>4, <1>12 DEF ChunksOf
  <2>2. rx'[r] = rx[r]
    BY <1>2, <1>4, <2>1 DEF TrySend, InferenceTypes, ChunkTypes
  <2>. QED  BY <1>5, <1>8, <1>10, <1>12, <2>2
<1>13. CASE m \in ChunksOf(r) /\ ~(TrySend(r, m) /\ home[r] = n)
  <2>1. m.kind = "chunk" /\ m.req = r
    BY <1>13 DEF ChunksOf, Chunks
  <2>2. UNCHANGED <<rx, overflown>> /\ ~(r \in collectors /\ home[r] = n /\ Listening(r))
    BY <1>2, <1>13, <2>1
  <2>3. CASE r \in overflown
    BY <1>5, <1>10, <2>2, <2>3
  <2>4. ASSUME r \notin overflown, home[r] = n, Awaiting(r)
        PROVE  m \notin ChunksOf(r)
    <3>1. pc[r] = "idle"
      BY <2>2, <2>4 DEF Awaiting, CollectorInv, CollectorsCoverHandlers
    <3>2. PICK a \in Nat : OnTheWay(r, a)
      BY <2>4 DEF FlowInv
    <3>3. Way(r, run[r].tokens, a, rx[r], events[n], sending[n], inFlight[n], 0)
      BY <2>4, <3>1, <3>2, IdleUnsent DEF OnTheWay
    <3>. QED  BY <1>3, <3>3, AnswerTypes, NothingOnTheWay
  <2>. QED  BY <1>5, <1>8, <2>2, <2>3, <2>4
<1>. QED  BY <1>11, <1>12, <1>13 DEF ChunksOf, Chunks


\* A chunk among the items of an answer is one of the execution, and no error.
LEMMA NoError ==
    ASSUME NEW r \in Requests, NEW tokens \in Seq(Tokens), NEW items \in Seq(Items), items # <<>>, NEW lo, NEW hi,
           Brings(r, tokens, items, lo, hi), Head(items) \in ChunksOf(r)
    PROVE  Head(items).error = FALSE
<1>1. Head(items) = items[1] /\ 1 \in 1..Len(items)
  <2>1. Head(items) = items[1] /\ Len(items) >= 1 /\ Len(items) \in Nat
    BY TailTypes, LenProperties
  <2>. QED  BY <2>1
<1>2. PICK i \in Places(tokens) : items[1] = ChunkAt(r, tokens)[i]
  BY <1>1 DEF Brings, Carries
<1>3. i \in 1..Len(tokens)
  BY DEF Places
<1>. QED  BY <1>1, <1>2, <1>3 DEF ChunkAt, Chunk

LEMMA AnswersReceived ==
    ASSUME InferenceTypes, NEW r \in Requests, PublishedInv(r), FlowInv(r), NEW q \in Requests, Receive(q)
    PROVE  PublishedInv(r)' /\ FlowInv(r)'
<1>. DEFINE m == Head(rx[q])
<1>1. /\ UNCHANGED <<home, target, overflown, seen, inFlight, events, sending, run>>
      /\ pc[q] = "collect" /\ rx[q] # <<>> /\ rx' = [rx EXCEPT ![q] = Tail(@)]
      /\ answer' = [answer EXCEPT ![q] = IF m.error THEN @ ELSE Append(@, m)]
      /\ Goto(q, IF m.last THEN "cleanup" ELSE "collect")
  BY DEF Receive, networkVars, nodeVars
<1>2. /\ pc'[r] = IF r = q THEN pc'[q] ELSE pc[r]
      /\ pc'[q] \in {"cleanup", "collect"}
  BY <1>1 DEF Goto, InferenceTypes, HandlerTypes
<1>3. PublishedInv(r)'
  <2>1. \A p \in Nodes : \A x : x \in seen'[p] \/ IsIn(x, inFlight'[p]) => x \in seen[p] \/ IsIn(x, inFlight[p])
    BY <1>1
  <2>2. pc'[r] = "idle" => pc[r] = "idle"
    BY <1>2
  <2>. QED  BY <1>1, <2>1, <2>2, PublishedKept
<1>4. UNCHANGED <<Reached(r), Unheard(r)>>
  BY <1>1 DEF Reached, Unheard
<1>5. CASE r # q
  <2>1. UNCHANGED <<rx[r], answer[r]>> /\ (Awaiting(r)' => Awaiting(r))
    BY <1>1, <1>2, <1>5 DEF InferenceTypes, HandlerTypes, ChunkTypes, Awaiting, Listening
  <2>. QED  BY <1>1, <1>3, <2>1, FlowKept
<1>6. CASE r = q
  <2>1. rx[r] \in Seq(Items) /\ rx[r] # <<>> /\ rx'[r] = Tail(rx[r]) /\ answer[r] \in Seq(Items)
    BY <1>1, <1>6, AnswerTypes DEF InferenceTypes, ChunkTypes
  <2>2. /\ m = rx[r][1] /\ 1 \in 1..Len(rx[r]) /\ m \in Items
        /\ \A k \in 1..Len(Tail(rx[r])) : Tail(rx[r])[k] = rx[r][k + 1] /\ k + 1 \in 1..Len(rx[r])
    <3>1. /\ m = rx[r][1] /\ m \in Items /\ Len(rx[r]) >= 1 /\ Len(rx[r]) \in Nat
          /\ Len(Tail(rx[r])) = Len(rx[r]) - 1
      BY <1>6, <2>1, TailTypes, LenProperties
    <3>2. \A k \in 1..Len(Tail(rx[r])) : Tail(rx[r])[k] = rx[r][k + 1]
      BY <2>1, HeadTailProperties
    <3>. QED  BY <3>1, <3>2
  <2>. HIDE DEF m
  <2>3. m \in ChunksOf(r)
    BY <2>2 DEF FlowInv
  <2>4. \A k \in 1..Len(rx'[r]) : rx'[r][k] \in ChunksOf(r)
    BY <2>1, <2>2 DEF FlowInv
  <2>5. answer'[r] = IF m.error THEN answer[r] ELSE Append(answer[r], m)
    BY <1>1, <1>6 DEF InferenceTypes, HandlerTypes
  <2>6. \A k \in 1..Len(answer'[r]) : answer'[r][k] \in ChunksOf(r)
    <3>1. /\ Len(Append(answer[r], m)) = Len(answer[r]) + 1 /\ Len(answer[r]) \in Nat
          /\ Append(answer[r], m)[Len(answer[r]) + 1] = m
          /\ \A k \in 1..Len(answer[r]) : Append(answer[r], m)[k] = answer[r][k]
      BY <2>1, <2>2, AppendProperties, LenProperties
    <3>2. \A k \in 1..Len(answer[r]) + 1 : k \in 1..Len(answer[r]) \/ k = Len(answer[r]) + 1
      BY <3>1
    <3>3. \A k \in 1..Len(answer[r]) : answer[r][k] \in ChunksOf(r)
      BY DEF FlowInv
    <3>. QED  BY <2>3, <2>5, <3>1, <3>2, <3>3
  <2>7. ASSUME r \notin overflown
        PROVE  \E b \in Nat : /\ b <= Reached(r)' /\ Brings(r, run'[r].tokens, answer'[r], 0, b)
                              /\ OnTheWay(r, b)' /\ Unheard(r)'
    <3>1. Awaiting(r)
      BY <1>1, <1>6 DEF Awaiting, Listening, Working
    <3>2. PICK a \in Nat : /\ a <= Reached(r) /\ Brings(r, run[r].tokens, answer[r], 0, a)
                           /\ OnTheWay(r, a) /\ Unheard(r)
      BY <2>7, <3>1 DEF FlowInv
    <3>3. Way(r, run[r].tokens, a, rx[r], events[home[r]], sending[home[r]], inFlight[home[r]], Reached(r))
      BY <3>2 DEF OnTheWay
    <3>4. ~m.error
      <4>1. PICK x \in Nat : Brings(r, run[r].tokens, rx[r], a, x)
        BY <3>3 DEF Way
      <4>. QED  BY <1>6, <2>1, <2>3, <4>1, AnswerTypes, NoError DEF m
    <3>5. PICK b \in Nat :
              /\ b <= Reached(r) /\ Brings(r, run[r].tokens, Append(answer[r], m), 0, b)
              /\ Way(r, run[r].tokens, b, Tail(rx[r]), events[home[r]], sending[home[r]], inFlight[home[r]], Reached(r))
      <4>1. m = Head(rx[r])
        BY <1>6 DEF m
      <4>2. run[r].tokens \in Seq(Tokens) /\ Reached(r) \in Nat
        BY AnswerTypes
      <4>. QED  BY <2>1, <3>2, <3>3, <4>1, <4>2, WayReceives
    <3>6. OnTheWay(r, b)'
      BY <1>1, <1>4, <2>1, <3>5 DEF OnTheWay
    <3>. QED  BY <1>1, <1>4, <2>5, <3>2, <3>4, <3>5, <3>6
  <2>. QED  BY <1>1, <1>3, <2>4, <2>6, <2>7 DEF FlowInv, ChunksOf, Brings
<1>. QED  BY <1>5, <1>6

\* An execution begins: nothing of it has been published.
LEMMA AnswersBegin ==
    ASSUME InferenceTypes, OnceInv, NEW r \in Requests, PublishedInv(r), FlowInv(r), NEW n \in Nodes, OwnPeerId(n)
    PROVE  PublishedInv(r)' /\ FlowInv(r)'
<1>1. UNCHANGED <<pc, home, target, rx, answer, overflown, seen, inFlight, events, sending>>
  BY DEF OwnPeerId, handlerVars, networkVars
<1>2. UNCHANGED <<Awaiting(r), Unheard(r)>>
  BY <1>1 DEF Awaiting, Listening, Unheard
<1>3. CASE run'[r] = run[r]
  <2>1. \A p \in Nodes : \A x : x \in seen'[p] \/ IsIn(x, inFlight'[p]) => x \in seen[p] \/ IsIn(x, inFlight[p])
    BY <1>1
  <2>2. PublishedInv(r)'
    BY <1>1, <1>3, <2>1, PublishedKept
  <2>. QED  BY <1>1, <1>2, <1>3, <2>2, FlowKept
<1>4. CASE run'[r] # run[r]
  <2>1. PICK tokens \in Answers : run[r].at = "none" /\ run'[r] = [at |-> "running", tokens |-> tokens, sent |-> 0]
    BY <1>4, RunBegins DEF InferenceTypes, RunTypes
  <2>2. tokens \in Seq(Tokens) /\ Len(tokens) \in Nat
    BY InferenceAssumption, LenProperties
  <2>3. run[r].sent = 0 /\ run'[r].sent = 0 /\ run'[r].tokens = tokens /\ run'[r].at = "running"
    BY <2>1 DEF PublishedInv
  <2>4. UpTo(r) = {} /\ UpTo(r)' = {}
    BY <2>3 DEF UpTo
  <2>5. PublishedInv(r)'
    <3>1. \A p \in Nodes : \A m \in ChunksOf(r) : m \in seen'[p] \/ IsIn(m, inFlight'[p]) => m \in UpTo(r)'
      BY <1>1, <2>4 DEF PublishedInv
    <3>2. pc'[r] = "idle" => \A p \in Nodes : Request(r, "any") \notin seen'[p] /\ ~IsIn(Request(r, "any"), inFlight'[p])
      BY <1>1 DEF PublishedInv
    <3>. QED  BY <2>2, <2>3, <2>4, <3>1, <3>2 DEF PublishedInv, ChunksOf, IsIn
  <2>6. Reached(r) = 0 /\ Reached(r)' = 0
    BY <2>3 DEF Reached
  <2>7. ASSUME NEW a \in Nat, a <= Reached(r), Brings(r, run[r].tokens, answer[r], 0, a)
        PROVE  /\ Brings(r, run'[r].tokens, answer'[r], 0, a)
               /\ OnTheWay(r, a) => OnTheWay(r, a)'
    <3>1. a = 0
      BY <2>6, <2>7
    <3>2. Brings(r, tokens, answer[r], 0, 0)
      BY <2>2, <2>7, <3>1, AnswerTypes, NothingBrings
    <3>3. OnTheWay(r, a) => Way(r, tokens, 0, rx[r], events[home[r]], sending[home[r]], inFlight[home[r]], 0)
      BY <2>2, <2>6, <3>1, AnswerTypes, WayBegins DEF OnTheWay
    <3>. QED  BY <1>1, <2>3, <2>6, <3>1, <3>2, <3>3 DEF OnTheWay
  <2>8. r \notin overflown =>
            \E a \in Nat : /\ a <= Reached(r)' /\ Brings(r, run'[r].tokens, answer'[r], 0, a)
                           /\ Awaiting(r)' => OnTheWay(r, a)' /\ Unheard(r)'
    BY <1>2, <2>6, <2>7 DEF FlowInv
  <2>. QED  BY <1>1, <2>5, <2>8 DEF FlowInv, ChunksOf, Brings
<1>. QED  BY <1>3, <1>4


LEMMA CopyIs ==
    ASSUME NEW n, NEW p, NEW m \in Items
    PROVE  /\ Copy(n, p, m) \in Seq(Items)
           /\ \A k \in 1..Len(Copy(n, p, m)) : Copy(n, p, m)[k] = m
<1>1. Copy(n, p, m) = <<m>> \/ Copy(n, p, m) = <<>>
  BY DEF Copy
<1>2. /\ <<m>> \in Seq(Items) /\ Len(<<m>>) = 1 /\ <<m>>[1] = m
      /\ <<>> \in Seq(Items) /\ Len(<<>>) = 0
  OBVIOUS
<1>3. CASE Copy(n, p, m) = <<m>>
  BY <1>2, <1>3
<1>4. CASE Copy(n, p, m) = <<>>
  BY <1>2, <1>4
<1>. QED  BY <1>1, <1>3, <1>4

\* What is published of others is nothing to a request.
LEMMA AnswersOfOthers ==
    ASSUME InferenceTypes, NEW r \in Requests, PublishedInv(r), FlowInv(r),
           UNCHANGED <<home, target, rx, answer, overflown, events, sending, run[r]>>,
           NEW n \in Nodes, NEW more \in [Nodes -> Seq(Items)], NEW msgs,
           \A p \in Nodes : \A k \in 1..Len(more[p]) : more[p][k] \in msgs,
           inFlight' = [p \in Nodes |-> inFlight[p] \o more[p]], See(n, msgs),
           \A m \in msgs : m \notin ChunksOf(r),
           Awaiting(r)' => Awaiting(r),
           pc'[r] = "idle" => pc[r] = "idle" /\ Request(r, "any") \notin msgs
    PROVE  PublishedInv(r)' /\ FlowInv(r)'
<1>1. \A p \in Nodes : seen'[p] = IF p = n THEN seen[n] \union msgs ELSE seen[p]
  BY DEF See, InferenceTypes, NetworkTypes
<1>2. \A p \in Nodes : inFlight'[p] = inFlight[p] \o more[p]
  OBVIOUS
<1>3. ASSUME NEW p \in Nodes, NEW x, x \notin msgs, x \in seen'[p] \/ IsIn(x, inFlight'[p])
      PROVE  x \in seen[p] \/ IsIn(x, inFlight[p])
  <2>1. CASE x \in seen'[p]
    BY <1>1, <1>3, <2>1
  <2>2. CASE IsIn(x, inFlight'[p])
    <3>1. IsIn(x, inFlight[p] \o more[p])
      BY <1>2, <2>2
    <3>2. IsIn(x, inFlight[p]) \/ IsIn(x, more[p])
      BY <3>1, AnswerTypes, InConcat
    <3>. QED  BY <1>3, <3>2 DEF IsIn
  <2>. QED  BY <1>3, <2>1, <2>2
<1>4. PublishedInv(r)'
  <2>1. seen[target[r]] \subseteq seen'[target[r]]
    BY <1>1, AnswerTypes
  <2>. QED  BY <1>3, <2>1, PublishedKept
<1>5. FlowInv(r)'
  <2>1. home[r] \in Nodes
    BY AnswerTypes
  <2>2. \A m \in ChunksOf(r) : m \in seen'[home[r]] => m \in seen[home[r]]
    BY <1>1, <2>1
  <2>3. \A k \in 1..Len(more[home[r]]) : more[home[r]][k] \notin ChunksOf(r)
    BY <2>1
  <2>4. more[home[r]] \in Seq(Items)
    BY <2>1
  <2>. QED  BY <1>2, <2>1, <2>2, <2>3, <2>4, FlowPasses
<1>. QED  BY <1>4, <1>5

LEMMA AnswersBroadcast ==
    ASSUME InferenceTypes, NEW r \in Requests, PublishedInv(r), FlowInv(r), NEW q \in Requests, Broadcast(q)
    PROVE  PublishedInv(r)' /\ FlowInv(r)'
<1>. DEFINE m1 == Request(q, "model")  m2 == Request(q, "any")  n == home[q]
            more == [p \in Nodes |-> Copy(n, p, m1) \o Copy(n, p, m2)]
<1>1. /\ UNCHANGED <<home, target, rx, answer, overflown, events, sending, run>>
      /\ pc[q] = "publish" /\ Goto(q, "collect")
      /\ inFlight' = [p \in Nodes |-> inFlight[p] \o Copy(n, p, m1) \o Copy(n, p, m2)]
      /\ See(n, {m1, m2})
  BY DEF Broadcast, PublishBoth, nodeVars
<1>2. m1 \in Items /\ m2 \in Items /\ n \in Nodes
  BY MessageTypes, AnswerTypes DEF Items
<1>3. m1 \notin ChunksOf(r) /\ m2 \notin ChunksOf(r)
  BY ForeignItems
<1>4. pc'[r] = "idle" => pc[r] = "idle" /\ Request(r, "any") \notin {m1, m2}
  BY <1>1 DEF Goto, InferenceTypes, HandlerTypes, Request
<1>5. Awaiting(r)' => Awaiting(r)
  BY <1>1 DEF Awaiting, Listening, Working, Goto, InferenceTypes, HandlerTypes
<1>. HIDE DEF m1, m2, n
<1>6. ASSUME NEW p \in Nodes
      PROVE  /\ more[p] \in Seq(Items) /\ \A k \in 1..Len(more[p]) : more[p][k] \in {m1, m2}
             /\ inFlight[p] \o Copy(n, p, m1) \o Copy(n, p, m2) = inFlight[p] \o more[p]
  <2>. DEFINE c1 == Copy(n, p, m1)  c2 == Copy(n, p, m2)
  <2>1. /\ c1 \in Seq(Items) /\ \A k \in 1..Len(c1) : c1[k] = m1
        /\ c2 \in Seq(Items) /\ \A k \in 1..Len(c2) : c2[k] = m2
    BY <1>2, CopyIs
  <2>2. more[p] = c1 \o c2
    OBVIOUS
  <2>. HIDE DEF c1, c2
  <2>3. c1 \o c2 \in Seq(Items)
    BY <2>1, ConcatProperties
  <2>4. ASSUME NEW k \in 1..Len(c1 \o c2)
        PROVE  (c1 \o c2)[k] \in {m1, m2}
    <3>1. IsIn((c1 \o c2)[k], c1 \o c2)
      BY DEF IsIn
    <3>2. IsIn((c1 \o c2)[k], c1) \/ IsIn((c1 \o c2)[k], c2)
      BY <2>1, <3>1, InConcat
    <3>. QED  BY <2>1, <3>2 DEF IsIn
  <2>5. (inFlight[p] \o c1) \o c2 = inFlight[p] \o (c1 \o c2)
    <3>1. inFlight[p] \in Seq(Items)
      BY AnswerTypes
    <3>. QED  BY <2>1, <3>1, ItemsAssociate
  <2>. HIDE DEF more
  <2>. QED  BY <2>2, <2>3, <2>4, <2>5 DEF c1, c2
<1>7. more \in [Nodes -> Seq(Items)]
  <2>1. \A p \in Nodes : Copy(n, p, m1) \o Copy(n, p, m2) \in Seq(Items)
    BY <1>6
  <2>. QED  BY <2>1
<1>8. inFlight' = [p \in Nodes |-> inFlight[p] \o more[p]]
  <2>. HIDE DEF more
  <2>. QED  BY <1>1, <1>6
<1>. DEFINE msgs == {m1, m2}
<1>9. /\ \A p \in Nodes : \A k \in 1..Len(more[p]) : more[p][k] \in msgs
      /\ See(n, msgs) /\ \A m \in msgs : m \notin ChunksOf(r)
      /\ pc'[r] = "idle" => pc[r] = "idle" /\ Request(r, "any") \notin msgs
  <2>. HIDE DEF more
  <2>. QED  BY <1>1, <1>3, <1>4, <1>6
<1>. HIDE DEF more, msgs
<1>10. UNCHANGED run[r]
  BY <1>1
<1>. QED  BY <1>1, <1>2, <1>5, <1>7, <1>8, <1>9, <1>10, AnswersOfOthers

\* The gossip takes the next chunk unless it is like one before it.
LEMMA NextPlace ==
    ASSUME NEW r \in Requests, NEW tokens \in Seq(Tokens), NEW i \in 1..Len(tokens)
    PROVE  i \in Places(tokens) <=> \A j \in 1..i - 1 : ChunkAt(r, tokens)[j] # ChunkAt(r, tokens)[i]
<1>1. Len(tokens) \in Nat
  BY LenProperties
<1>2. \A j \in 1..Len(tokens) : /\ ChunkAt(r, tokens)[j].token = tokens[j]
                                /\ ChunkAt(r, tokens)[j].last = (j = Len(tokens))
  BY DEF ChunkAt, Chunk
<1>3. \A j \in 1..i - 1 : j \in 1..Len(tokens) /\ j # Len(tokens)
  BY <1>1
<1>4. CASE i = Len(tokens)
  BY <1>1, <1>2, <1>3, <1>4 DEF Places, ComesThrough
<1>5. CASE i # Len(tokens)
  <2>1. \A j \in 1..i - 1 : tokens[j] = tokens[i] => ChunkAt(r, tokens)[j] = ChunkAt(r, tokens)[i]
    <3>1. \A j \in 1..Len(tokens) : j # Len(tokens) => ChunkAt(r, tokens)[j] = Chunk(r, tokens[j], FALSE)
      BY DEF ChunkAt
    <3>. QED  BY <1>3, <1>5, <3>1
  <2>2. \A j \in 1..i - 1 : ChunkAt(r, tokens)[j] = ChunkAt(r, tokens)[i] => tokens[j] = tokens[i]
    BY <1>2, <1>3
  <2>. QED  BY <1>5, <2>1, <2>2 DEF Places, ComesThrough
<1>. QED  BY <1>4, <1>5

LEMMA BringsNext ==
    ASSUME NEW r \in Requests, NEW tokens \in Seq(Tokens), NEW n \in Nat
    PROVE  /\ n + 1 \in Places(tokens) => Brings(r, tokens, <<ChunkAt(r, tokens)[n + 1]>>, n, n + 1)
           /\ n + 1 \notin Places(tokens) => Brings(r, tokens, <<>>, n, n + 1)
  BY TokensStream, CarriesNext DEF Brings


\* The next chunk of an execution.
LEMMA NextChunk ==
    ASSUME InferenceTypes, NEW r \in Requests, PublishChunk(r)
    PROVE  /\ run[r].at = "running" /\ run[r].sent + 1 \in 1..Len(run[r].tokens)
           /\ ChunkAt(r, run[r].tokens)[run[r].sent + 1] \in ChunksOf(r)
           /\ Publish(target[r], ChunkAt(r, run[r].tokens)[run[r].sent + 1])
           /\ run'[r].at # "none" /\ run'[r].tokens = run[r].tokens /\ run'[r].sent = run[r].sent + 1
           /\ \A q \in Requests : q # r => run'[q] = run[q]
           /\ UNCHANGED <<pc, home, target, rx, answer, overflown, events, sending>>
<1>. DEFINE tokens == run[r].tokens  i == run[r].sent + 1
<1>1. run[r].at = "running" /\ run \in [Requests -> Executions]
  BY DEF PublishChunk, InferenceTypes, RunTypes
<1>2. tokens \in Seq(Tokens) /\ run[r].sent \in Nat /\ run[r].sent < Len(tokens) /\ Len(tokens) \in Nat
  <2>1. tokens \in Seq(Tokens) /\ run[r].sent \in Nat
    BY AnswerTypes
  <2>. QED  BY <1>1, <2>1, LenProperties DEF InferenceTypes, RunTypes
<1>3. i \in 1..Len(tokens)
  BY <1>2
<1>4. ChunkAt(r, tokens)[i] = Chunk(r, tokens[i], i = Len(tokens))
  BY <1>3 DEF ChunkAt
<1>5. Chunk(r, tokens[i], i = Len(tokens)) \in ChunksOf(r)
  <2>1. tokens[i] \in Tokens
    BY <1>2, <1>3, ElementOfSeq
  <2>. QED  BY <2>1 DEF Chunk, ChunksOf, Chunks
<1>6. Publish(target[r], Chunk(r, tokens[i], i = Len(tokens)))
  BY DEF PublishChunk
<1>7. run'[r].at # "none" /\ run'[r].tokens = tokens /\ run'[r].sent = i
  BY <1>1 DEF PublishChunk
<1>8. \A q \in Requests : q # r => run'[q] = run[q]
  BY <1>1 DEF PublishChunk
<1>9. UNCHANGED <<pc, home, target, rx, answer, overflown, events, sending>>
  BY DEF PublishChunk, handlerVars, nodeVars
<1>. QED  BY <1>1, <1>3, <1>4, <1>5, <1>6, <1>7, <1>8, <1>9

LEMMA AnswersPublishedOfOthers ==
    ASSUME InferenceTypes, NEW r \in Requests, PublishedInv(r), FlowInv(r),
           NEW q \in Requests, q # r, PublishChunk(q)
    PROVE  PublishedInv(r)' /\ FlowInv(r)'
<1>. DEFINE n == target[q]  m == ChunkAt(q, run[q].tokens)[run[q].sent + 1]
            more == [p \in Nodes |-> Copy(n, p, m)]  msgs == {m}
<1>1. /\ m \in ChunksOf(q) /\ Publish(n, m) /\ UNCHANGED run[r]
      /\ UNCHANGED <<pc, home, target, rx, answer, overflown, events, sending>>
  BY NextChunk
<1>2. n \in Nodes /\ m \in Items
  BY <1>1, AnswerTypes DEF ChunksOf, Items
<1>. HIDE DEF n, m
<1>3. m \notin ChunksOf(r) /\ Request(r, "any") # m
  <2>1. m.kind = "chunk" /\ m.req = q
    BY <1>1 DEF ChunksOf, Chunks
  <2>2. Request(r, "any").kind = "request"
    BY DEF Request
  <2>. QED  BY <2>1, <2>2 DEF ChunksOf
<1>4. \A p \in Nodes : more[p] \in Seq(Items) /\ \A k \in 1..Len(more[p]) : more[p][k] \in msgs
  BY <1>2, CopyIs
<1>5. inFlight' = [p \in Nodes |-> inFlight[p] \o more[p]] /\ See(n, msgs)
  BY <1>1 DEF Publish
<1>6. more \in [Nodes -> Seq(Items)]
  BY <1>4
<1>7. Awaiting(r)' => Awaiting(r)
  BY <1>1 DEF Awaiting, Listening
<1>8. /\ \A x \in msgs : x \notin ChunksOf(r)
      /\ pc'[r] = "idle" => pc[r] = "idle" /\ Request(r, "any") \notin msgs
  BY <1>1, <1>3
<1>. HIDE DEF more, msgs
<1>9. \A p \in Nodes : \A k \in 1..Len(more[p]) : more[p][k] \in msgs
  BY <1>4
<1>. QED  BY <1>1, <1>2, <1>5, <1>6, <1>7, <1>8, <1>9, AnswersOfOthers

\* A chunk is published: it reaches the node it is for unless it was published before.
LEMMA AnswersPublished ==
    ASSUME InferenceTypes, OnceInv, NEW r \in Requests, PublishedInv(r), FlowInv(r), PublishChunk(r)
    PROVE  PublishedInv(r)' /\ FlowInv(r)'
<1>. DEFINE t == target[r]  h == home[r]  tokens == run[r].tokens  sent == run[r].sent
            m == ChunkAt(r, tokens)[sent + 1]
<1>1. /\ run[r].at = "running" /\ sent + 1 \in 1..Len(tokens)
      /\ m \in ChunksOf(r) /\ Publish(t, m)
      /\ run'[r].at # "none" /\ run'[r].tokens = tokens /\ run'[r].sent = sent + 1
      /\ UNCHANGED <<pc, home, target, rx, answer, overflown, events, sending>>
  BY NextChunk
<1>2. t \in Nodes /\ h \in Nodes /\ tokens \in Seq(Tokens) /\ sent \in Nat /\ m \in Items
  BY <1>1, AnswerTypes DEF ChunksOf, Items
<1>3. UpTo(r)' = UpTo(r) \union {m}
  <2>1. UpTo(r)' = {ChunkAt(r, tokens)[i] : i \in 1..sent + 1}
    BY <1>1 DEF UpTo, ChunkAt, Chunk
  <2>2. \A i \in 1..sent + 1 : i \in 1..sent \/ i = sent + 1
    BY <1>2
  <2>3. 1..sent \subseteq 1..sent + 1 /\ sent + 1 \in 1..sent + 1
    BY <1>2
  <2>. QED  BY <2>1, <2>2, <2>3 DEF UpTo
<1>. HIDE DEF m
<1>4. \A p \in Nodes : /\ seen'[p] = IF p = t THEN seen[t] \union {m} ELSE seen[p]
                       /\ inFlight'[p] = inFlight[p] \o Copy(t, p, m)
  BY <1>1 DEF Publish, See, InferenceTypes, NetworkTypes
<1>5. ASSUME NEW p \in Nodes, NEW x, IsIn(x, inFlight'[p])
      PROVE  IsIn(x, inFlight[p]) \/ x = m
  <2>1. Copy(t, p, m) \in Seq(Items) /\ \A k \in 1..Len(Copy(t, p, m)) : Copy(t, p, m)[k] = m
    BY <1>2, CopyIs
  <2>2. inFlight[p] \in Seq(Items)
    BY AnswerTypes
  <2>3. IsIn(x, inFlight[p] \o Copy(t, p, m))
    BY <1>4, <1>5
  <2>4. IsIn(x, inFlight[p]) \/ IsIn(x, Copy(t, p, m))
    BY <2>1, <2>2, <2>3, InConcat
  <2>. QED  BY <2>1, <2>4 DEF IsIn
<1>6. pc[r] # "idle"
  BY <1>1, IdleUnsent
<1>7. PublishedInv(r)'
  <2>1. UpTo(r)' \subseteq seen'[target'[r]]
    BY <1>1, <1>2, <1>3, <1>4 DEF PublishedInv
  <2>2. \A p \in Nodes : \A x \in ChunksOf(r) : x \in seen'[p] \/ IsIn(x, inFlight'[p]) => x \in UpTo(r)'
    BY <1>3, <1>4, <1>5 DEF PublishedInv
  <2>3. run'[r].sent <= Len(run'[r].tokens)
    BY <1>1, <1>2
  <2>. QED  BY <1>1, <1>6, <2>1, <2>2, <2>3 DEF PublishedInv, ChunksOf, IsIn
<1>8. UNCHANGED Awaiting(r)
  BY <1>1 DEF Awaiting, Listening
<1>9. /\ Reached(r) = (IF h = t THEN 0 ELSE sent) /\ Reached(r)' = (IF h = t THEN 0 ELSE sent + 1)
      /\ Reached(r) \in Nat /\ Reached(r)' \in Nat /\ Reached(r) <= Reached(r)'
  BY <1>1, <1>2 DEF Reached
<1>10. ASSUME NEW a \in Nat, OnTheWay(r, a), Unheard(r)
       PROVE  OnTheWay(r, a)' /\ Unheard(r)'
  <2>1. Way(r, tokens, a, rx[r], events[h], sending[h], inFlight[h], Reached(r))
    BY <1>10 DEF OnTheWay
  <2>2. inFlight[h] \in Seq(Items)
    BY <1>2, AnswerTypes
  <2>3. CASE h = t
    <3>1. Copy(t, h, m) = <<>>
      BY <2>3 DEF Copy
    <3>2. inFlight'[h] = inFlight[h]
      BY <1>2, <1>4, <2>2, <3>1, ConcatEmptySeq
    <3>3. OnTheWay(r, a)'
      BY <1>1, <1>9, <2>1, <2>3, <3>2 DEF OnTheWay
    <3>4. \A k \in 1..Len(inFlight[h]) : inFlight[h][k] \notin ChunksOf(r)
      BY <1>2, <1>9, <2>1, <2>3, NothingOnTheWay
    <3>5. Unheard(r)'
      BY <1>1, <3>2, <3>4 DEF Unheard, IsIn, ChunksOf
    <3>. QED  BY <3>3, <3>5
  <2>4. CASE h # t
    <3>1. m.topic = "any"
      BY <1>1 DEF ChunksOf, Chunks
    <3>2. Copy(t, h, m) = IF New(t, m) THEN <<m>> ELSE <<>>
      BY <1>2, <2>4, <3>1 DEF Copy, Subscribers
    <3>3. m \in seen[t] <=> \E j \in 1..sent : ChunkAt(r, tokens)[j] = m
      BY <1>1, <1>2 DEF PublishedInv, UpTo
    <3>4. New(t, m) <=> sent + 1 \in Places(tokens)
      <4>. DEFINE i == sent + 1
      <4>1. i \in Places(tokens) <=> \A j \in 1..i - 1 : ChunkAt(r, tokens)[j] # m
        <5>1. i \in 1..Len(tokens) /\ m = ChunkAt(r, tokens)[i]
          BY <1>1 DEF m
        <5>. HIDE DEF i, tokens
        <5>. QED  BY <1>2, <5>1, NextPlace
      <4>2. i - 1 = sent
        BY <1>2
      <4>. QED  BY <3>3, <4>1, <4>2 DEF New
    <3>5. Brings(r, tokens, Copy(t, h, m), sent, sent + 1)
      BY <1>2, <3>2, <3>4, BringsNext DEF m
    <3>6. Copy(t, h, m) \in Seq(Items)
      BY <1>2, CopyIs
    <3>7. Way(r, tokens, a, rx[r], events[h], sending[h], inFlight[h] \o Copy(t, h, m), sent + 1)
      <4>1. sent + 1 \in Nat /\ sent <= sent + 1
        BY <1>2
      <4>2. Way(r, tokens, a, rx[r], events[h], sending[h], inFlight[h], sent)
        BY <1>9, <2>1, <2>4
      <4>. QED  BY <1>2, <2>2, <3>5, <3>6, <4>1, <4>2, WayGrows
    <3>8. OnTheWay(r, a)'
      BY <1>1, <1>2, <1>4, <1>9, <2>4, <3>7 DEF OnTheWay
    <3>9. ASSUME NEW x \in ChunksOf(r), x \in seen[h], IsIn(x, inFlight[h] \o Copy(t, h, m))
          PROVE  FALSE
      <4>1. IsIn(x, inFlight[h]) \/ IsIn(x, Copy(t, h, m))
        BY <2>2, <3>6, <3>9, InConcat
      <4>2. IsIn(x, Copy(t, h, m)) => x = m /\ New(t, m)
        BY <1>2, <3>2, CopyIs DEF IsIn
      <4>3. x \in seen[t]
        BY <1>2, <3>9 DEF PublishedInv
      <4>. QED  BY <1>10, <3>9, <4>1, <4>2, <4>3 DEF Unheard, New
    <3>10. seen'[h] = seen[h] /\ inFlight'[h] = inFlight[h] \o Copy(t, h, m)
      BY <1>2, <1>4, <2>4
    <3>11. Unheard(r)'
      BY <1>1, <3>9, <3>10 DEF Unheard, IsIn, ChunksOf
    <3>. QED  BY <3>8, <3>11
  <2>. QED  BY <2>3, <2>4
<1>11. r \notin overflown =>
           \E a \in Nat : /\ a <= Reached(r)' /\ Brings(r, tokens, answer[r], 0, a)
                          /\ Awaiting(r) => OnTheWay(r, a)' /\ Unheard(r)'
  BY <1>9, <1>10 DEF FlowInv
<1>. QED  BY <1>1, <1>7, <1>8, <1>11 DEF FlowInv, ChunksOf, Brings


LEMMA AnswersInit == Init => AnswersInv
<1>. SUFFICES ASSUME Init, NEW r \in Requests PROVE PublishedInv(r) /\ FlowInv(r)
  BY DEF AnswersInv
<1>2. InferenceTypes
  BY TypesInit
<1>. DEFINE h == home[r]  tokens == run[r].tokens
<1>3. /\ pc[r] = "idle" /\ rx[r] = <<>> /\ answer[r] = <<>> /\ run[r] = NotRun
      /\ \A n \in Nodes : inFlight[n] = <<>> /\ seen[n] = {} /\ events[n] = <<>> /\ sending[n] = <<>>
  BY DEF Init
<1>4. h \in Nodes /\ target[r] \in Nodes /\ tokens \in Seq(Tokens) /\ Len(tokens) = 0 /\ Len(<<>>) = 0
  BY <1>2, <1>3, AnswerTypes DEF NotRun
<1>5. run[r].sent = 0 /\ UpTo(r) = {} /\ Reached(r) = 0
  BY <1>3 DEF NotRun, UpTo, Reached
<1>6. PublishedInv(r)
  BY <1>3, <1>4, <1>5 DEF PublishedInv, IsIn
<1>. HIDE DEF tokens
<1>7. Brings(r, tokens, <<>>, 0, 0)
  BY <1>4, BringsNothing
<1>8. Way(r, tokens, 0, <<>>, <<>>, <<>>, <<>>, 0)
  BY <1>7 DEF Way
<1>9. OnTheWay(r, 0) /\ Unheard(r)
  BY <1>3, <1>4, <1>5, <1>8 DEF OnTheWay, Unheard, tokens
<1>. QED  BY <1>3, <1>4, <1>5, <1>6, <1>7, <1>9 DEF FlowInv, tokens

LEMMA AnswersStep ==
    ASSUME InferenceTypes, CollectorInv, OnceInv, AnswersInv, [Next]_vars
    PROVE  AnswersInv'
<1>1. faults \in Nat
  BY InferenceAssumption DEF InferenceTypes
<1>2. Fault => faults' # 0
  BY <1>1 DEF Fault
<1>3. ASSUME UNCHANGED faults, \A r \in Requests : PublishedInv(r) /\ FlowInv(r) => PublishedInv(r)' /\ FlowInv(r)'
      PROVE  AnswersInv'
  BY <1>3 DEF AnswersInv
<1>4. CASE UNCHANGED vars
  <2>1. UNCHANGED <<pc, home, target, rx, answer, overflown, networkVars, events, sending, run, faults>>
    BY <1>4 DEF vars, handlerVars, nodeVars
  <2>2. \A r \in Requests : UNCHANGED Awaiting(r)
    BY <2>1 DEF Awaiting, Listening
  <2>. QED  BY <1>3, <2>1, <2>2, AnswersQuiet
<1>5. ASSUME NEW n \in Nodes, SwarmTask(n) \/ EventLoop(n) \/ OwnPeerId(n) \/ OtherEvent(n)
      PROVE  AnswersInv'
  <2>1. UNCHANGED faults
    BY <1>5 DEF SwarmTask, EventLoop, Deliver, Send, HandleRequest, HandleChunk, HandleOther, OwnPeerId, OtherEvent
  <2>. QED  BY <1>3, <1>5, <2>1, AnswersSend, AnswersDelivered, AnswersPopped, AnswersBegin, AnswersOther DEF SwarmTask
<1>6. ASSUME NEW q \in Requests, Register(q) \/ Subscribe(q) \/ Timeout(q) \/ Cleanup(q) \/ Drop(q)
      PROVE  AnswersInv'
  <2>1. UNCHANGED <<home, target, rx, answer, overflown, networkVars, events, sending, run, faults>>
    BY <1>6 DEF Register, Subscribe, Timeout, Cleanup, Drop, nodeVars
  <2>2. PICK to \in {"subscribe", "publish", "cleanup", "done", "dropped"} : Goto(q, to)
    BY <1>6 DEF Register, Subscribe, Timeout, Cleanup, Drop
  <2>3. Awaiting(q)
    BY <1>6 DEF Register, Subscribe, Timeout, Cleanup, Drop, Awaiting, Listening, Working
  <2>4. ASSUME NEW r \in Requests
        PROVE  (Awaiting(r)' => Awaiting(r)) /\ (pc'[r] = "idle" => pc[r] = "idle")
    BY <2>2, <2>3 DEF Goto, Awaiting, Listening, InferenceTypes, HandlerTypes
  <2>. QED  BY <1>3, <2>1, <2>4, AnswersQuiet
<1>7. ASSUME NEW q \in Requests, Broadcast(q) \/ Receive(q)
      PROVE  AnswersInv'
  <2>1. UNCHANGED faults
    BY <1>7 DEF Broadcast, Receive
  <2>. QED  BY <1>3, <1>7, <2>1, AnswersBroadcast, AnswersReceived
<1>8. ASSUME NEW q \in Requests, PublishChunk(q)
      PROVE  AnswersInv'
  <2>1. UNCHANGED faults
    BY <1>8 DEF PublishChunk
  <2>. QED  BY <1>3, <1>8, <2>1, AnswersPublished, AnswersPublishedOfOthers
<1>9. ASSUME NEW n \in Nodes, Disturb(n)
      PROVE  AnswersInv'
  BY <1>2, <1>9 DEF Disturb, AnswersInv
<1>10. ASSUME NEW q \in Requests, BroadcastFails(q) \/ EngineFails(q)
       PROVE  AnswersInv'
  BY <1>2, <1>10 DEF BroadcastFails, EngineFails, AnswersInv
<1>. QED  BY <1>4, <1>5, <1>6, <1>7, <1>8, <1>9, <1>10 DEF Next, Handler

\* The chunks collected of an answer, the final one among them.
LEMMA AllCollected ==
    ASSUME NEW r \in Requests, NEW tokens \in Seq(Tokens), NEW items \in Seq(Items), NEW a \in Nat,
           Brings(r, tokens, items, 0, a), \A k \in 1..Len(items) : items[k] \in ChunksOf(r),
           items # <<>>, items[Len(items)].last
    PROVE  Text(items) = Collapsed(tokens)
<1>. DEFINE at == ChunkAt(r, tokens)  m == Len(items)
            Of(k, i) == i \in Places(tokens) /\ i <= a /\ items[k] = at[i]
            place == [k \in 1..m |-> CHOOSE i : Of(k, i)]
<1>1. m \in Nat /\ m \in 1..m /\ Len(tokens) \in Nat
  BY EmptySeq, LenProperties
<1>2. \A i \in Places(tokens) : i \in 1..Len(tokens) /\ ComesThrough(tokens, i)
  BY DEF Places
<1>3. \A i \in 1..Len(tokens) : at[i].token = tokens[i] /\ at[i].last = (i = Len(tokens))
  BY DEF ChunkAt, Chunk
<1>4. \A k \in 1..m : Of(k, place[k])
  <2>1. ASSUME NEW k \in 1..m
        PROVE  \E i : Of(k, i)
    BY DEF Brings, Carries
  <2>2. \A k \in 1..m : place[k] = CHOOSE i : Of(k, i)
    OBVIOUS
  <2>. HIDE DEF Of, place
  <2>. QED  BY <2>1, <2>2
<1>. HIDE DEF place
<1>5. \A k \in 1..m : place[k] \in 1..Len(tokens) /\ ComesThrough(tokens, place[k])
  BY <1>2, <1>4
<1>6. \A k, l \in 1..m : k < l => place[k] < place[l]
  <2>1. \A k, l \in 1..m, i, j \in Places(tokens) : k < l /\ items[k] = at[i] /\ items[l] = at[j] => i < j
    BY DEF Brings, Carries
  <2>. HIDE DEF at
  <2>. QED  BY <1>4, <2>1
<1>7. Len(tokens) <= a
  <2>1. place[m] = Len(tokens)
    BY <1>1, <1>3, <1>4, <1>5
  <2>. QED  BY <1>1, <1>4, <2>1
<1>8. ASSUME NEW i \in 1..Len(tokens), ComesThrough(tokens, i)
      PROVE  \E k \in 1..m : place[k] = i
  <2>1. i \in Places(tokens) /\ 0 < i /\ i <= a
    BY <1>1, <1>7, <1>8 DEF Places
  <2>2. PICK k \in 1..m : items[k] = at[i]
    BY <2>1 DEF Brings, Carries
  <2>3. \A j \in Places(tokens) : at[j] = at[i] => j = i
    BY <2>1, TokensStream DEF Stream
  <2>. QED  BY <1>4, <2>2, <2>3
<1>9. Collapsed(tokens) = Picks(tokens, place, m)
  BY <1>1, <1>5, <1>6, <1>8, CollapsedPlaces
<1>10. \A k \in 1..m : items[k].token = tokens[place[k]]
  BY <1>3, <1>4, <1>5
<1>. QED  BY <1>9, <1>10 DEF Text, Picks

\* The chunks of an answer are published on a topic every node hears, taken in by
\* the swarm task, queued for the event loop and for the handler, and a publication
\* like one before it is refused: an answer whose final chunk was collected is what
\* the engine generated, less what it repeated, with nothing missing in between and
\* nothing of another request's answer, unless a fault or a full collector took a chunk.
THEOREM CompleteAnswersAreGenerated == Spec => []CompleteIsGenerated
<1>. DEFINE Inv == InferenceTypes /\ CollectorInv /\ OnceInv /\ AnswersInv
<1>1. Inv /\ [Next]_vars => Inv'
  BY TypesStep, CollectorStep, OnceStep, AnswersStep
<1>2. Inv => CompleteIsGenerated
  <2>. SUFFICES ASSUME Inv, NEW r \in Requests, Complete(r), ~(faults > 0), r \notin overflown
                PROVE  Text(answer[r]) = Collapsed(run[r].tokens)
    BY DEF CompleteIsGenerated
  <2>1. faults = 0
    BY InferenceAssumption DEF InferenceTypes
  <2>2. FlowInv(r)
    BY <2>1 DEF AnswersInv
  <2>3. PICK a \in Nat : Brings(r, run[r].tokens, answer[r], 0, a)
    BY <2>2 DEF FlowInv
  <2>4. \A k \in 1..Len(answer[r]) : answer[r][k] \in ChunksOf(r)
    BY <2>2 DEF FlowInv
  <2>. QED  BY <2>3, <2>4, AnswerTypes, AllCollected DEF Complete
<1>3. Init => Inv
  BY TypesInit, CollectorInit, OnceInit, AnswersInit
<1>. QED  BY <1>1, <1>2, <1>3, PTL DEF Spec
=============================================================================
