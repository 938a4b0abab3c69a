----------------------------- MODULE Marketplace -----------------------------
(***************************************************************************)
(* Soliciting bids: marketplace_request_handler on the node a client asks, *)
(* the bid engine of every other node, and the event loop that hands bids  *)
(* to the collector of their request.                                      *)
(*                                                                         *)
(* A request goes out on the topic of its model and on inference/any.  A   *)
(* node that hears it decides whether to bid, reads its load once more and *)
(* sends one bid, on inference/any.  Bids that come before the deadline    *)
(* are collected, as long as the collector has room; then they are sorted  *)
(* and answered, with the address the registry has of each bidder.         *)
(***************************************************************************)
EXTENDS Integers, Sequences, FiniteSets

CONSTANTS Asks,
          Budget,        \* the budget of each of them
          Private,       \* those that need a TEE
          Bidders,
          Engines,       \* what a bidder may be configured to be
          Loads,         \* active jobs and queued jobs a scheduler may tell
          CollectorCap,  \* room in a collector (64)
          MaxLosses,     \* bound: messages lost, publications refused
          MaxHangups     \* bound: handlers dropped at an await

ASSUME MarketAssumption ==
    /\ Engines \subseteq [serves : BOOLEAN, slots : Nat, price : Nat, escrow : Nat, tee : BOOLEAN]
    /\ Loads \subseteq [active : Nat, queued : Nat]
    /\ Budget \in [Asks -> Nat] /\ Private \subseteq Asks
    /\ CollectorCap \in Nat \ {0}
    /\ MaxLosses \in Nat /\ MaxHangups \in Nat

VARIABLES
    engine,     \* the configuration of each bidder
    known,      \* the bidders the registry has an address of
    handler,    \* where the handler of each request is
    bidCollectors,
    bids,       \* the bids in the channel of each collector
    collected,  \* those the handler has taken from it
    offers,     \* what it answers
    heard,      \* history: the bids the event loop handled for a waiting handler
    turnedAway, \* history: those the collector had no room for
    air,        \* requests and bids under way
    bidding,    \* where the task of each bidder for a request is, by topic
    losses, hangups

askVars == <<handler, bidCollectors, bids, collected, offers, heard, turnedAway, hangups>>
marketVars == <<engine, known, askVars, air, bidding, losses>>

Ask(r, topic, n) == [kind |-> "ask", req |-> r, topic |-> topic, node |-> n]
Bid(r, n, load) == [kind |-> "bid", req |-> r, node |-> n, latency |-> load.active]

MarketTopics == {"model", "any"}

MarketInit ==
    /\ engine \in [Bidders -> Engines]
    /\ known \in SUBSET Bidders
    /\ handler = [r \in Asks |-> "idle"]
    /\ bidCollectors = {}
    /\ bids = [r \in Asks |-> <<>>]
    /\ collected = [r \in Asks |-> <<>>]
    /\ offers = [r \in Asks |-> <<>>]
    /\ heard = [r \in Asks |-> {}] /\ turnedAway = [r \in Asks |-> {}]
    /\ air = {}
    /\ bidding = [b \in Asks \X MarketTopics \X Bidders |-> "none"]
    /\ losses = 0 /\ hangups = 0

HandlerGoes(r, from, to) == handler[r] = from /\ handler' = [handler EXCEPT ![r] = to]
Loss == losses < MaxLosses /\ losses' = losses + 1

-----------------------------------------------------------------------------
(* The handler.                                                            *)

\* Mutated form: the collector is registered when the request is out.
Solicit_Late(r) ==
    \/ /\ HandlerGoes(r, "idle", "broadcast")
       /\ UNCHANGED <<engine, known, bidCollectors, bids, collected, offers, heard, turnedAway, hangups, air, bidding, losses>>
    \/ /\ handler[r] = "collect" /\ r \notin bidCollectors
       /\ bidCollectors' = bidCollectors \union {r}
       /\ UNCHANGED <<engine, known, handler, bids, collected, offers, heard, turnedAway, hangups, air, bidding, losses>>

\* "Register bid collector channel before broadcasting".
Solicit(r) ==
    /\ HandlerGoes(r, "idle", "broadcast")
    /\ bidCollectors' = bidCollectors \union {r}
    /\ UNCHANGED <<engine, known, bids, collected, offers, heard, turnedAway, hangups, air, bidding, losses>>

\* The request is broadcast; a failure is logged, and bids waited for all the same.
BroadcastAsk(r) ==
    /\ HandlerGoes(r, "broadcast", "collect")
    /\ \/ /\ air' = air \union {Ask(r, topic, n) : topic \in MarketTopics, n \in Bidders}
          /\ UNCHANGED losses
       \/ Loss /\ UNCHANGED air
    /\ UNCHANGED <<engine, known, bidCollectors, bids, collected, offers, heard, turnedAway, hangups, bidding>>

Collect(r) ==
    /\ handler[r] = "collect" /\ bids[r] # <<>>
    /\ collected' = [collected EXCEPT ![r] = Append(@, Head(bids[r]))]
    /\ bids' = [bids EXCEPT ![r] = Tail(@)]
    /\ UNCHANGED <<engine, known, handler, bidCollectors, offers, heard, turnedAway, hangups, air, bidding, losses>>

\* bid_timeout_ms have passed; with 0 nothing is ever collected.
Deadline(r) ==
    /\ HandlerGoes(r, "collect", "cleanup")
    /\ UNCHANGED <<engine, known, bidCollectors, bids, collected, offers, heard, turnedAway, hangups, air, bidding, losses>>

Unregister(r) ==
    /\ HandlerGoes(r, "cleanup", "answer")
    /\ bidCollectors' = bidCollectors \ {r}
    /\ UNCHANGED <<engine, known, bids, collected, offers, heard, turnedAway, hangups, air, bidding, losses>>

\* Mutated form: the last to answer is the first offered.
BestFirst_Newest(bs) == [i \in 1..Len(bs) |-> bs[Len(bs) + 1 - i]]

Precedes(bs, i, j) ==
    bs[i].latency < bs[j].latency \/ (bs[i].latency = bs[j].latency /\ i < j)

\* sort_by is stable, and every bid carries the default reputation: a bid comes
\* after those of a lower latency and those of its own that came before it.
BestFirst(bs) ==
    LET place(i) == Cardinality({j \in 1..Len(bs) : Precedes(bs, j, i)}) + 1
    IN  [k \in 1..Len(bs) |-> bs[CHOOSE i \in 1..Len(bs) : place(i) = k]]

Offer(b) == [node |-> b.node, latency |-> b.latency, url |-> b.node \in known]

\* The registry is read once, and the bids sorted and answered.
AnswerOffers(r) ==
    /\ HandlerGoes(r, "answer", "done")
    /\ LET sorted == BestFirst(collected[r]) IN
       offers' = [offers EXCEPT ![r] = [i \in 1..Len(sorted) |-> Offer(sorted[i])]]
    /\ UNCHANGED <<engine, known, bidCollectors, bids, collected, heard, turnedAway, hangups, air, bidding, losses>>

Soliciting == {"broadcast", "collect", "cleanup", "answer"}

\* The client hangs up: a collector that is registered stays.
HangUp(r) ==
    /\ handler[r] \in Soliciting
    /\ hangups < MaxHangups
    /\ hangups' = hangups + 1
    /\ handler' = [handler EXCEPT ![r] = "dropped"]
    /\ UNCHANGED <<engine, known, bidCollectors, bids, collected, offers, heard, turnedAway, air, bidding, losses>>

-----------------------------------------------------------------------------
(* The event loops.                                                        *)

\* KnownTopic::from_hash: what comes on the topic of a model is ignored.
KnownTopic(topic) == topic = "any"

\* InferenceRequestReceived: a task is spawned.
HearAsk(ask) ==
    /\ ask \in air /\ ask.kind = "ask"
    /\ air' = air \ {ask}
    /\ bidding' = IF KnownTopic(ask.topic)
                  THEN [bidding EXCEPT ![<<ask.req, ask.topic, ask.node>>] = "heard"]
                  ELSE bidding
    /\ UNCHANGED <<engine, known, askVars, losses>>

\* The handler holds the receiving end of its collector, and still listens.
Awaiting(r) == handler[r] \in {"broadcast", "collect"}

\* BidReceived: the bid goes to the collector of its request, if there is one with
\* room and somebody at its other end.
HearBid(bid) ==
    /\ bid \in air /\ bid.kind = "bid"
    /\ air' = air \ {bid}
    /\ LET r == bid.req IN
       /\ heard' = IF Awaiting(r) THEN [heard EXCEPT ![r] = @ \union {bid}] ELSE heard
       /\ IF r \in bidCollectors /\ handler[r] \in Soliciting
          THEN IF Len(bids[r]) < CollectorCap
               THEN bids' = [bids EXCEPT ![r] = Append(@, bid)] /\ UNCHANGED turnedAway
               ELSE turnedAway' = [turnedAway EXCEPT ![r] = @ \union {bid}] /\ UNCHANGED bids
          ELSE UNCHANGED <<bids, turnedAway>>
    /\ UNCHANGED <<engine, known, handler, bidCollectors, collected, offers, hangups, bidding, losses>>

LoseMessage(message) ==
    /\ message \in air /\ Loss
    /\ air' = air \ {message}
    /\ UNCHANGED <<engine, known, askVars, bidding>>

-----------------------------------------------------------------------------
(* The bid engine, in a task of its own for each request.                  *)

MaxOf(a, b) == IF a < b THEN b ELSE a

\* should_bid: the model, a slot, the queue, the budget and the TEE.  A win is
\* never recorded, so nothing is throttled.
ShouldBid(n, r, load) ==
    LET e == engine[n] IN
    /\ e.serves
    /\ load.active < e.slots
    /\ load.queued <= 2 * e.slots
    /\ Budget[r] >= MaxOf((e.price * 100) \div 1000, e.escrow)
    /\ r \in Private => e.tee

Decide(r, topic, n) ==
    /\ bidding[<<r, topic, n>>] = "heard"
    /\ \E load \in Loads :
          bidding' = [bidding EXCEPT ![<<r, topic, n>>] = IF ShouldBid(n, r, load) THEN "bid" ELSE "declined"]
    /\ UNCHANGED <<engine, known, askVars, air, losses>>

\* build_bid reads the load again; a publication that is refused is logged.
SendBid(r, topic, n) ==
    /\ bidding[<<r, topic, n>>] = "bid"
    /\ bidding' = [bidding EXCEPT ![<<r, topic, n>>] = "sent"]
    /\ \/ /\ \E load \in Loads : air' = air \union {Bid(r, n, load)}
          /\ UNCHANGED losses
       \/ Loss /\ UNCHANGED air
    /\ UNCHANGED <<engine, known, askVars>>

-----------------------------------------------------------------------------
MarketNext ==
    \/ \E r \in Asks :
          \/ Solicit(r) \/ BroadcastAsk(r) \/ Collect(r) \/ Deadline(r) \/ Unregister(r)
          \/ AnswerOffers(r) \/ HangUp(r)
          \/ \E topic \in MarketTopics, n \in Bidders : Decide(r, topic, n) \/ SendBid(r, topic, n)
    \/ \E message \in air : HearAsk(message) \/ HearBid(message) \/ LoseMessage(message)

MarketSpec == MarketInit /\ [][MarketNext]_marketVars

-----------------------------------------------------------------------------
(* Properties.                                                             *)

Latencies == {load.active : load \in Loads}
MarketBids == [kind : {"bid"}, req : Asks, node : Bidders, latency : Latencies]

\* Every variable has its type, and no collector holds more than it has room for.
MarketTypeOK ==
    /\ engine \in [Bidders -> Engines] /\ known \subseteq Bidders
    /\ handler \in [Asks -> {"idle", "done", "dropped"} \union Soliciting]
    /\ bidCollectors \subseteq Asks
    /\ bids \in [Asks -> Seq(MarketBids)] /\ \A r \in Asks : Len(bids[r]) <= CollectorCap
    /\ collected \in [Asks -> Seq(MarketBids)]
    /\ offers \in [Asks -> Seq([node : Bidders, latency : Latencies, url : BOOLEAN])]
    /\ heard \in [Asks -> SUBSET MarketBids] /\ turnedAway \in [Asks -> SUBSET MarketBids]
    /\ air \subseteq MarketBids \union [kind : {"ask"}, req : Asks, topic : MarketTopics, node : Bidders]
    /\ bidding \in [Asks \X MarketTopics \X Bidders -> {"none", "heard", "declined", "bid", "sent"}]
    /\ losses \in 0..MaxLosses /\ hangups \in 0..MaxHangups

Elements(s) == {s[i] : i \in 1..Len(s)}

\* A request goes out on two topics and nodes keep no record of what they bid for:
\* yet a client is offered every node once, and only nodes that can serve it.
OneOfferPerNode ==
    \A r \in Asks :
        /\ \A i, j \in 1..Len(offers[r]) : offers[r][i].node = offers[r][j].node => i = j
        /\ \A o \in Elements(offers[r]) : engine[o.node].serves /\ (r \in Private => engine[o.node].tee)

\* The best offer is the first.
BestOfferFirst ==
    \A r \in Asks : \A i, j \in 1..Len(offers[r]) : i < j => offers[r][i].latency <= offers[r][j].latency

OffersAreRight == OneOfferPerNode /\ BestOfferFirst

Offered(r, bid) == \E o \in Elements(offers[r]) : o.node = bid.node /\ o.latency = bid.latency

\* "so we don't miss early bids": a bid that comes before the deadline is in the
\* answer, unless its collector was full or the deadline came before it was read.
EveryBidCounted ==
    \A r \in Asks : handler[r] # "dropped" =>
        \A bid \in heard[r] \ turnedAway[r] :
            \/ bid \in Elements(bids[r])
            \/ IF handler[r] = "done" THEN Offered(r, bid) ELSE bid \in Elements(collected[r])

\* A collector outlives only a handler whose client hung up.
NoStrayCollectors ==
    \A r \in bidCollectors : handler[r] \in {"broadcast", "collect", "cleanup", "dropped"}

BidsAreCollected == EveryBidCounted /\ NoStrayCollectors

\* The market answers a client with all bids it heard in time, one per node and the
\* best first, and forgets the request (daemon.rs:748-761, 901-920, api/mod.rs:1250-1365).
MarketAnswers == OffersAreRight /\ BidsAreCollected
==============================================================================
