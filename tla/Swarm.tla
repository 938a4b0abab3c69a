-------------------------------- MODULE Swarm --------------------------------
(***************************************************************************)
(* What the other nodes know of one node: the capabilities its swarm task  *)
(* announces, gossip, and the registries (InMemoryPeerStore) of the nodes  *)
(* that listen.  Announcements of different nodes never meet: registries   *)
(* are keyed by the node, and gossip tells messages apart by their bytes.  *)
(*                                                                         *)
(* The node announces itself at every interval, a second after it is       *)
(* connected, and when a peer subscribes to the topic.  Gossip drops what  *)
(* it has seen before, so every announcement carries a number; the number  *)
(* starts again when the node does.  A registry takes whatever comes last, *)
(* and forgets what is not announced again.                                *)
(*                                                                         *)
(* Time passes in announcement intervals (5 seconds): within one, the node *)
(* announces itself, connections exchange subscriptions and messages       *)
(* arrive, in any order.                                                   *)
(***************************************************************************)
EXTENDS Integers

CONSTANTS Listeners,
          Offers,        \* what the node may offer: NodeCapabilities
          Down,          \* what it offers while it does not run
          CacheTTL,      \* intervals gossip remembers a message for (12)
          PeerTTL,       \* intervals an entry of a registry lives (120)
          MaxTime,       \* bound: intervals
          MaxFaults      \* bound: starts and stops, connections broken, messages
                         \* lost

ASSUME SwarmAssumption ==
    /\ CacheTTL \in Nat /\ PeerTTL \in Nat /\ CacheTTL < PeerTTL /\ 1 < PeerTTL
    /\ MaxTime \in Nat /\ MaxFaults \in Nat
    /\ Down \notin Offers

VARIABLES
    caps,      \* what the node offers
    seq,       \* its announce_seq
    announced, \* it has announced itself in this interval
    delayed,   \* it has a delayed_announce ahead
    links,     \* the listeners it is connected to
    mesh,      \* those it knows to have subscribed
    sent,      \* its announcements gossip remembers at its end, with their age,
    seen,      \* and at the listeners'
    wire,      \* announcements under way
    registry,  \* the entry of each peer_store for the node
    calm,      \* history: intervals each listener has been connected undisturbed
    life,      \* history: intervals since the node was started, or stopped
    clock, faults

linkVars == <<links, mesh, calm>>
boundVars == <<life, clock, faults>>
swarmVars == <<caps, seq, announced, delayed, linkVars, sent, seen, wire, registry, boundVars>>

Up == caps # Down
Entry == [caps : Offers, age : Nat]
Unknown == [caps |-> Down, age |-> 0]

SwarmInit ==
    /\ caps = Down /\ seq = 0 /\ announced = FALSE /\ delayed = FALSE
    /\ links = {} /\ mesh = {}
    /\ sent = {} /\ seen = [p \in Listeners |-> {}]
    /\ wire = {}
    /\ registry = [p \in Listeners |-> Unknown]
    /\ calm = [p \in Listeners |-> 0]
    /\ life = 0
    /\ clock = 0 /\ faults = 0

Fault == faults < MaxFaults /\ faults' = faults + 1
Disturbed(ps) == calm' = [p \in Listeners |-> IF p \in ps THEN 0 ELSE calm[p]]

\* gossipsub's duplicate cache: the time of a message is that of its first coming.
Remembered(cache, m) == \E e \in cache : e.msg = m
Remember(cache, m) == cache \union {[msg |-> m, age |-> 0]}

-----------------------------------------------------------------------------
(* Announcements.                                                          *)

\* Mutated form: the number is the same in every announcement.
Envelope_Constant == [caps |-> caps, seq |-> 1]

Envelope == [caps |-> caps, seq |-> seq + 1]

\* publish_announce: the number goes up, whether the message goes out, is told
\* to be a duplicate, or finds nobody to go to.
PublishAnnounce(to) ==
    /\ seq' = seq + 1
    /\ IF Remembered(sent, Envelope) \/ to = {}
       THEN UNCHANGED <<wire, sent>>
       ELSE /\ wire' = wire \union {[to |-> p, msg |-> Envelope] : p \in to}
            /\ sent' = Remember(sent, Envelope)

\* announce_interval.tick(); the heartbeat's announcement is one more.
AnnounceTick ==
    /\ Up /\ ~announced
    /\ PublishAnnounce(mesh)
    /\ announced' = TRUE
    /\ UNCHANGED <<caps, delayed, linkVars, seen, registry, boundVars>>

DelayedAnnounce ==
    /\ delayed
    /\ PublishAnnounce(mesh)
    /\ delayed' = FALSE
    /\ UNCHANGED <<caps, announced, linkVars, seen, registry, boundVars>>

\* gossipsub::Event::Subscribed: the peer is told at once.
Subscribed(p) ==
    /\ p \in links \ mesh
    /\ mesh' = mesh \union {p}
    /\ PublishAnnounce(mesh')
    /\ UNCHANGED <<caps, announced, delayed, links, calm, seen, registry, boundVars>>

-----------------------------------------------------------------------------
(* Receiving.                                                              *)

\* upsert: whatever was known of the peer is replaced.
Upsert(entry, c) == [caps |-> c, age |-> 0]

\* The first time a message comes it is passed on, and the registry told
\* (NodeAnnounceReceived).
Hear(p, m) ==
    /\ [to |-> p, msg |-> m] \in wire
    /\ IF Remembered(seen[p], m)
       THEN /\ wire' = wire \ {[to |-> p, msg |-> m]}
            /\ UNCHANGED <<seen, registry>>
       ELSE /\ \E others \in SUBSET (Listeners \ {p}) :
                  wire' = (wire \ {[to |-> p, msg |-> m]}) \union {[to |-> q, msg |-> m] : q \in others}
            /\ seen' = [seen EXCEPT ![p] = Remember(@, m)]
            /\ registry' = [registry EXCEPT ![p] = Upsert(@, m.caps)]
    /\ UNCHANGED <<caps, seq, announced, delayed, linkVars, sent, boundVars>>

\* is_live: get(), all() and evict_expired() agree on it.
IsLive(entry) == entry # Unknown /\ entry.age < PeerTTL

-----------------------------------------------------------------------------
(* Connections.                                                            *)

\* A bootstrap node is dialled, or a peer mDNS has found.  A node that was
\* isolated announces itself at once, to nobody: no subscription has come yet.
Connect(p) ==
    /\ Up /\ p \notin links
    /\ links' = links \union {p}
    /\ seq' = IF links = {} THEN seq + 1 ELSE seq
    /\ delayed' = TRUE
    /\ Disturbed({p})
    /\ UNCHANGED <<caps, announced, mesh, sent, seen, wire, registry, boundVars>>

Disconnect(p) ==
    /\ p \in links /\ Fault
    /\ links' = links \ {p} /\ mesh' = mesh \ {p}
    /\ Disturbed({p})
    /\ UNCHANGED <<caps, seq, announced, delayed, sent, seen, wire, registry, life, clock>>

\* The network loses a message.
Lose(m) ==
    /\ m \in wire /\ Fault
    /\ wire' = wire \ {m}
    /\ Disturbed(Listeners)
    /\ UNCHANGED <<caps, seq, announced, delayed, links, mesh, sent, seen, registry, life, clock>>

-----------------------------------------------------------------------------
(* Starts, crashes and time.                                               *)

\* The node starts, perhaps to offer something else.  Its identity is that of
\* its key file; its number and its gossip are new.
Start ==
    /\ ~Up
    /\ caps' \in Offers
    /\ seq' = 0 /\ sent' = {} /\ life' = 0
    /\ UNCHANGED <<announced, delayed, linkVars, seen, wire, registry, clock, faults>>

\* The process ends; what it has sent is still under way.
Stop ==
    /\ Up /\ Fault
    /\ caps' = Down
    /\ links' = {} /\ mesh' = {}
    /\ announced' = FALSE /\ delayed' = FALSE
    /\ life' = 0
    /\ Disturbed(Listeners)
    /\ UNCHANGED <<seq, sent, seen, wire, registry, clock>>

\* A listener is started again: its registry and its gossip are empty.
ListenerRestarts(p) ==
    /\ Fault
    /\ links' = links \ {p} /\ mesh' = mesh \ {p}
    /\ seen' = [seen EXCEPT ![p] = {}]
    /\ registry' = [registry EXCEPT ![p] = Unknown]
    /\ wire' = {m \in wire : m.to # p}
    /\ Disturbed({p})
    /\ UNCHANGED <<caps, seq, announced, delayed, sent, life, clock>>

Aged(cache) == {[e EXCEPT !.age = @ + 1] : e \in {f \in cache : f.age < CacheTTL}}

\* An interval has passed, longer than a message, a subscription or a delayed
\* announcement takes.
Interval ==
    /\ clock < MaxTime
    /\ Up => announced
    /\ ~delayed /\ links = mesh /\ wire = {}
    /\ announced' = FALSE
    /\ sent' = Aged(sent) /\ seen' = [p \in Listeners |-> Aged(seen[p])]
    /\ registry' = [p \in Listeners |->
           IF IsLive(registry[p]) THEN [registry[p] EXCEPT !.age = @ + 1] ELSE Unknown]
    /\ calm' = [p \in Listeners |-> IF p \in links THEN calm[p] + 1 ELSE 0]
    /\ life' = life + 1
    /\ clock' = clock + 1
    /\ UNCHANGED <<caps, seq, delayed, links, mesh, wire, faults>>

SwarmNext ==
    \/ AnnounceTick \/ DelayedAnnounce \/ Start \/ Stop \/ Interval
    \/ \E p \in Listeners : Subscribed(p) \/ Connect(p) \/ Disconnect(p) \/ ListenerRestarts(p)
    \/ \E m \in wire : Hear(m.to, m.msg) \/ Lose(m)

SwarmSpec == SwarmInit /\ [][SwarmNext]_swarmVars

-----------------------------------------------------------------------------
(* Properties.                                                             *)

Announcements == [caps : Offers, seq : Nat]

\* Every variable has its type.
SwarmTypeOK ==
    /\ caps \in Offers \union {Down} /\ seq \in Nat
    /\ announced \in BOOLEAN /\ delayed \in BOOLEAN
    /\ mesh \subseteq links /\ links \subseteq Listeners
    /\ sent \subseteq [msg : Announcements, age : 0..CacheTTL]
    /\ seen \in [Listeners -> SUBSET [msg : Announcements, age : 0..CacheTTL]]
    /\ wire \subseteq [to : Listeners, msg : Announcements]
    /\ registry \in [Listeners -> Entry \union {Unknown}]
    /\ calm \in [Listeners -> Nat]
    /\ life \in 0..MaxTime /\ clock \in 0..MaxTime /\ faults \in 0..MaxFaults

\* "so gossipsub's duplicate-message filter won't suppress repeated periodic
\* announcements": two intervals after they were connected, a listener knows what
\* the node offers now.  A node that runs for no longer than gossip remembers may
\* count up the numbers it used before it was started again, and not be heard: the bytes
\* of an announcement are unique in one life of the node (service.rs:259-261, 463).
ConnectedIsKnown ==
    \A p \in Listeners :
        calm[p] >= 2 /\ life > CacheTTL + 1
            => IsLive(registry[p]) /\ registry[p].caps = caps

\* "a peer that stops re-announcing is dropped": nobody is told of a node that
\* has been silent for as long as an entry may live.
SilentIsForgotten ==
    \A p \in Listeners : ~Up /\ life > PeerTTL => ~IsLive(registry[p])

RegistryIsFresh == ConnectedIsKnown /\ SilentIsForgotten
==============================================================================
