----------------------------- MODULE Conversation -----------------------------
(***************************************************************************)
(* Conversation history: the three context stores of context/src/store.rs, *)
(* and the handlers of node/src/api/mod.rs that load a session's history   *)
(* before they infer and append the turn after.  The node uses one of the  *)
(* stores.  Its runtime has several threads: what holds no lock, such as   *)
(* the file store, is interleaved at every access of the file.             *)
(***************************************************************************)
EXTENDS Integers, SequencesExt, Sums

CONSTANTS Requests,  \* a request is the turn it adds: a prompt and its answer
          Sessions,  \* session ids
          FileName,  \* LocalFileContextStore::path: what is left of a session id
          Backends,  \* of the stores, those the node may be configured with
          MaxMsgs,   \* max_messages; 0: no limit
          Bytes,     \* how long the content of each message is
          Budget,    \* max_context_tokens; 0: no limit
          TTL,       \* ttl_seconds; 0: no expiry, and no entry in Redis
          MaxTime,   \* bound: the clock
          MaxFaults, \* bound: failed accesses of the store
          MaxCrashes,\* bound: restarts of the node
          Nil        \* no entry, no request

Message == [turn : Requests, role : {"user", "assistant"}]

ASSUME ConversationAssumption ==
    /\ Backends \subseteq {"memory", "local", "redis"}
    /\ Bytes \in [Message -> Nat]
    /\ MaxMsgs \in Nat /\ Budget \in Nat /\ TTL \in Nat
    /\ MaxTime \in Nat /\ MaxFaults \in Nat /\ MaxCrashes \in Nat
    /\ Nil \notin [msgs : Seq(Message), touched : Nat]

VARIABLES backend,  \* the store the node was configured with
          store,    \* what it holds for each key
          evicting, \* the keys whose file evict_expired has found too old
          pc, session, kind, \* of each request; kind is its handler
          read,     \* the messages an append has read
          context,  \* the history it has loaded
          clock, faults, crashes,
          known,    \* auxiliary: the turns answered before a request came
          raced,    \* auxiliary: keys on which unlocked accesses have overlapped
          lost      \* auxiliary: keys that have lost a turn for a reason

storeVars == <<backend, store, evicting>>
auxVars == <<known, raced, lost>>
boundVars == <<clock, faults, crashes>>
vars == <<storeVars, pc, session, kind, read, context, boundVars, auxVars>>

FileNames == {FileName[s] : s \in Sessions}
Keys == Sessions \union FileNames

Init ==
    /\ backend \in Backends
    /\ store = [k \in Keys |-> Nil]
    /\ evicting = {}
    /\ pc = [r \in Requests |-> "idle"]
    /\ session = [r \in Requests |-> Nil]
    /\ kind = [r \in Requests |-> "infer"]
    /\ read = [r \in Requests |-> <<>>]
    /\ context = [r \in Requests |-> <<>>]
    /\ clock = 0 /\ faults = 0 /\ crashes = 0
    /\ known = [r \in Requests |-> {}]
    /\ raced = {} /\ lost = {}

\* Mutated form: the memory store under the file store's names.
KeyOf_File(s) == FileName[s]

\* The file store keeps the letters, digits and dashes of a session id.
KeyOf(s) == IF backend = "local" THEN FileName[s] ELSE s

Key(r) == KeyOf(session[r])
Goto(r, p) == pc' = [pc EXCEPT ![r] = p]
Fault == faults < MaxFaults /\ faults' = faults + 1

Messages(k) == IF store[k] = Nil THEN <<>> ELSE store[k].msgs
Age(k) == clock - store[k].touched
Old(k) == TTL > 0 /\ store[k] # Nil /\ Age(k) > TTL
Entry(msgs) == [msgs |-> msgs, touched |-> clock]

Turn(r) == <<[turn |-> r, role |-> "user"], [turn |-> r, role |-> "assistant"]>>

Newest(msgs, n) == IF n > 0 /\ Len(msgs) > n THEN SubSeq(msgs, Len(msgs) - n + 1, Len(msgs)) ELSE msgs

\* A turn is added; max_messages counts messages, not turns.
Appended(msgs, r) == Newest(msgs \o Turn(r), MaxMsgs)

\* Whoever reads a file, or finds it too old, before it writes or removes it.
Busy(k) == {r \in Requests : pc[r] \in {"stale", "truncate", "write", "set"} /\ Key(r) = k}

\* Auxiliary: what an access of a key in use makes of raced.
Race(k, others) == raced' = IF others # {} \/ k \in evicting THEN raced \union {k} ELSE raced

-----------------------------------------------------------------------------
(* The handlers.                                                           *)

\* A request with a session id comes.  A chat brings its own history.  One that
\* names a peer is answered by the peer, and is neither given history nor added.
Arrive(r) ==
    /\ pc[r] = "idle"
    /\ \E s \in Sessions, h \in {"infer", "chat", "peer"} :
          /\ session' = [session EXCEPT ![r] = s]
          /\ kind' = [kind EXCEPT ![r] = h]
          /\ Goto(r, IF h = "infer" THEN "load" ELSE "infer")
          /\ known' = [known EXCEPT ![r] =
                {u \in Requests : pc[u] = "answered" /\ kind[u] # "peer" /\ session[u] = s}]
    /\ UNCHANGED <<storeVars, read, context, boundVars, raced, lost>>

Loaded(r, msgs) ==
    /\ context' = [context EXCEPT ![r] = msgs]
    /\ Goto(r, "infer")

\* A token for four bytes, or for what is left of them, and four for the role.
MessageTokens(m) == (Bytes[m] + 3) \div 4 + 4

Tokens(msgs) == [i \in DOMAIN msgs |-> MessageTokens(msgs[i])]

\* trim_context_window: from the newest message back, up to the first that does not
\* fit.  A request to /v1/infer has no system prompt.
KeepFrom(msgs) == IF Budget = 0 THEN 1 ELSE LongestEnd(Tokens(msgs), Budget).first

\* What the engine is given besides the prompt.
Prompted(r) == SubSeq(context[r], KeepFrom(context[r]), Len(context[r]))

\* get_messages: the memory store touches what it returns, the file store does
\* not, Redis knows no old entry.
LoadCurrent(r) ==
    LET k == Key(r) IN
    /\ pc[r] = "load"
    /\ backend = "redis" \/ ~Old(k)
    /\ Loaded(r, Messages(k))
    /\ store' = IF backend = "memory" /\ store[k] # Nil
                THEN [store EXCEPT ![k].touched = clock] ELSE store
    /\ Race(k, {u \in Busy(k) : pc[u] = "write"})
    /\ UNCHANGED <<backend, evicting, session, kind, read, boundVars, known, lost>>

\* The memory store removes an old entry under its lock,
LoadOld(r) ==
    LET k == Key(r) IN
    /\ pc[r] = "load" /\ backend = "memory" /\ Old(k)
    /\ store' = [store EXCEPT ![k] = Nil]
    /\ lost' = lost \union {k}
    /\ Loaded(r, <<>>)
    /\ UNCHANGED <<backend, evicting, session, kind, read, boundVars, known, raced>>

\* the file store after it has looked at the time of the file.
LoadOldFile(r) ==
    LET k == Key(r) IN
    /\ pc[r] = "load" /\ backend = "local" /\ Old(k)
    /\ Goto(r, "stale")
    /\ Race(k, Busy(k))
    /\ UNCHANGED <<storeVars, session, kind, read, context, boundVars, known, lost>>

RemoveOldFile(r) ==
    /\ pc[r] = "stale"
    /\ store' = [store EXCEPT ![Key(r)] = Nil]
    /\ lost' = lost \union {Key(r)}
    /\ Loaded(r, <<>>)
    /\ UNCHANGED <<backend, evicting, session, kind, read, boundVars, known, raced>>

\* "load failed - using empty context".
LoadFails(r) ==
    /\ pc[r] = "load" /\ backend = "redis"
    /\ Fault
    /\ Loaded(r, <<>>)
    /\ lost' = lost \union {Key(r)}
    /\ UNCHANGED <<storeVars, session, kind, read, clock, crashes, known, raced>>

\* The prompt and its history go to the engine.
Sent(r) ==
    /\ context' = [context EXCEPT ![r] = <<>>]
    /\ known' = [known EXCEPT ![r] = {}]

\* Mutated form: the turn is saved in a task of its own.
Infer_SpawnsAppend(r) ==
    /\ pc[r] = "infer"
    /\ \/ Goto(r, "answered")
       \/ kind[r] # "peer" /\ Goto(r, "append")
       \/ Goto(r, "unanswered")
    /\ Sent(r)
    /\ UNCHANGED <<storeVars, session, kind, read, boundVars, raced, lost>>

\* The engine answers, or there is no permit, or the engine fails.
Infer(r) ==
    /\ pc[r] = "infer"
    /\ \/ Goto(r, IF kind[r] = "peer" THEN "answered" ELSE "append")
       \/ Goto(r, "unanswered")
    /\ Sent(r)
    /\ UNCHANGED <<storeVars, session, kind, read, boundVars, raced, lost>>

\* append of the memory store, under its lock: an old entry is not looked at.
AppendMemory(r) ==
    /\ pc[r] = "append" /\ backend = "memory"
    /\ store' = [store EXCEPT ![Key(r)] = Entry(Appended(Messages(Key(r)), r))]
    /\ Goto(r, "answered")
    /\ UNCHANGED <<backend, evicting, session, kind, read, context, boundVars, auxVars>>

\* The other two read first: the file,
ReadFile(r) ==
    /\ pc[r] = "append" /\ backend = "local"
    /\ read' = [read EXCEPT ![r] = Messages(Key(r))]
    /\ Goto(r, "truncate")
    /\ Race(Key(r), Busy(Key(r)))
    /\ UNCHANGED <<storeVars, session, kind, context, boundVars, known, lost>>

\* or Redis' GET;
GetRedis(r) ==
    /\ pc[r] = "append" /\ backend = "redis"
    /\ read' = [read EXCEPT ![r] = Messages(Key(r))]
    /\ Goto(r, "set")
    /\ Race(Key(r), Busy(Key(r)))
    /\ UNCHANGED <<storeVars, session, kind, context, boundVars, known, lost>>

\* Redis refuses SET EX with an expiry of zero.
NoEntry(r) == pc[r] = "set" /\ TTL = 0

\* then fs::write truncates the file and fills it,
Truncate(r) ==
    /\ pc[r] = "truncate"
    /\ store' = [store EXCEPT ![Key(r)] = Entry(<<>>)]
    /\ Goto(r, "write")
    /\ UNCHANGED <<backend, evicting, session, kind, read, context, boundVars, auxVars>>

\* and SET EX writes.
Write(r) ==
    /\ pc[r] \in {"write", "set"} /\ ~NoEntry(r)
    /\ store' = [store EXCEPT ![Key(r)] = Entry(Appended(read[r], r))]
    /\ read' = [read EXCEPT ![r] = <<>>]
    /\ Goto(r, "answered")
    /\ UNCHANGED <<backend, evicting, session, kind, context, boundVars, auxVars>>

\* "failed to save turn (non-fatal)": the answer is sent all the same.
AppendFails(r) ==
    /\ \/ pc[r] = "append" /\ backend = "redis"
       \/ pc[r] \in {"truncate", "write", "set"}
    /\ faults' = IF NoEntry(r) THEN faults ELSE faults + 1
    /\ faults' <= MaxFaults
    /\ Goto(r, "answered")
    /\ read' = [read EXCEPT ![r] = <<>>]
    /\ lost' = lost \union {Key(r)}
    /\ UNCHANGED <<storeVars, session, kind, context, clock, crashes, known, raced>>

\* Hyper drops the handler at an await: a file is not awaited.
Drop(r) ==
    /\ pc[r] \in {"load", "infer", "append", "set"}
    /\ backend = "local" => pc[r] = "infer"
    /\ Goto(r, "unanswered")
    /\ read' = [read EXCEPT ![r] = <<>>]
    /\ Sent(r)
    /\ UNCHANGED <<storeVars, session, kind, boundVars, raced, lost>>

-----------------------------------------------------------------------------
(* Expiry, eviction and restarts.                                          *)

\* Mutated form: the cleanup retains what is old.
EvictMemory_Inverted ==
    LET gone == {k \in Keys : TTL > 0 /\ store[k] # Nil /\ Age(k) < TTL} IN
    /\ backend = "memory" /\ gone # {}
    /\ store' = [k \in Keys |-> IF k \in gone THEN Nil ELSE store[k]]
    /\ lost' = lost \union gone
    /\ UNCHANGED <<backend, evicting, pc, session, kind, read, context, boundVars, known, raced>>

\* The memory store's cleanup also removes what is as old as the limit.
EvictMemory ==
    LET gone == {k \in Keys : TTL > 0 /\ store[k] # Nil /\ Age(k) >= TTL} IN
    /\ backend = "memory" /\ gone # {}
    /\ store' = [k \in Keys |-> IF k \in gone THEN Nil ELSE store[k]]
    /\ lost' = lost \union gone
    /\ UNCHANGED <<backend, evicting, pc, session, kind, read, context, boundVars, known, raced>>

\* evict_expired looks at the time of a file
EvictFile(k) ==
    /\ backend = "local" /\ Old(k) /\ evicting = {}
    /\ evicting' = {k}
    /\ Race(k, Busy(k))
    /\ UNCHANGED <<backend, store, pc, session, kind, read, context, boundVars, known, lost>>

\* and then removes it.
RemoveFile(k) ==
    /\ k \in evicting
    /\ evicting' = {}
    /\ store' = [store EXCEPT ![k] = Nil]
    /\ lost' = lost \union {k}
    /\ UNCHANGED <<backend, pc, session, kind, read, context, boundVars, known, raced>>

\* Redis forgets a key at its expiry.
Expired == {k \in Keys : backend = "redis" /\ store[k] # Nil /\ Age(k) + 1 >= TTL}

Tick ==
    /\ clock < MaxTime
    /\ clock' = clock + 1
    /\ store' = [k \in Keys |-> IF k \in Expired THEN Nil ELSE store[k]]
    /\ lost' = lost \union Expired
    /\ raced' = raced \union {k \in Expired : Busy(k) # {}}
    /\ UNCHANGED <<backend, evicting, pc, session, kind, read, context, faults, crashes, known>>

Torn == {k \in Keys : \E r \in Busy(k) : pc[r] = "write"}

\* The node stops and starts again: the memory store is empty, a file that was
\* being filled does not parse and counts as empty.
Crash ==
    /\ crashes < MaxCrashes
    /\ crashes' = crashes + 1
    /\ store' = IF backend = "memory" THEN [k \in Keys |-> Nil] ELSE store
    /\ lost' = IF backend = "memory" THEN Keys ELSE lost \union Torn
    /\ pc' = [r \in Requests |-> IF pc[r] \in {"idle", "answered"} THEN pc[r] ELSE "unanswered"]
    /\ evicting' = {}
    /\ read' = [r \in Requests |-> <<>>]
    /\ context' = [r \in Requests |-> <<>>]
    /\ known' = [r \in Requests |-> {}]
    /\ UNCHANGED <<backend, session, kind, clock, faults, raced>>

Handle(r) ==
    \/ Arrive(r)
    \/ LoadCurrent(r) \/ LoadOld(r) \/ LoadOldFile(r) \/ RemoveOldFile(r) \/ LoadFails(r)
    \/ Infer(r)
    \/ AppendMemory(r) \/ ReadFile(r) \/ GetRedis(r) \/ Truncate(r) \/ Write(r) \/ AppendFails(r)
    \/ Drop(r)

Next ==
    \/ \E r \in Requests : Handle(r)
    \/ EvictMemory \/ Tick \/ Crash
    \/ \E k \in Keys : EvictFile(k) \/ RemoveFile(k)

Spec == Init /\ [][Next]_vars

-----------------------------------------------------------------------------
(* Properties.                                                             *)

\* Every variable has its type; no history is longer than its limit.
TypeOK ==
    /\ backend \in Backends
    /\ store \in [Keys -> [msgs : Seq(Message), touched : 0..MaxTime] \union {Nil}]
    /\ evicting \subseteq Keys
    /\ pc \in [Requests -> {"idle", "load", "stale", "infer", "append", "truncate", "write",
                            "set", "answered", "unanswered"}]
    /\ session \in [Requests -> Sessions \union {Nil}]
    /\ kind \in [Requests -> {"infer", "chat", "peer"}]
    /\ read \in [Requests -> Seq(Message)]
    /\ context \in [Requests -> Seq(Message)]
    /\ clock \in 0..MaxTime /\ faults \in 0..MaxFaults /\ crashes \in 0..MaxCrashes
    /\ known \in [Requests -> SUBSET Requests]
    /\ raced \subseteq Keys /\ lost \subseteq Keys
    /\ \A k \in Keys : MaxMsgs > 0 => Len(Messages(k)) <= MaxMsgs

Turns(msgs) == {m.turn : m \in ToSet(msgs)}

\* A prompt goes to the engine with turns of its own session; in the file store also with
\* those of a session whose name differs in what path() leaves out (context/src/store.rs:195),
\* where store.rs:3 and 43 say that the messages are those of the session_id.
OwnHistory ==
    \A r \in Requests : \A u \in Turns(Prompted(r)) :
        \/ session[u] = session[r]
        \/ backend = "local" /\ FileName[session[u]] = FileName[session[r]]

\* What a key's history is: while its file is being filled, what was in it.
History(k) ==
    LET filling == {r \in Busy(k) : pc[r] = "write"} IN
    IF filling = {} THEN Messages(k) ELSE read[CHOOSE r \in filling : TRUE]

\* As long as unlocked accesses do not overlap, a step of the node leaves a
\* history alone, appends the turn of one request to it, or drops all of it: when
\* it is old, when its store restarts, when its file is torn.  The memory store
\* needs no such condition.
HistoryOnlyGrows ==
    [][\A k \in Keys : k \notin raced' =>
          \/ History(k)' = History(k)
          \/ \E r \in Requests : pc[r] # "answered" /\ pc'[r] = "answered"
                                 /\ Key(r) = k /\ History(k)' = Appended(History(k), r)
          \/ History(k)' = <<>> /\ k \in lost' /\ (faults' # faults \/ crashes' # crashes
                                                    \/ (TTL > 0 /\ clock' - store[k].touched >= TTL))]_vars

\* What a client was answered before it sent its request is in the history its
\* handler loads, unless newer messages fill that up, unlocked accesses of the
\* session overlapped, or the history was lost to age, a failure or a restart.
ReadYourTurns ==
    \A r \in Requests :
        \/ kind[r] # "infer" \/ pc[r] # "infer"
        \/ Key(r) \in raced \union lost
        \/ known[r] \subseteq Turns(context[r])
        \/ MaxMsgs > 0 /\ Len(context[r]) = MaxMsgs

\* Of what was loaded the prompt is given the longest end whose messages fit
\* max_context_tokens together: one long message keeps all before it away.
NoMoreIsCut ==
    \A r \in Requests :
        LET msgs == context[r] IN
        \A i \in 1..Len(msgs) :
            i >= KeepFrom(msgs) <=>
                Budget = 0 \/ SumOver(Tokens(msgs), i..Len(msgs)) <= Budget

\* The prompt of /v1/infer goes to the engine with its own session's history: no
\* turn of another but by a shared file (OwnHistory), none of its own missing
\* (ReadYourTurns) but those the token budget has no room for (NoMoreIsCut)
\* (api/mod.rs:685-703, support.rs:37-67, context/src/store.rs).
PromptsAreRight == OwnHistory /\ ReadYourTurns /\ NoMoreIsCut
=============================================================================
