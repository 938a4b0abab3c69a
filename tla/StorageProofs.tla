---------------------------- MODULE StorageProofs ----------------------------
(***************************************************************************)
(* What is kept for clients, for any number of requests, sessions, calls   *)
(* and media, and any failures and restarts: a conversation's history, in  *)
(* any of the context stores, the blobs of the storage crate, the sessions *)
(* of a user, and the window of a conversation that fits a model.          *)
(***************************************************************************)
EXTENDS MCConversation, SequenceTheorems, SumTheorems

(***************************************************************************)
(* Part 1: conversation history.  While no two unlocked accesses of a key  *)
(* have overlapped, one request at most is between two accesses of it, and *)
(* what that one has seen is still so (OneAccess): the next write then     *)
(* adds to the history, and forgets nothing anybody was told.              *)
(***************************************************************************)

\* The variables have their types, and the stores their own handlers.
PlacesInv ==
    /\ TypeOK
    /\ evicting # {} => backend = "local"
    /\ \A r \in Requests :
          /\ pc[r] \in {"stale", "truncate", "write"} => backend = "local"
          /\ pc[r] = "set" => backend = "redis"
          /\ pc[r] = "idle" => read[r] = <<>> /\ context[r] = <<>>
          /\ pc[r] # "idle" => session[r] \in Sessions

\* While nothing has overlapped on k, one request at most is between two accesses of it,
\* and what it has seen is still so.
OneAccess(k) ==
    /\ \A r, u \in Busy(k) : r = u
    /\ k \in evicting => Busy(k) = {} /\ Old(k)
    /\ \A r \in Busy(k) :
          /\ pc[r] = "stale" => Old(k)
          /\ pc[r] \in {"truncate", "set"} => read[r] = Messages(k)
          /\ pc[r] = "write" => store[k] # Nil /\ Messages(k) = <<>>

AccessInv == \A k \in Keys \ raced : OneAccess(k)

\* Messages of turns that came on k.
OwnTurns(msgs, k) == \A i \in 1..Len(msgs) : pc[msgs[i].turn] # "idle" /\ Key(msgs[i].turn) = k

OwnInv ==
    /\ \A k \in Keys : OwnTurns(Messages(k), k)
    /\ \A r \in Requests : pc[r] # "idle" => OwnTurns(read[r], Key(r)) /\ OwnTurns(context[r], Key(r))

\* Answered with the store's help.
Told(r) == pc[r] = "answered" /\ kind[r] # "peer"

IsFull(msgs) == MaxMsgs > 0 /\ Len(msgs) = MaxMsgs
Has(msgs, r) == \E i \in 1..Len(msgs) : msgs[i].turn = r

\* Every answered turn is in its history, or newer messages have filled that up.
KeptInv ==
    \A k \in Keys \ (raced \union lost) :
        IsFull(History(k)) \/ \A u \in Requests : Told(u) /\ Key(u) = k => Has(History(k), u)

KnownInv ==
    \A r \in Requests : \A u \in known[r] : pc[r] # "idle" /\ Told(u) /\ session[u] = session[r]

HistoryInv == PlacesInv /\ AccessInv /\ OwnInv /\ KeptInv /\ KnownInv /\ ReadYourTurns

-----------------------------------------------------------------------------
(* Histories.                                                              *)

\* The newest messages are all of them, or as many as the limit says.
LEMMA NewestOf ==
    ASSUME NEW msgs \in Seq(Message), NEW n \in Nat
    PROVE  /\ Newest(msgs, n) \in Seq(Message)
           /\ n > 0 => Len(Newest(msgs, n)) <= n
           /\ Newest(msgs, n) = msgs \/ (n > 0 /\ Len(Newest(msgs, n)) = n)
           /\ \A i \in 1..Len(Newest(msgs, n)) : \E j \in 1..Len(msgs) : Newest(msgs, n)[i] = msgs[j]
<1>len. Len(msgs) \in Nat /\ \A i \in 1..Len(msgs) : msgs[i] \in Message
  BY LenProperties, ElementOfSeq
<1>1. CASE n > 0 /\ Len(msgs) > n
  <2>. DEFINE m == Len(msgs) - n + 1
              new == SubSeq(msgs, m, Len(msgs))
  <2>1. Newest(msgs, n) = new
    BY <1>1 DEF Newest
  <2>2. m \in 1..Len(msgs) /\ Len(msgs) \in Int /\ \A i \in m..Len(msgs) : msgs[i] \in Message
    BY <1>1, <1>len
  <2>3. /\ new \in Seq(Message) /\ Len(new) = Len(msgs) - m + 1
        /\ \A i \in 1..(Len(msgs) - m + 1) : new[i] = msgs[m + i - 1]
    BY <2>2, SubSeqProperties
  <2>4. Len(new) = n
    BY <2>3, <1>len
  <2>5. ASSUME NEW i \in 1..Len(new)
        PROVE  \E j \in 1..Len(msgs) : new[i] = msgs[j]
    <3>1. m + i - 1 \in 1..Len(msgs) /\ new[i] = msgs[m + i - 1]
      BY <2>2, <2>3, <2>4, <2>5, <1>len, <1>1
    <3>. QED  BY <3>1
  <2>. HIDE DEF new, m
  <2>. QED  BY <2>1, <2>3, <2>4, <2>5, <1>1
<1>2. CASE ~(n > 0 /\ Len(msgs) > n)
  <2>1. Newest(msgs, n) = msgs
    BY <1>2 DEF Newest
  <2>. QED  BY <2>1, <1>2, <1>len
<1>. QED  BY <1>1, <1>2

\* A history to which a turn is added has the turn, and all that it had, or is full.
LEMMA AppendedOf ==
    ASSUME NEW msgs \in Seq(Message), NEW r \in Requests
    PROVE  /\ Appended(msgs, r) \in Seq(Message)
           /\ MaxMsgs > 0 => Len(Appended(msgs, r)) <= MaxMsgs
           /\ \A i \in 1..Len(Appended(msgs, r)) :
                 \/ Appended(msgs, r)[i].turn = r
                 \/ \E j \in 1..Len(msgs) : Appended(msgs, r)[i] = msgs[j]
           /\ IsFull(msgs) => IsFull(Appended(msgs, r))
           /\ \/ IsFull(Appended(msgs, r))
              \/ Has(Appended(msgs, r), r) /\ \A u : Has(msgs, u) => Has(Appended(msgs, r), u)
<1>. DEFINE all == msgs \o Turn(r)
<1>len. Len(msgs) \in Nat /\ MaxMsgs \in Nat
  BY LenProperties, ConversationAssumption
<1>1. /\ Turn(r) \in Seq(Message) /\ Len(Turn(r)) = 2
      /\ Turn(r)[1].turn = r /\ Turn(r)[2].turn = r
  BY DEF Turn, Message
<1>2. /\ all \in Seq(Message) /\ Len(all) = Len(msgs) + 2
      /\ \A i \in 1..(Len(msgs) + 2) : all[i] = IF i <= Len(msgs) THEN msgs[i] ELSE Turn(r)[i - Len(msgs)]
  <2>. DEFINE turn == Turn(r)
  <2>1. turn \in Seq(Message) /\ Len(turn) = 2
    BY <1>1
  <2>. HIDE DEF turn
  <2>2. /\ msgs \o turn \in Seq(Message) /\ Len(msgs \o turn) = Len(msgs) + Len(turn)
        /\ \A i \in 1..(Len(msgs) + Len(turn)) :
              (msgs \o turn)[i] = IF i <= Len(msgs) THEN msgs[i] ELSE turn[i - Len(msgs)]
    BY <2>1, ConcatProperties
  <2>. QED  BY <2>1, <2>2 DEF turn
<1>3. /\ all[Len(msgs) + 1].turn = r
      /\ \A i \in 1..Len(all) : all[i].turn = r \/ \E j \in 1..Len(msgs) : all[i] = msgs[j]
  <2>1. ASSUME NEW i \in 1..Len(all), i > Len(msgs)
        PROVE  all[i].turn = r
    <3>1. i - Len(msgs) \in {1, 2}
      BY <2>1, <1>2, <1>len
    <3>2. all[i] = Turn(r)[i - Len(msgs)]
      BY <2>1, <1>2, <1>len
    <3>. QED  BY <3>1, <3>2, <1>1
  <2>2. ASSUME NEW i \in 1..Len(all), i <= Len(msgs)
        PROVE  \E j \in 1..Len(msgs) : all[i] = msgs[j]
    BY <2>2, <1>2, <1>len
  <2>3. Len(msgs) + 1 \in 1..Len(all) /\ Len(msgs) + 1 > Len(msgs)
    BY <1>2, <1>len
  <2>. QED  BY <2>1, <2>2, <2>3, <1>2, <1>len
<1>4. Has(all, r) /\ \A u : Has(msgs, u) => Has(all, u)
  <2>1. Has(all, r)
    BY <1>2, <1>3, <1>len DEF Has
  <2>2. ASSUME NEW u, NEW i \in 1..Len(msgs), msgs[i].turn = u
        PROVE  Has(all, u)
    <3>1. i \in 1..Len(all) /\ all[i] = msgs[i]
      BY <1>2, <1>len
    <3>. QED  BY <3>1, <2>2 DEF Has
  <2>. QED  BY <2>1, <2>2 DEF Has
<1>5. Appended(msgs, r) = Newest(all, MaxMsgs)
  BY DEF Appended
<1>. HIDE DEF all
<1>6. /\ Newest(all, MaxMsgs) \in Seq(Message)
      /\ MaxMsgs > 0 => Len(Newest(all, MaxMsgs)) <= MaxMsgs
      /\ Newest(all, MaxMsgs) = all \/ (MaxMsgs > 0 /\ Len(Newest(all, MaxMsgs)) = MaxMsgs)
      /\ \A i \in 1..Len(Newest(all, MaxMsgs)) : \E j \in 1..Len(all) : Newest(all, MaxMsgs)[i] = all[j]
  BY <1>2, <1>len, NewestOf
<1>7. IsFull(msgs) => IsFull(Newest(all, MaxMsgs))
  BY <1>2, <1>6, <1>len DEF IsFull
<1>8. \/ IsFull(Newest(all, MaxMsgs))
      \/ Has(Newest(all, MaxMsgs), r) /\ \A u : Has(msgs, u) => Has(Newest(all, MaxMsgs), u)
  BY <1>4, <1>6 DEF IsFull
<1>9. \A i \in 1..Len(Newest(all, MaxMsgs)) :
         \/ Newest(all, MaxMsgs)[i].turn = r
         \/ \E j \in 1..Len(msgs) : Newest(all, MaxMsgs)[i] = msgs[j]
  <2>. TAKE i \in 1..Len(Newest(all, MaxMsgs))
  <2>1. PICK j \in 1..Len(all) : Newest(all, MaxMsgs)[i] = all[j]
    BY <1>6
  <2>. QED  BY <2>1, <1>3
<1>. QED  BY <1>5, <1>6, <1>7, <1>8, <1>9

-----------------------------------------------------------------------------
(* What a step leaves alone.                                               *)

\* The requests that have come keep their session, and what was answered stays so; one
\* that comes is at no store yet.
Stays ==
    /\ backend' = backend
    /\ raced \subseteq raced' /\ lost \subseteq lost'
    /\ \A u \in Requests : pc[u] # "idle" =>
          /\ pc'[u] # "idle" /\ session'[u] = session[u] /\ kind'[u] = kind[u]
          /\ pc[u] = "answered" => pc'[u] = "answered"
    /\ \A u \in Requests : pc[u] = "idle" => pc'[u] \in {"idle", "load", "infer"}

\* A handler changes its own place, and the entry of its own session at most.
Local(r) ==
    /\ \A u \in Requests \ {r} :
          /\ pc'[u] = pc[u] /\ session'[u] = session[u] /\ kind'[u] = kind[u]
          /\ read'[u] = read[u] /\ context'[u] = context[u] /\ known'[u] = known[u]
    /\ \A k \in Keys : store'[k] # store[k] => pc[r] # "idle" /\ k = Key(r)
    /\ UNCHANGED <<backend, evicting, clock, crashes>>

Places == {"idle", "load", "stale", "infer", "append", "truncate", "write", "set", "answered", "unanswered"}

LEMMA Functions ==
    ASSUME PlacesInv
    PROVE  /\ pc \in [Requests -> Places] /\ session \in [Requests -> Sessions \union {Nil}]
           /\ kind \in [Requests -> {"infer", "chat", "peer"}]
           /\ read \in [Requests -> Seq(Message)] /\ context \in [Requests -> Seq(Message)]
           /\ known \in [Requests -> SUBSET Requests]
           /\ store \in [Keys -> [msgs : Seq(Message), touched : 0..MaxTime] \union {Nil}]
           /\ clock \in 0..MaxTime /\ lost \subseteq Keys /\ raced \subseteq Keys /\ evicting \subseteq Keys
  BY DEF PlacesInv, TypeOK, Places

LEMMA KeyTypes ==
    ASSUME PlacesInv, NEW r \in Requests, pc[r] # "idle"
    PROVE  Key(r) \in Keys /\ Messages(Key(r)) \in Seq(Message)
<1>1. session[r] \in Sessions
  BY DEF PlacesInv
<1>2. Key(r) \in Keys
  BY <1>1 DEF Key, KeyOf, Keys, FileNames
<1>. QED  BY <1>2, Functions DEF Messages

LEMMA HandlersAreLocal ==
    ASSUME PlacesInv, NEW r \in Requests, Handle(r)
    PROVE  Local(r)
<1>. USE Functions
<1>1. CASE Arrive(r)
  BY <1>1 DEF Arrive, Goto, Local, storeVars, boundVars
<1>2. CASE LoadCurrent(r)
  BY <1>2 DEF LoadCurrent, Loaded, Goto, Local, boundVars
<1>3. CASE LoadOld(r) \/ LoadOldFile(r) \/ RemoveOldFile(r) \/ LoadFails(r)
  BY <1>3 DEF LoadOld, LoadOldFile, RemoveOldFile, LoadFails, Loaded, Goto, Local, storeVars, boundVars
<1>4. CASE Infer(r)
  BY <1>4 DEF Infer, Sent, Goto, Local, storeVars, boundVars
<1>5. CASE AppendMemory(r) \/ ReadFile(r) \/ GetRedis(r) \/ Truncate(r)
  BY <1>5 DEF AppendMemory, ReadFile, GetRedis, Truncate, Goto, Local, storeVars, boundVars, auxVars
<1>6. CASE Write(r) \/ AppendFails(r)
  BY <1>6 DEF Write, AppendFails, Goto, Local, storeVars, boundVars, auxVars
<1>7. CASE Drop(r)
  BY <1>7 DEF Drop, Sent, Goto, Local, storeVars, boundVars
<1>. QED  BY <1>1, <1>2, <1>3, <1>4, <1>5, <1>6, <1>7 DEF Handle

LEMMA StaysStep ==
    ASSUME PlacesInv, [Next]_vars
    PROVE  Stays
<1>. USE Functions
<1>1. ASSUME NEW r \in Requests, Handle(r)
      PROVE  Stays
  <2>1. Local(r)
    BY <1>1, HandlersAreLocal
  <2>2. /\ raced \subseteq raced' /\ lost \subseteq lost'
        /\ pc[r] # "idle" => /\ pc'[r] # "idle" /\ session'[r] = session[r] /\ kind'[r] = kind[r]
                             /\ pc[r] # "answered"
        /\ pc[r] = "idle" => pc'[r] \in {"load", "infer"}
    <3>1. CASE Arrive(r)
      BY <3>1 DEF Arrive, Goto
    <3>2. CASE LoadCurrent(r)
      BY <3>2 DEF LoadCurrent, Loaded, Goto, Race
    <3>3. CASE LoadOld(r) \/ LoadOldFile(r) \/ RemoveOldFile(r) \/ LoadFails(r)
      BY <3>3 DEF LoadOld, LoadOldFile, RemoveOldFile, LoadFails, Loaded, Goto, Race
    <3>4. CASE Infer(r)
      BY <3>4 DEF Infer, Goto
    <3>5. CASE AppendMemory(r) \/ ReadFile(r) \/ GetRedis(r) \/ Truncate(r)
      BY <3>5 DEF AppendMemory, ReadFile, GetRedis, Truncate, Goto, Race, auxVars
    <3>6. CASE Write(r) \/ AppendFails(r)
      BY <3>6 DEF Write, AppendFails, Goto, auxVars
    <3>7. CASE Drop(r)
      BY <3>7 DEF Drop, Goto
    <3>. QED  BY <1>1, <3>1, <3>2, <3>3, <3>4, <3>5, <3>6, <3>7 DEF Handle
  <2>3. ASSUME NEW u \in Requests, pc[u] # "idle"
        PROVE  /\ pc'[u] # "idle" /\ session'[u] = session[u] /\ kind'[u] = kind[u]
               /\ pc[u] = "answered" => pc'[u] = "answered"
    BY <2>1, <2>2, <2>3 DEF Local
  <2>4. ASSUME NEW u \in Requests, pc[u] = "idle"
        PROVE  pc'[u] \in {"idle", "load", "infer"}
    BY <2>1, <2>2, <2>4 DEF Local
  <2>. QED  BY <2>1, <2>2, <2>3, <2>4 DEF Local, Stays
<1>2. CASE EvictMemory \/ Tick
  BY <1>2 DEF EvictMemory, Tick, boundVars, Stays
<1>3. CASE Crash
  BY <1>3 DEF Crash, Stays
<1>4. ASSUME NEW k \in Keys, EvictFile(k) \/ RemoveFile(k)
      PROVE  Stays
  BY <1>4 DEF EvictFile, RemoveFile, Race, boundVars, Stays
<1>5. CASE UNCHANGED vars
  BY <1>5 DEF vars, storeVars, auxVars, boundVars, Stays
<1>. QED  BY <1>1, <1>2, <1>3, <1>4, <1>5 DEF Next

LEMMA KeysStay ==
    ASSUME Stays, NEW u \in Requests, pc[u] # "idle"
    PROVE  Key(u)' = Key(u)
  BY DEF Stays, Key, KeyOf

-----------------------------------------------------------------------------
(* What a step writes: to the store, and to what its handler holds.        *)

Comers(k) == {r \in Requests : pc[r] # "idle" /\ Key(r) = k}

Histories(k) ==
    {Messages(k), <<>>} \union {Appended(Messages(k), r) : r \in Comers(k)}
                        \union {Appended(read[r], r) : r \in Comers(k)}

Writes ==
    /\ store' = [k \in Keys |-> store'[k]]
    /\ \A k \in Keys : \/ store'[k] = store[k] \/ store'[k] = Nil
                       \/ \E msgs \in Histories(k) : store'[k] = Entry(msgs)
Reads ==
    /\ read' = [r \in Requests |-> read'[r]]
    /\ \A r \in Requests : \/ read'[r] = read[r] \/ read'[r] = <<>>
                           \/ pc[r] # "idle" /\ read'[r] = Messages(Key(r))

Loads ==
    /\ context' = [r \in Requests |-> context'[r]]
    /\ \A r \in Requests : \/ context'[r] = context[r] \/ context'[r] = <<>>
                           \/ pc[r] # "idle" /\ context'[r] = Messages(Key(r))

LEMMA EntryFacts ==
    ASSUME PlacesInv, NEW msgs \in Seq(Message)
    PROVE  /\ Entry(msgs) \in [msgs : Seq(Message), touched : 0..MaxTime] /\ Entry(msgs) # Nil
           /\ Entry(msgs).msgs = msgs /\ Entry(msgs).touched = clock
<1>1. clock \in 0..MaxTime /\ clock \in Nat
  BY Functions, ConversationAssumption
<1>2. Entry(msgs) \in [msgs : Seq(Message), touched : Nat]
  BY <1>1 DEF Entry
<1>. QED  BY <1>1, <1>2, ConversationAssumption DEF Entry

LEMMA EntryTouched ==
    ASSUME PlacesInv, NEW k \in Keys, store[k] # Nil
    PROVE  [store[k] EXCEPT !.touched = clock] = Entry(Messages(k))
<1>1. store[k] \in [msgs : Seq(Message), touched : 0..MaxTime]
  BY Functions
<1>. QED  BY <1>1 DEF Entry, Messages

LEMMA WritesStep ==
    ASSUME PlacesInv, [Next]_vars
    PROVE  Writes
<1>0. ASSUME UNCHANGED store
      PROVE  Writes
  BY <1>0, Functions DEF Writes
<1>1. ASSUME NEW r \in Requests, pc[r] # "idle",
             NEW new, store' = [store EXCEPT ![Key(r)] = new],
             new = Nil \/ \E msgs \in Histories(Key(r)) : new = Entry(msgs)
      PROVE  Writes
  <2>1. Key(r) \in Keys
    BY <1>1, KeyTypes
  <2>2. /\ store'[Key(r)] = new /\ \A k \in Keys \ {Key(r)} : store'[k] = store[k]
        /\ store' = [k \in Keys |-> store'[k]]
    BY <1>1, <2>1, Functions
  <2>. QED  BY <1>1, <2>2 DEF Writes
<1>2. ASSUME NEW gone \in SUBSET Keys, store' = [k \in Keys |-> IF k \in gone THEN Nil ELSE store[k]]
      PROVE  Writes
  BY <1>2 DEF Writes
<1>3. ASSUME NEW r \in Requests, Handle(r)
      PROVE  Writes
  <2>1. CASE Arrive(r) \/ LoadOldFile(r) \/ LoadFails(r) \/ Infer(r) \/ ReadFile(r) \/ GetRedis(r)
             \/ AppendFails(r) \/ Drop(r)
    BY <2>1, <1>0 DEF Arrive, LoadOldFile, LoadFails, Infer, ReadFile, GetRedis, AppendFails, Drop, storeVars
  <2>2. CASE LoadCurrent(r)
    <3>. DEFINE k == Key(r)
    <3>0. pc[r] # "idle" /\ k \in Keys
      BY <2>2, KeyTypes DEF LoadCurrent
    <3>1. CASE backend = "memory" /\ store[k] # Nil
      <4>1. store' = [store EXCEPT ![k].touched = clock]
        BY <2>2, <3>1 DEF LoadCurrent
      <4>2. store' = [store EXCEPT ![k] = Entry(Messages(k))]
        BY <3>0, <3>1, <4>1, EntryTouched
      <4>. QED  BY <4>2, <3>0, <1>1 DEF Histories
    <3>2. CASE ~(backend = "memory" /\ store[k] # Nil)
      BY <2>2, <3>2, <1>0 DEF LoadCurrent
    <3>. QED  BY <3>1, <3>2
  <2>3. CASE LoadOld(r) \/ RemoveOldFile(r)
    BY <2>3, <1>1 DEF LoadOld, RemoveOldFile
  <2>4. CASE AppendMemory(r)
    BY <2>4, <1>1 DEF AppendMemory, Histories, Comers
  <2>5. CASE Truncate(r)
    BY <2>5, <1>1 DEF Truncate, Histories
  <2>6. CASE Write(r)
    BY <2>6, <1>1 DEF Write, Histories, Comers
  <2>. QED  BY <1>3, <2>1, <2>2, <2>3, <2>4, <2>5, <2>6 DEF Handle
<1>4. CASE EvictMemory
  BY <1>4, <1>2 DEF EvictMemory
<1>5. CASE Tick
  BY <1>5, <1>2 DEF Tick, Expired
<1>6. CASE Crash
  <2>1. store' = store \/ store' = [k \in Keys |-> IF k \in Keys THEN Nil ELSE store[k]]
    BY <1>6 DEF Crash
  <2>. QED  BY <2>1, <1>0, <1>2
<1>7. ASSUME NEW k \in Keys, EvictFile(k) \/ RemoveFile(k)
      PROVE  Writes
  <2>1. CASE EvictFile(k)
    BY <2>1, <1>0 DEF EvictFile
  <2>2. CASE RemoveFile(k)
    BY <2>2, Functions DEF RemoveFile, Writes
  <2>. QED  BY <1>7, <2>1, <2>2
<1>8. CASE UNCHANGED vars
  BY <1>8, <1>0 DEF vars, storeVars
<1>. QED  BY <1>3, <1>4, <1>5, <1>6, <1>7, <1>8 DEF Next

LEMMA ReadsStep ==
    ASSUME PlacesInv, [Next]_vars
    PROVE  Reads /\ Loads
<1>. USE Functions
<1>1. ASSUME NEW r \in Requests, Handle(r)
      PROVE  Reads /\ Loads
  <2>0. Local(r)
    BY <1>1, HandlersAreLocal
  <2>1. /\ read' = [q \in Requests |-> read'[q]]
        /\ read'[r] = read[r] \/ read'[r] = <<>> \/ (pc[r] # "idle" /\ read'[r] = Messages(Key(r)))
    <3>1. CASE Arrive(r) \/ LoadCurrent(r) \/ LoadOld(r) \/ LoadOldFile(r) \/ RemoveOldFile(r)
               \/ LoadFails(r) \/ Infer(r) \/ AppendMemory(r) \/ Truncate(r)
      BY <3>1 DEF Arrive, LoadCurrent, LoadOld, LoadOldFile, RemoveOldFile, LoadFails, Infer, AppendMemory, Truncate
    <3>2. CASE ReadFile(r) \/ GetRedis(r)
      BY <3>2 DEF ReadFile, GetRedis
    <3>3. CASE Write(r) \/ AppendFails(r) \/ Drop(r)
      BY <3>3 DEF Write, AppendFails, Drop
    <3>. QED  BY <1>1, <3>1, <3>2, <3>3 DEF Handle
  <2>2. /\ context' = [q \in Requests |-> context'[q]]
        /\ \/ context'[r] = context[r] \/ context'[r] = <<>>
           \/ pc[r] # "idle" /\ context'[r] = Messages(Key(r))
    <3>1. CASE Arrive(r) \/ LoadOldFile(r) \/ AppendMemory(r) \/ ReadFile(r) \/ GetRedis(r) \/ Truncate(r)
               \/ Write(r) \/ AppendFails(r)
      BY <3>1 DEF Arrive, LoadOldFile, AppendMemory, ReadFile, GetRedis, Truncate, Write, AppendFails
    <3>2. CASE LoadCurrent(r)
      BY <3>2 DEF LoadCurrent, Loaded
    <3>3. CASE LoadOld(r) \/ RemoveOldFile(r) \/ LoadFails(r)
      BY <3>3 DEF LoadOld, RemoveOldFile, LoadFails, Loaded
    <3>4. CASE Infer(r) \/ Drop(r)
      BY <3>4 DEF Infer, Drop, Sent
    <3>. QED  BY <1>1, <3>1, <3>2, <3>3, <3>4 DEF Handle
  <2>. QED  BY <2>0, <2>1, <2>2 DEF Local, Reads, Loads
<1>2. CASE EvictMemory \/ Tick
  BY <1>2 DEF EvictMemory, Tick, Reads, Loads
<1>3. CASE Crash
  BY <1>3 DEF Crash, Reads, Loads
<1>4. ASSUME NEW k \in Keys, EvictFile(k) \/ RemoveFile(k)
      PROVE  Reads /\ Loads
  BY <1>4 DEF EvictFile, RemoveFile, Reads, Loads
<1>5. CASE UNCHANGED vars
  BY <1>5 DEF vars, Reads, Loads
<1>. QED  BY <1>1, <1>2, <1>3, <1>4, <1>5 DEF Next

-----------------------------------------------------------------------------
(* Types and places.                                                       *)

LEMMA HistoryTypes ==
    ASSUME PlacesInv, NEW k \in Keys, NEW msgs \in Histories(k)
    PROVE  msgs \in Seq(Message) /\ (MaxMsgs > 0 => Len(msgs) <= MaxMsgs)
<1>1. Messages(k) \in Seq(Message) /\ (MaxMsgs > 0 => Len(Messages(k)) <= MaxMsgs)
  BY Functions DEF Messages, PlacesInv, TypeOK
<1>2. <<>> \in Seq(Message) /\ (MaxMsgs > 0 => Len(<<>>) <= MaxMsgs)
  BY ConversationAssumption
<1>3. ASSUME NEW r \in Comers(k)
      PROVE  /\ Appended(Messages(k), r) \in Seq(Message) /\ Appended(read[r], r) \in Seq(Message)
             /\ MaxMsgs > 0 => Len(Appended(Messages(k), r)) <= MaxMsgs
             /\ MaxMsgs > 0 => Len(Appended(read[r], r)) <= MaxMsgs
  <2>1. r \in Requests /\ read[r] \in Seq(Message)
    BY Functions DEF Comers
  <2>. QED  BY <1>1, <2>1, AppendedOf
<1>. QED  BY <1>1, <1>2, <1>3 DEF Histories

LEMMA DataTypes ==
    ASSUME PlacesInv, [Next]_vars
    PROVE  /\ store' \in [Keys -> [msgs : Seq(Message), touched : 0..MaxTime] \union {Nil}]
           /\ \A k \in Keys : MaxMsgs > 0 => Len(Messages(k)') <= MaxMsgs
           /\ read' \in [Requests -> Seq(Message)] /\ context' \in [Requests -> Seq(Message)]
<1>1. ASSUME NEW k \in Keys
      PROVE  /\ store'[k] \in [msgs : Seq(Message), touched : 0..MaxTime] \union {Nil}
             /\ MaxMsgs > 0 => Len(Messages(k)') <= MaxMsgs
  <2>1. CASE store'[k] = store[k]
    BY <2>1, Functions DEF PlacesInv, TypeOK, Messages
  <2>2. CASE store'[k] = Nil
    <3>1. Messages(k)' = <<>>
      BY <2>2 DEF Messages
    <3>. QED  BY <2>2, <3>1, ConversationAssumption
  <2>3. ASSUME NEW msgs \in Histories(k), store'[k] = Entry(msgs)
        PROVE  <1>1!2
    <3>1. msgs \in Seq(Message) /\ (MaxMsgs > 0 => Len(msgs) <= MaxMsgs)
      BY HistoryTypes
    <3>2. Messages(k)' = msgs /\ Entry(msgs) \in [msgs : Seq(Message), touched : 0..MaxTime]
      BY <2>3, <3>1, EntryFacts DEF Messages
    <3>. QED  BY <2>3, <3>1, <3>2
  <2>. QED  BY <2>1, <2>2, <2>3, WritesStep DEF Writes
<1>2. ASSUME NEW r \in Requests
      PROVE  read'[r] \in Seq(Message) /\ context'[r] \in Seq(Message)
  <2>1. pc[r] # "idle" => Messages(Key(r)) \in Seq(Message)
    BY KeyTypes
  <2>2. read[r] \in Seq(Message) /\ context[r] \in Seq(Message) /\ <<>> \in Seq(Message)
    BY Functions
  <2>. QED  BY <2>1, <2>2, ReadsStep DEF Reads, Loads
<1>3. /\ store' = [k \in Keys |-> store'[k]] /\ read' = [r \in Requests |-> read'[r]]
      /\ context' = [r \in Requests |-> context'[r]]
  BY WritesStep, ReadsStep DEF Writes, Reads, Loads
<1>. QED  BY <1>1, <1>2, <1>3

\* What the handlers are.
HandlerTypes ==
    /\ pc \in [Requests -> Places] /\ session \in [Requests -> Sessions \union {Nil}]
    /\ kind \in [Requests -> {"infer", "chat", "peer"}] /\ known \in [Requests -> SUBSET Requests]

\* Where they and the keys can be.
Whereabouts ==
    /\ evicting # {} => backend = "local"
    /\ \A r \in Requests :
          /\ pc[r] \in {"stale", "truncate", "write"} => backend = "local"
          /\ pc[r] = "set" => backend = "redis"
          /\ pc[r] = "idle" => read[r] = <<>> /\ context[r] = <<>>
          /\ pc[r] # "idle" => session[r] \in Sessions

LEMMA HandlerTypesStep ==
    ASSUME PlacesInv, [Next]_vars
    PROVE  HandlerTypes'
<1>. USE Functions DEF Places
<1>1. ASSUME NEW r \in Requests, Handle(r)
      PROVE  HandlerTypes'
  <2>1. CASE Arrive(r)
    BY <2>1 DEF Arrive, Goto, HandlerTypes
  <2>2. ASSUME NEW p \in Places, Goto(r, p), UNCHANGED <<session, kind, known>>
        PROVE  HandlerTypes'
    BY <2>2 DEF Goto, HandlerTypes
  <2>3. CASE LoadCurrent(r) \/ LoadOld(r) \/ RemoveOldFile(r) \/ LoadFails(r)
    <3>1. Goto(r, "infer") /\ UNCHANGED <<session, kind, known>>
      BY <2>3 DEF LoadCurrent, LoadOld, RemoveOldFile, LoadFails, Loaded
    <3>. QED  BY <2>2, <3>1
  <2>4. CASE Infer(r) \/ Drop(r)
    BY <2>4 DEF Infer, Drop, Sent, Goto, HandlerTypes
  <2>5. CASE LoadOldFile(r) \/ ReadFile(r) \/ GetRedis(r) \/ Truncate(r)
    <3>1. /\ Goto(r, "stale") \/ Goto(r, "truncate") \/ Goto(r, "set") \/ Goto(r, "write")
          /\ UNCHANGED <<session, kind, known>>
      BY <2>5 DEF LoadOldFile, ReadFile, GetRedis, Truncate, auxVars
    <3>. QED  BY <2>2, <3>1
  <2>6. CASE AppendMemory(r) \/ Write(r) \/ AppendFails(r)
    <3>1. Goto(r, "answered") /\ UNCHANGED <<session, kind, known>>
      BY <2>6 DEF AppendMemory, Write, AppendFails, auxVars
    <3>. QED  BY <2>2, <3>1
  <2>. QED  BY <1>1, <2>1, <2>3, <2>4, <2>5, <2>6 DEF Handle
<1>2. CASE EvictMemory \/ Tick
  BY <1>2 DEF EvictMemory, Tick, HandlerTypes
<1>3. CASE Crash
  BY <1>3 DEF Crash, HandlerTypes
<1>4. ASSUME NEW k \in Keys, EvictFile(k) \/ RemoveFile(k)
      PROVE  HandlerTypes'
  BY <1>4 DEF EvictFile, RemoveFile, HandlerTypes
<1>5. CASE UNCHANGED vars
  BY <1>5 DEF vars, auxVars, HandlerTypes
<1>. QED  BY <1>1, <1>2, <1>3, <1>4, <1>5 DEF Next

LEMMA BoundTypes ==
    ASSUME PlacesInv, [Next]_vars
    PROVE  /\ clock' \in 0..MaxTime /\ faults' \in 0..MaxFaults /\ crashes' \in 0..MaxCrashes
           /\ raced' \subseteq Keys /\ lost' \subseteq Keys /\ evicting' \subseteq Keys
<1>0. /\ clock \in 0..MaxTime /\ faults \in 0..MaxFaults /\ crashes \in 0..MaxCrashes
      /\ raced \subseteq Keys /\ lost \subseteq Keys /\ evicting \subseteq Keys
      /\ MaxTime \in Nat /\ MaxFaults \in Nat /\ MaxCrashes \in Nat
  BY ConversationAssumption DEF PlacesInv, TypeOK
<1>1. ASSUME NEW r \in Requests, Handle(r)
      PROVE  /\ UNCHANGED <<clock, crashes, evicting>> /\ faults' \in 0..MaxFaults
             /\ raced' \subseteq Keys /\ lost' \subseteq Keys
  <2>1. pc[r] # "idle" => Key(r) \in Keys
    BY KeyTypes
  <2>2. CASE Arrive(r) \/ Infer(r) \/ AppendMemory(r) \/ Truncate(r) \/ Write(r) \/ Drop(r)
    BY <2>2, <1>0 DEF Arrive, Infer, AppendMemory, Truncate, Write, Drop, storeVars, boundVars, auxVars
  <2>3. CASE LoadCurrent(r) \/ LoadOldFile(r) \/ ReadFile(r) \/ GetRedis(r)
    BY <2>1, <2>3, <1>0 DEF LoadCurrent, LoadOldFile, ReadFile, GetRedis, Race, storeVars, boundVars
  <2>4. CASE LoadOld(r) \/ RemoveOldFile(r)
    BY <2>1, <2>4, <1>0 DEF LoadOld, RemoveOldFile, storeVars, boundVars
  <2>5. CASE LoadFails(r) \/ AppendFails(r)
    BY <2>1, <2>5, <1>0 DEF LoadFails, AppendFails, Fault, storeVars
  <2>. QED  BY <1>1, <2>2, <2>3, <2>4, <2>5 DEF Handle
<1>2. CASE EvictMemory \/ Tick
  BY <1>2, <1>0 DEF EvictMemory, Tick, Expired, boundVars
<1>3. CASE Crash
  BY <1>3, <1>0 DEF Crash, Torn
<1>4. ASSUME NEW k \in Keys, EvictFile(k) \/ RemoveFile(k)
      PROVE  /\ UNCHANGED <<clock, faults, crashes>>
             /\ raced' \subseteq Keys /\ lost' \subseteq Keys /\ evicting' \subseteq Keys
  BY <1>4, <1>0 DEF EvictFile, RemoveFile, Race, boundVars
<1>5. CASE UNCHANGED vars
  BY <1>5, <1>0 DEF vars, storeVars, boundVars, auxVars
<1>. QED  BY <1>0, <1>1, <1>2, <1>3, <1>4, <1>5 DEF Next

LEMMA WhereaboutsStep ==
    ASSUME PlacesInv, [Next]_vars
    PROVE  Whereabouts'
<1>0. Whereabouts
  BY DEF PlacesInv, Whereabouts
<1>. USE Functions
<1>1. ASSUME NEW r \in Requests, Handle(r)
      PROVE  Whereabouts'
  <2>1. Local(r)
    BY <1>1, HandlersAreLocal
  <2>2. /\ pc'[r] \in {"stale", "truncate", "write"} => backend = "local"
        /\ pc'[r] = "set" => backend = "redis"
        /\ pc'[r] # "idle" /\ session'[r] \in Sessions
    <3>1. CASE Arrive(r)
      BY <3>1 DEF Arrive, Goto
    <3>2. CASE LoadCurrent(r) \/ LoadOld(r) \/ LoadOldFile(r) \/ RemoveOldFile(r) \/ LoadFails(r)
      BY <1>0, <3>2 DEF LoadCurrent, LoadOld, LoadOldFile, RemoveOldFile, LoadFails, Loaded, Goto, Whereabouts
    <3>3. CASE Infer(r) \/ Drop(r)
      BY <1>0, <3>3 DEF Infer, Drop, Goto, Whereabouts
    <3>4. CASE AppendMemory(r) \/ ReadFile(r) \/ GetRedis(r) \/ Truncate(r)
      BY <1>0, <3>4 DEF AppendMemory, ReadFile, GetRedis, Truncate, Goto, Whereabouts
    <3>5. CASE Write(r) \/ AppendFails(r)
      BY <1>0, <3>5 DEF Write, AppendFails, Goto, Whereabouts
    <3>. QED  BY <1>1, <3>1, <3>2, <3>3, <3>4, <3>5 DEF Handle
  <2>. QED  BY <1>0, <2>1, <2>2 DEF Local, Whereabouts
<1>2. CASE EvictMemory \/ Tick
  BY <1>0, <1>2 DEF EvictMemory, Tick, Whereabouts
<1>3. CASE Crash
  BY <1>0, <1>3 DEF Crash, Whereabouts
<1>4. ASSUME NEW k \in Keys, EvictFile(k) \/ RemoveFile(k)
      PROVE  Whereabouts'
  BY <1>0, <1>4 DEF EvictFile, RemoveFile, Whereabouts
<1>5. CASE UNCHANGED vars
  BY <1>0, <1>5 DEF vars, storeVars, Whereabouts
<1>. QED  BY <1>1, <1>2, <1>3, <1>4, <1>5 DEF Next

LEMMA PlacesInit == Init => PlacesInv
<1>. SUFFICES ASSUME Init PROVE PlacesInv
  OBVIOUS
<1>1. TypeOK
  BY ConversationAssumption DEF Init, TypeOK, Messages
<1>. QED  BY <1>1 DEF Init, PlacesInv

LEMMA PlacesStep ==
    ASSUME PlacesInv, [Next]_vars
    PROVE  PlacesInv'
<1>1. backend' \in Backends
  BY StaysStep DEF Stays, PlacesInv, TypeOK
<1>2. TypeOK'
  BY <1>1, DataTypes, HandlerTypesStep, BoundTypes DEF TypeOK, HandlerTypes, Places
<1>. QED  BY <1>2, WhereaboutsStep DEF PlacesInv, Whereabouts

-----------------------------------------------------------------------------
(* What is stored under a key, read from it and sent to the engine is of   *)
(* the sessions that have the key.                                         *)

LEMMA OwnStays ==
    ASSUME PlacesInv, Stays, NEW k, NEW msgs \in Seq(Message), OwnTurns(msgs, k)
    PROVE  \A i \in 1..Len(msgs) : pc'[msgs[i].turn] # "idle" /\ Key(msgs[i].turn)' = k
<1>. TAKE i \in 1..Len(msgs)
<1>1. msgs[i] \in Message
  BY ElementOfSeq
<1>2. msgs[i].turn \in Requests
  BY <1>1 DEF Message
<1>. QED  BY <1>2, KeysStay DEF OwnTurns, Stays

LEMMA OwnHistories ==
    ASSUME PlacesInv, OwnInv, NEW k \in Keys, NEW msgs \in Histories(k)
    PROVE  msgs \in Seq(Message) /\ OwnTurns(msgs, k)
<1>1. Messages(k) \in Seq(Message) /\ OwnTurns(Messages(k), k)
  BY Functions DEF Messages, OwnInv
<1>2. OwnTurns(<<>>, k) /\ <<>> \in Seq(Message)
  BY DEF OwnTurns
<1>3. ASSUME NEW r \in Comers(k), NEW old \in Seq(Message), OwnTurns(old, k)
      PROVE  Appended(old, r) \in Seq(Message) /\ OwnTurns(Appended(old, r), k)
  <2>1. r \in Requests /\ pc[r] # "idle" /\ Key(r) = k
    BY DEF Comers
  <2>2. Appended(old, r) \in Seq(Message)
    BY <2>1, AppendedOf
  <2>3. ASSUME NEW i \in 1..Len(Appended(old, r))
        PROVE  pc[Appended(old, r)[i].turn] # "idle" /\ Key(Appended(old, r)[i].turn) = k
    <3>1. \/ Appended(old, r)[i].turn = r
          \/ \E j \in 1..Len(old) : Appended(old, r)[i] = old[j]
      BY <2>1, AppendedOf
    <3>. QED  BY <2>1, <3>1, <1>3 DEF OwnTurns
  <2>. QED  BY <2>2, <2>3 DEF OwnTurns
<1>4. ASSUME NEW r \in Comers(k)
      PROVE  read[r] \in Seq(Message) /\ OwnTurns(read[r], k)
  BY Functions DEF Comers, OwnInv
<1>. QED  BY <1>1, <1>2, <1>3, <1>4 DEF Histories

LEMMA OwnInit == Init => OwnInv
  BY DEF Init, OwnInv, OwnTurns, Messages

LEMMA OwnStep ==
    ASSUME PlacesInv, OwnInv, [Next]_vars
    PROVE  OwnInv'
<1>stays. Stays
  BY StaysStep
<1>1. ASSUME NEW k \in Keys
      PROVE  OwnTurns(Messages(k), k)'
  <2>1. Messages(k)' \in Histories(k)
    <3>1. CASE store'[k] = store[k]
      BY <3>1 DEF Messages, Histories
    <3>2. CASE store'[k] = Nil
      BY <3>2 DEF Messages, Histories
    <3>3. ASSUME NEW msgs \in Histories(k), store'[k] = Entry(msgs)
          PROVE  Messages(k)' = msgs
      <4>1. msgs \in Seq(Message)
        BY HistoryTypes
      <4>. QED  BY <3>3, <4>1, EntryFacts DEF Messages
    <3>. QED  BY <3>1, <3>2, <3>3, WritesStep DEF Writes
  <2>2. Messages(k)' \in Seq(Message) /\ OwnTurns(Messages(k)', k)
    BY <2>1, OwnHistories
  <2>. QED  BY <2>2, <1>stays, OwnStays DEF OwnTurns
<1>2. ASSUME NEW r \in Requests, pc[r] # "idle"
      PROVE  OwnTurns(read[r], Key(r))' /\ OwnTurns(context[r], Key(r))'
  <2>1. Key(r) \in Keys /\ Messages(Key(r)) \in Seq(Message) /\ OwnTurns(Messages(Key(r)), Key(r))
    BY <1>2, KeyTypes DEF OwnInv
  <2>2. /\ read[r] \in Seq(Message) /\ OwnTurns(read[r], Key(r))
        /\ context[r] \in Seq(Message) /\ OwnTurns(context[r], Key(r))
        /\ <<>> \in Seq(Message) /\ OwnTurns(<<>>, Key(r))
    BY <1>2, Functions DEF OwnInv, OwnTurns
  <2>3. read'[r] \in Seq(Message) /\ OwnTurns(read'[r], Key(r))
    BY <2>1, <2>2, ReadsStep DEF Reads
  <2>4. context'[r] \in Seq(Message) /\ OwnTurns(context'[r], Key(r))
    BY <2>1, <2>2, ReadsStep DEF Loads
  <2>5. Key(r)' = Key(r)
    BY <1>stays, <1>2, KeysStay
  <2>6. \A msgs \in Seq(Message) : OwnTurns(msgs, Key(r)) =>
           \A i \in 1..Len(msgs) : pc'[msgs[i].turn] # "idle" /\ Key(msgs[i].turn)' = Key(r)
    BY <1>stays, OwnStays
  <2>7. OwnTurns(read[r], Key(r))'
    BY <2>3, <2>5, <2>6 DEF OwnTurns
  <2>8. OwnTurns(context[r], Key(r))'
    BY <2>4, <2>5, <2>6 DEF OwnTurns
  <2>. QED  BY <2>7, <2>8
<1>3. ASSUME NEW r \in Requests, pc[r] = "idle"
      PROVE  OwnTurns(read[r], Key(r))' /\ OwnTurns(context[r], Key(r))'
  <2>1. read[r] = <<>> /\ context[r] = <<>>
    BY <1>3 DEF PlacesInv
  <2>2. read'[r] = <<>> /\ context'[r] = <<>>
    BY <1>3, <2>1, ReadsStep DEF Reads, Loads
  <2>. QED  BY <2>2 DEF OwnTurns
<1>. QED  BY <1>1, <1>2, <1>3 DEF OwnInv

\* What trim_context_window leaves.
LEMMA TokensType ==
    ASSUME NEW msgs \in Seq(Message)
    PROVE  Tokens(msgs) \in Seq(Nat) /\ Len(Tokens(msgs)) = Len(msgs)
<1>1. Len(msgs) \in Nat /\ DOMAIN msgs = 1..Len(msgs) /\ \A i \in 1..Len(msgs) : msgs[i] \in Message
  BY LenProperties
<1>2. \A m \in Message : MessageTokens(m) \in Nat
  <2>. TAKE m \in Message
  <2>1. Bytes[m] \in Nat
    BY ConversationAssumption
  <2>. QED  BY <2>1 DEF MessageTokens
<1>3. Tokens(msgs) \in [1..Len(msgs) -> Nat]
  BY <1>1, <1>2 DEF Tokens
<1>. QED  BY <1>1, <1>3

LEMMA KeepFromFits ==
    ASSUME NEW msgs \in Seq(Message)
    PROVE  /\ KeepFrom(msgs) \in 1..(Len(msgs) + 1)
           /\ \A i \in 1..Len(msgs) :
                 i >= KeepFrom(msgs) <=> Budget = 0 \/ SumOver(Tokens(msgs), i..Len(msgs)) <= Budget
<1>1. Len(msgs) \in Nat /\ Budget \in Nat
  BY ConversationAssumption
<1>2. CASE Budget = 0
  BY <1>1, <1>2 DEF KeepFrom
<1>3. CASE Budget # 0
  <2>1. Tokens(msgs) \in Seq(Nat) /\ Len(Tokens(msgs)) = Len(msgs)
    BY TokensType
  <2>2. /\ LongestEnd(Tokens(msgs), Budget).first \in 1..(Len(msgs) + 1)
        /\ \A i \in 1..(Len(msgs) + 1) :
              SumOver(Tokens(msgs), i..Len(msgs)) <= Budget <=> i >= LongestEnd(Tokens(msgs), Budget).first
    BY <1>1, <2>1, LongestEndFits
  <2>. QED  BY <1>1, <1>3, <2>2 DEF KeepFrom
<1>. QED  BY <1>2, <1>3

LEMMA ContextTypes ==
    ASSUME PlacesInv, NEW r \in Requests
    PROVE  context[r] \in Seq(Message) /\ DOMAIN context[r] = 1..Len(context[r]) /\ Len(context[r]) \in Nat
  BY Functions, LenProperties

LEMMA NothingMoreIsCut == PlacesInv => NoMoreIsCut
  BY ContextTypes, KeepFromFits DEF NoMoreIsCut

\* A prompt with its own session's history.
LEMMA OwnContexts ==
    ASSUME PlacesInv, OwnInv
    PROVE  OwnHistory
<1>. SUFFICES ASSUME NEW r \in Requests, NEW u \in Turns(Prompted(r))
              PROVE  \/ session[u] = session[r]
                     \/ backend = "local" /\ FileName[session[u]] = FileName[session[r]]
  BY DEF OwnHistory
<1>1. PICK i \in 1..Len(context[r]) : u = context[r][i].turn
  <2>. DEFINE n == Len(context[r])
              first == KeepFrom(context[r])
  <2>1. n \in Nat /\ first \in 1..(n + 1) /\ context[r] \in Seq(Message)
    BY ContextTypes, KeepFromFits
  <2>. HIDE DEF n, first
  <2>2. PICK j \in DOMAIN SubSeq(context[r], first, n) : u = SubSeq(context[r], first, n)[j].turn
    BY DEF Turns, ToSet, Prompted, n, first
  <2>3. /\ DOMAIN SubSeq(context[r], first, n) = 1..(n - first + 1)
        /\ \A k \in 1..(n - first + 1) : SubSeq(context[r], first, n)[k] = context[r][first + k - 1]
    <3>1. n <= Len(context[r])
      BY <2>1 DEF n
    <3>. QED  BY <2>1, <3>1
  <2>4. j \in 1..(n - first + 1) /\ first + j - 1 \in 1..n
    BY <2>1, <2>2, <2>3
  <2>5. u = context[r][first + j - 1].turn
    BY <2>2, <2>3, <2>4
  <2>. QED  BY <2>4, <2>5 DEF n
<1>2. CASE pc[r] = "idle"
  <2>1. Len(context[r]) = 0
    BY <1>2 DEF PlacesInv
  <2>. QED  BY <1>1, <2>1
<1>3. CASE pc[r] # "idle"
  <2>1. Key(u) = Key(r)
    BY <1>1, <1>3 DEF OwnInv, OwnTurns
  <2>. QED  BY <2>1 DEF Key, KeyOf
<1>. QED  BY <1>2, <1>3

-----------------------------------------------------------------------------
(* The accesses of one key.                                                *)

Touching == {"stale", "truncate", "write", "set"}

\* Who is at the key k when the step is done.
LEMMA BusyAfter ==
    ASSUME PlacesInv, Stays, NEW k, NEW u \in Requests
    PROVE  /\ u \in Busy(k) <=> pc[u] \in Touching /\ Key(u) = k
           /\ (u \in Busy(k))' <=> pc[u] # "idle" /\ pc'[u] \in Touching /\ Key(u) = k
<1>1. CASE pc[u] = "idle"
  BY <1>1 DEF Busy, Touching, Stays
<1>2. CASE pc[u] # "idle"
  <2>1. Key(u)' = Key(u)
    BY <1>2, KeysStay
  <2>. QED  BY <1>2, <2>1 DEF Busy, Touching
<1>. QED  BY <1>1, <1>2

\* A key that none leaves or comes to, and that is not written, is as it was.
LEMMA SameAccess ==
    ASSUME NEW k, OneAccess(k), store'[k] = store[k],
           \A u \in Requests : (u \in Busy(k))' => u \in Busy(k) /\ pc'[u] = pc[u] /\ read'[u] = read[u],
           k \in evicting' => k \in evicting,
           clock' = clock
    PROVE  OneAccess(k)'
<1>1. Messages(k)' = Messages(k) /\ Old(k)' = Old(k)
  BY DEF Messages, Old, Age
<1>2. \A u : (u \in Busy(k))' => u \in Requests
  BY DEF Busy
<1>3. \A r, u \in Busy(k)' : r = u
  BY <1>2 DEF OneAccess
<1>4. k \in evicting' => Busy(k)' = {} /\ Old(k)'
  BY <1>1, <1>2 DEF OneAccess
<1>5. \A r \in Busy(k)' :
         /\ pc'[r] = "stale" => Old(k)'
         /\ pc'[r] \in {"truncate", "set"} => read'[r] = Messages(k)'
         /\ pc'[r] = "write" => store'[k] # Nil /\ Messages(k)' = <<>>
  BY <1>1, <1>2 DEF OneAccess
<1>. QED  BY <1>3, <1>4, <1>5 DEF OneAccess

\* A key with nobody at it.
LEMMA FreeAccess ==
    ASSUME NEW k, \A u \in Requests : ~(u \in Busy(k))', k \notin evicting'
    PROVE  OneAccess(k)'
<1>1. Busy(k)' = {}
  BY DEF Busy
<1>. QED  BY <1>1 DEF OneAccess

LEMMA AccessInit == Init => AccessInv
<1>. SUFFICES ASSUME Init, NEW k \in Keys PROVE OneAccess(k)
  BY DEF AccessInv
<1>1. Busy(k) = {} /\ evicting = {}
  BY DEF Init, Busy
<1>. QED  BY <1>1 DEF OneAccess

LEMMA HandlerAccess ==
    ASSUME PlacesInv, AccessInv, NEW r \in Requests, Handle(r), Stays
    PROVE  AccessInv'
<1>local. Local(r)
  BY HandlersAreLocal
<1>. SUFFICES ASSUME NEW k \in Keys \ raced' PROVE OneAccess(k)'
  BY DEF AccessInv
<1>0. OneAccess(k)
  BY DEF AccessInv, Stays
<1>1. CASE ~(pc[r] # "idle" /\ Key(r) = k)
  <2>1. ASSUME NEW u \in Requests, (u \in Busy(k))'
        PROVE  u \in Busy(k) /\ pc'[u] = pc[u] /\ read'[u] = read[u]
    BY <1>1, <1>local, <2>1, BusyAfter DEF Local
  <2>2. store'[k] = store[k]
    BY <1>1, <1>local DEF Local
  <2>. QED  BY <1>0, <1>local, <2>1, <2>2, SameAccess DEF Local
<1>2. CASE pc[r] # "idle" /\ Key(r) = k
  <2>busy. \A u \in Requests : (u \in Busy(k))' <=> IF u = r THEN pc'[r] \in Touching ELSE u \in Busy(k)
    BY <1>2, <1>local, BusyAfter DEF Local, Touching
  <2>same. \A u \in Requests \ {r} : pc'[u] = pc[u] /\ read'[u] = read[u]
    BY <1>local DEF Local
  <2>rest. evicting' = evicting /\ clock' = clock
    BY <1>local DEF Local
  <2>1. CASE backend = "memory"
    <3>1. \A u \in Requests : pc[u] \notin Touching
      BY <2>1 DEF PlacesInv, Touching
    <3>2. PlacesInv' => OneAccess(k)'
      <4>1. PlacesInv' => \A u \in Requests : pc'[u] \notin Touching
        BY <2>1 DEF PlacesInv, Touching, Stays
      <4>2. k \notin evicting'
        BY <2>1, <2>rest DEF PlacesInv
      <4>. QED  BY <4>1, <4>2, BusyAfter, FreeAccess
    <3>. QED  BY <3>2, PlacesStep DEF Next
  <2>2. ASSUME pc'[r] \notin Touching, store'[k] = store[k]
        PROVE  OneAccess(k)'
    BY <1>0, <2>2, <2>busy, <2>same, <2>rest, SameAccess
  <2>3. ASSUME r \in Busy(k), pc'[r] \notin Touching
        PROVE  OneAccess(k)'
    <3>1. \A u \in Busy(k) : u = r
      BY <1>0, <2>3 DEF OneAccess
    <3>2. k \notin evicting'
      BY <1>0, <2>3, <2>rest DEF OneAccess
    <3>. QED  BY <2>3, <2>busy, <3>1, <3>2, FreeAccess
  <2>4. ASSUME Busy(k) = {}, k \notin evicting, pc'[r] \in {"stale", "truncate", "set"}, store'[k] = store[k],
               pc'[r] = "stale" => Old(k), pc'[r] \in {"truncate", "set"} => read'[r] = Messages(k)
        PROVE  OneAccess(k)'
    <3>1. Messages(k)' = Messages(k) /\ Old(k)' = Old(k)
      BY <2>4, <2>rest DEF Messages, Old, Age
    <3>2. \A u \in Busy(k)' : u = r
      BY <2>4, <2>busy DEF Busy
    <3>. QED  BY <2>4, <2>rest, <3>1, <3>2 DEF OneAccess
  <2>5. CASE LoadCurrent(r) /\ backend # "memory"
    BY <1>2, <2>2, <2>5, Functions DEF LoadCurrent, Loaded, Goto, Touching
  <2>6. CASE LoadOld(r) \/ AppendMemory(r)
    BY <2>1, <2>6 DEF LoadOld, AppendMemory
  <2>7. CASE LoadOldFile(r)
    BY <1>2, <2>4, <2>7, Functions DEF LoadOldFile, Goto, Race, storeVars
  <2>8. CASE RemoveOldFile(r)
    <3>1. r \in Busy(k) /\ pc'[r] \notin Touching
      BY <1>2, <2>8, Functions DEF RemoveOldFile, Loaded, Goto, Busy, Touching
    <3>. QED  BY <3>1, <2>3
  <2>9. CASE LoadFails(r) \/ Infer(r)
    BY <1>2, <2>2, <2>9, Functions DEF LoadFails, Infer, Loaded, Goto, Touching, storeVars
  <2>10. CASE ReadFile(r) \/ GetRedis(r)
    BY <1>2, <2>4, <2>10, Functions DEF ReadFile, GetRedis, Goto, Race, storeVars
  <2>11. CASE Truncate(r)
    <3>1. r \in Busy(k) /\ pc'[r] = "write" /\ store'[k] = Entry(<<>>)
      BY <1>2, <2>11, Functions DEF Truncate, Goto, Busy
    <3>2. store'[k] # Nil /\ Messages(k)' = <<>>
      <4>1. <<>> \in Seq(Message)
        OBVIOUS
      <4>. QED  BY <3>1, <4>1, EntryFacts DEF Messages
    <3>3. \A u \in Busy(k)' : u = r
      BY <1>0, <3>1, <2>busy DEF OneAccess, Busy
    <3>4. k \notin evicting'
      BY <1>0, <3>1, <2>rest DEF OneAccess
    <3>. QED  BY <3>1, <3>2, <3>3, <3>4 DEF OneAccess
  <2>12. CASE Write(r)
    <3>1. r \in Busy(k) /\ pc'[r] \notin Touching
      BY <1>2, <2>12, Functions DEF Write, Goto, Busy, Touching
    <3>. QED  BY <3>1, <2>3
  <2>13. CASE AppendFails(r) \/ Drop(r)
    BY <1>2, <2>2, <2>13, Functions DEF AppendFails, Drop, Goto, Touching, storeVars
  <2>14. ~Arrive(r)
    BY <1>2 DEF Arrive
  <2>. QED  BY <2>1, <2>5, <2>6, <2>7, <2>8, <2>9, <2>10, <2>11, <2>12, <2>13, <2>14 DEF Handle
<1>. QED  BY <1>1, <1>2

LEMMA TickAccess ==
    ASSUME PlacesInv, AccessInv, Tick
    PROVE  AccessInv'
<1>0. /\ pc' = pc /\ session' = session /\ read' = read /\ evicting' = evicting /\ backend' = backend
      /\ clock' = clock + 1 /\ raced \subseteq raced'
      /\ store' = [k \in Keys |-> IF k \in Expired THEN Nil ELSE store[k]]
      /\ \A k \in Expired : Busy(k) # {} => k \in raced'
  BY DEF Tick
<1>. SUFFICES ASSUME NEW k \in Keys \ raced' PROVE OneAccess(k)'
  BY DEF AccessInv
<1>1. OneAccess(k)
  BY <1>0 DEF AccessInv
<1>2. Busy(k)' = Busy(k)
  BY <1>0 DEF Busy, Key, KeyOf
<1>3. CASE k \in Expired
  <2>1. Busy(k) = {} /\ k \notin evicting
    BY <1>0, <1>3 DEF PlacesInv, Expired
  <2>. QED  BY <1>0, <1>2, <2>1 DEF OneAccess
<1>4. CASE k \notin Expired
  <2>1. store'[k] = store[k] /\ Messages(k)' = Messages(k)
    BY <1>0, <1>4 DEF Messages
  <2>2. Old(k) => Old(k)'
    <3>1. store[k] # Nil => store[k].touched \in Int
      BY Functions
    <3>2. clock \in Int /\ TTL \in Int
      BY Functions, ConversationAssumption
    <3>. QED  BY <1>0, <2>1, <3>1, <3>2 DEF Old, Age
  <2>. QED  BY <1>0, <1>1, <1>2, <2>1, <2>2 DEF OneAccess
<1>. QED  BY <1>3, <1>4

LEMMA AccessStep ==
    ASSUME PlacesInv, AccessInv, [Next]_vars
    PROVE  AccessInv'
<1>stays. Stays /\ PlacesInv'
  BY StaysStep, PlacesStep
<1>1. ASSUME NEW r \in Requests, Handle(r)
      PROVE  AccessInv'
  BY <1>1, <1>stays, HandlerAccess
<1>. SUFFICES ASSUME NEW k \in Keys \ raced', ~(\E r \in Requests : Handle(r)), ~Tick
              PROVE  OneAccess(k)'
  BY <1>1, TickAccess DEF AccessInv
<1>0. OneAccess(k)
  BY <1>stays DEF AccessInv, Stays
<1>2. CASE EvictMemory
  <2>1. \A u \in Requests : ~(u \in Busy(k))'
    BY <1>2, <1>stays DEF EvictMemory, Busy, PlacesInv
  <2>2. k \notin evicting'
    BY <1>2, <1>stays DEF EvictMemory, PlacesInv
  <2>. QED  BY <2>1, <2>2, FreeAccess
<1>3. CASE Crash
  <2>1. \A u \in Requests : ~(u \in Busy(k))'
    BY <1>3 DEF Crash, Busy
  <2>2. k \notin evicting'
    BY <1>3 DEF Crash
  <2>. QED  BY <2>1, <2>2, FreeAccess
<1>4. ASSUME NEW j \in Keys, EvictFile(j)
      PROVE  OneAccess(k)'
  <2>0. Busy(k)' = Busy(k) /\ Messages(k)' = Messages(k) /\ Old(k)' = Old(k) /\ pc' = pc /\ read' = read
        /\ store' = store
    BY <1>4 DEF EvictFile, boundVars, Busy, Key, KeyOf, Messages, Old, Age
  <2>1. k \in evicting' => Busy(k) = {} /\ Old(k)
    BY <1>4 DEF EvictFile, Race
  <2>. QED  BY <1>0, <2>0, <2>1 DEF OneAccess
<1>5. ASSUME NEW j \in Keys, RemoveFile(j)
      PROVE  OneAccess(k)'
  <2>0. /\ pc' = pc /\ session' = session /\ read' = read /\ backend' = backend /\ clock' = clock
        /\ evicting' = {} /\ j \in evicting /\ store' = [store EXCEPT ![j] = Nil]
    BY <1>5 DEF RemoveFile, boundVars
  <2>1. Busy(k)' = Busy(k)
    BY <2>0 DEF Busy, Key, KeyOf
  <2>2. CASE k = j
    BY <1>0, <2>0, <2>1, <2>2 DEF OneAccess
  <2>3. CASE k # j
    <3>1. store'[k] = store[k] /\ Messages(k)' = Messages(k) /\ Old(k)' = Old(k)
      BY <2>0, <2>3, Functions DEF Messages, Old, Age
    <3>. QED  BY <1>0, <2>0, <2>1, <3>1 DEF OneAccess
  <2>. QED  BY <2>2, <2>3
<1>6. CASE UNCHANGED vars
  <2>1. Busy(k)' = Busy(k) /\ Messages(k)' = Messages(k) /\ Old(k)' = Old(k)
        /\ UNCHANGED <<pc, read, store, evicting>>
    BY <1>6 DEF vars, storeVars, boundVars, Busy, Key, KeyOf, Messages, Old, Age
  <2>. QED  BY <1>0, <2>1 DEF OneAccess
<1>. QED  BY <1>2, <1>3, <1>4, <1>5, <1>6 DEF Next

-----------------------------------------------------------------------------
(* What a key's history is, and what a step does to it.                    *)

\* While a file is filled its history is what its handler has read.
HistoryRead ==
    \A k \in Keys \ raced :
        /\ \A r \in Requests : r \in Busy(k) /\ pc[r] = "write" => History(k) = read[r]
        /\ (\A r \in Requests : r \in Busy(k) => pc[r] # "write") => History(k) = Messages(k)

LEMMA HistoryIs == AccessInv => HistoryRead
<1>. SUFFICES ASSUME AccessInv, NEW k \in Keys \ raced
              PROVE  /\ \A r \in Requests : r \in Busy(k) /\ pc[r] = "write" => History(k) = read[r]
                     /\ (\A r \in Requests : r \in Busy(k) => pc[r] # "write") => History(k) = Messages(k)
  BY DEF HistoryRead
<1>0. \A r, u \in Busy(k) : r = u
  BY DEF AccessInv, OneAccess
<1>. DEFINE filling == {r \in Busy(k) : pc[r] = "write"}
<1>1. ASSUME NEW r \in Requests, r \in Busy(k), pc[r] = "write"
      PROVE  History(k) = read[r]
  <2>1. filling = {r}
    BY <1>0, <1>1
  <2>2. (CHOOSE u \in filling : TRUE) = r
    BY <2>1
  <2>. QED  BY <2>1, <2>2 DEF History
<1>2. ASSUME \A r \in Requests : r \in Busy(k) => pc[r] # "write"
      PROVE  History(k) = Messages(k)
  <2>1. filling = {}
    BY <1>2 DEF Busy
  <2>. QED  BY <2>1 DEF History
<1>. QED  BY <1>1, <1>2

\* Redis refuses an entry without an expiry.
RedisInv == backend = "redis" /\ TTL = 0 => \A k \in Keys : store[k] = Nil

LEMMA RedisStep ==
    ASSUME PlacesInv, RedisInv, [Next]_vars
    PROVE  RedisInv'
<1>. SUFFICES ASSUME backend = "redis", TTL = 0, NEW k \in Keys
              PROVE  store'[k] = Nil
  BY StaysStep DEF RedisInv, Stays
<1>0. store[k] = Nil /\ \A r \in Requests : pc[r] \notin {"stale", "truncate", "write"}
  BY DEF RedisInv, PlacesInv
<1>1. ASSUME NEW r \in Requests, Handle(r)
      PROVE  store'[k] = Nil
  <2>1. CASE Arrive(r) \/ LoadCurrent(r) \/ LoadOldFile(r) \/ LoadFails(r) \/ Infer(r) \/ ReadFile(r)
             \/ GetRedis(r) \/ AppendFails(r) \/ Drop(r)
    BY <2>1, <1>0 DEF Arrive, LoadCurrent, LoadOldFile, LoadFails, Infer, ReadFile, GetRedis, AppendFails, Drop,
                      storeVars
  <2>2. ~(LoadOld(r) \/ RemoveOldFile(r) \/ AppendMemory(r) \/ Truncate(r) \/ Write(r))
    BY <1>0 DEF LoadOld, RemoveOldFile, AppendMemory, Truncate, Write, NoEntry
  <2>. QED  BY <1>1, <2>1, <2>2 DEF Handle
<1>2. CASE EvictMemory \/ Tick \/ Crash
  BY <1>0, <1>2 DEF EvictMemory, Tick, Crash
<1>3. ASSUME NEW j \in Keys, EvictFile(j) \/ RemoveFile(j)
      PROVE  store'[k] = Nil
  BY <1>0, <1>3, Functions DEF EvictFile, RemoveFile
<1>4. CASE UNCHANGED vars
  BY <1>0, <1>4 DEF vars, storeVars
<1>. QED  BY <1>1, <1>2, <1>3, <1>4 DEF Next

Writing(u, k) == pc[u] = "write" /\ Key(u) = k

\* The turn of one request is added, and nobody else is answered.
Grows(k) ==
    \E r \in Requests :
       /\ pc[r] \notin {"idle", "answered"} /\ pc'[r] = "answered" /\ Key(r) = k
       /\ History(k)' = Appended(History(k), r)
       /\ \A u \in Requests \ {r} : pc'[u] = pc[u]

Cleared(k) ==
    /\ History(k)' = <<>> /\ k \in lost'
    /\ \/ faults' # faults \/ crashes' # crashes
       \/ TTL > 0 /\ clock' - store[k].touched >= TTL

\* Nothing is added, and nobody told that it was.
Same(k) ==
    /\ History(k)' = History(k)
    /\ k \in lost' \/ \A u \in Requests : Told(u)' /\ Key(u)' = k => Told(u)

Effect(k) == Same(k) \/ Grows(k) \/ Cleared(k)

LEMMA WithoutWriters ==
    ASSUME HistoryRead, NEW k \in Keys \ raced, \A u \in Requests : ~Writing(u, k)
    PROVE  History(k) = Messages(k)
<1>1. \A r \in Requests : r \in Busy(k) => pc[r] # "write"
  BY DEF Busy, Writing
<1>. QED  BY <1>1 DEF HistoryRead

LEMMA WithWriter ==
    ASSUME HistoryRead, NEW k \in Keys \ raced, NEW u \in Requests, Writing(u, k)
    PROVE  History(k) = read[u]
<1>1. u \in Busy(k) /\ pc[u] = "write"
  BY DEF Busy, Writing
<1>. QED  BY <1>1 DEF HistoryRead

LEMMA WithoutWritersAfter ==
    ASSUME HistoryRead', NEW k \in Keys \ raced', \A u \in Requests : ~Writing(u, k)'
    PROVE  History(k)' = Messages(k)'
<1>1. \A r \in Requests : (r \in Busy(k))' => pc'[r] # "write"
  BY DEF Busy, Writing
<1>. QED  BY <1>1 DEF HistoryRead

LEMMA WithWriterAfter ==
    ASSUME HistoryRead', NEW k \in Keys \ raced', NEW u \in Requests, Writing(u, k)'
    PROVE  History(k)' = read'[u]
<1>1. (u \in Busy(k))' /\ pc'[u] = "write"
  BY DEF Busy, Writing
<1>. QED  BY <1>1 DEF HistoryRead

LEMMA HistoryStays ==
    ASSUME HistoryRead, HistoryRead', NEW k \in Keys \ raced', k \notin raced,
           Messages(k)' = Messages(k),
           \A u \in Requests : Writing(u, k)' <=> Writing(u, k),
           \A u \in Requests : Writing(u, k) => read'[u] = read[u]
    PROVE  History(k)' = History(k)
<1>1. CASE \A u \in Requests : ~Writing(u, k)
  BY <1>1, WithoutWriters, WithoutWritersAfter
<1>2. ASSUME NEW u \in Requests, Writing(u, k)
      PROVE  History(k)' = History(k)
  BY <1>2, WithWriter, WithWriterAfter
<1>. QED  BY <1>1, <1>2

\* Both before and after a step.
HistoryStep == PlacesInv /\ PlacesInv' /\ AccessInv /\ HistoryRead /\ HistoryRead' /\ RedisInv /\ Stays

\* A key the step does not touch, or touches without writing.
LEMMA SameWithout ==
    ASSUME HistoryStep, NEW k \in Keys \ raced', Messages(k)' = Messages(k),
           \A u \in Requests : Writing(u, k)' <=> Writing(u, k),
           \A u \in Requests : Writing(u, k) => read'[u] = read[u],
           k \in lost' \/ \A u \in Requests : Told(u)' /\ Key(u)' = k => Told(u)
    PROVE  Same(k)
<1>1. k \notin raced
  BY DEF HistoryStep, Stays
<1>. QED  BY <1>1, HistoryStays DEF HistoryStep, Same

LEMMA HandlerEffect ==
    ASSUME HistoryStep, NEW r \in Requests, Handle(r), NEW k \in Keys \ raced'
    PROVE  Effect(k)
<1>. USE Functions DEF HistoryStep
<1>local. Local(r)
  BY HandlersAreLocal
<1>0. k \notin raced /\ OneAccess(k)
  BY DEF Stays, AccessInv
<1>others. \A u \in Requests \ {r} : /\ Writing(u, k)' <=> Writing(u, k)
                                     /\ read'[u] = read[u] /\ pc'[u] = pc[u]
                                     /\ Told(u)' <=> Told(u)
  BY <1>local DEF Local, Writing, Told, Key, KeyOf
<1>1. CASE pc[r] = "idle"
  <2>1. Messages(k)' = Messages(k)
    BY <1>1, <1>local DEF Local, Messages
  <2>2. ~Writing(r, k) /\ ~Writing(r, k)' /\ ~Told(r)'
    BY <1>1 DEF Stays, Writing, Told
  <2>. QED  BY <1>others, <2>1, <2>2, SameWithout DEF Effect
<1>2. CASE pc[r] # "idle" /\ Key(r) # k
  <2>1. Messages(k)' = Messages(k)
    BY <1>2, <1>local DEF Local, Messages
  <2>2. Key(r)' = Key(r)
    BY <1>2, KeysStay
  <2>3. ~Writing(r, k) /\ ~Writing(r, k)'
    BY <1>2, <2>2 DEF Writing
  <2>. QED  BY <1>2, <1>others, <2>1, <2>2, <2>3, SameWithout DEF Effect
<1>3. CASE pc[r] # "idle" /\ Key(r) = k
  <2>key. Key(r)' = k
    BY <1>3, KeysStay
  <2>msgs. Messages(k) \in Seq(Message)
    BY <1>3, KeyTypes
  <2>memory. backend = "memory" =>
                /\ \A u \in Requests : ~Writing(u, k) /\ ~Writing(u, k)'
                /\ History(k) = Messages(k) /\ History(k)' = Messages(k)'
    <3>1. backend = "memory" => \A u \in Requests : ~Writing(u, k) /\ ~Writing(u, k)'
      BY DEF PlacesInv, Writing, Stays
    <3>. QED  BY <1>0, <3>1, WithoutWriters, WithoutWritersAfter
  \* A step to or from a place where nothing is written.
  <2>1. ASSUME Messages(k)' = Messages(k), pc[r] # "write", pc'[r] # "write", k \in lost' \/ ~Told(r)'
        PROVE  Effect(k)
    <3>1. ~Writing(r, k) /\ ~Writing(r, k)'
      BY <2>1 DEF Writing
    <3>. QED  BY <1>others, <2>1, <3>1, SameWithout DEF Effect
  \* The only one at the key.
  <2>2. ASSUME r \in Busy(k), pc'[r] # "write"
        PROVE  History(k)' = Messages(k)'
    <3>1. \A u \in Requests \ {r} : ~Writing(u, k)
      BY <1>0, <2>2 DEF OneAccess, Writing, Busy
    <3>2. \A u \in Requests : ~Writing(u, k)'
      BY <1>others, <2>2, <3>1 DEF Writing
    <3>. QED  BY <3>2, WithoutWritersAfter
  <2>age. store[k] # Nil => store[k].touched \in Int /\ clock \in Int
    OBVIOUS
  <2>3. CASE LoadCurrent(r)
    <3>1. Messages(k)' = Messages(k)
      <4>1. CASE backend = "memory" /\ store[k] # Nil
        <5>1. store' = [store EXCEPT ![k].touched = clock]
          BY <1>3, <2>3, <4>1 DEF LoadCurrent
        <5>2. [store[k] EXCEPT !.touched = clock] = Entry(Messages(k))
          BY <4>1, EntryTouched
        <5>3. store'[k] = Entry(Messages(k))
          BY <5>1, <5>2
        <5>. QED  BY <2>msgs, <5>3, EntryFacts DEF Messages
      <4>2. CASE ~(backend = "memory" /\ store[k] # Nil)
        BY <1>3, <2>3, <4>2 DEF LoadCurrent, Messages
      <4>. QED  BY <4>1, <4>2
    <3>2. pc[r] # "write" /\ pc'[r] = "infer"
      BY <2>3 DEF LoadCurrent, Loaded, Goto
    <3>. QED  BY <2>1, <3>1, <3>2 DEF Told
  <2>4. CASE LoadOld(r)
    <3>1. backend = "memory" /\ store'[k] = Nil /\ k \in lost' /\ Old(k) /\ clock' = clock
      BY <1>3, <2>4 DEF LoadOld, boundVars
    <3>2. History(k)' = <<>>
      BY <2>memory, <3>1 DEF Messages
    <3>. QED  BY <2>age, <3>1, <3>2, ConversationAssumption DEF Effect, Cleared, Old, Age
  <2>5. CASE LoadOldFile(r)
    BY <2>1, <2>5 DEF LoadOldFile, Goto, Told, Messages, storeVars
  <2>6. CASE RemoveOldFile(r)
    <3>1. store'[k] = Nil /\ k \in lost' /\ clock' = clock /\ pc[r] = "stale" /\ pc'[r] = "infer"
      BY <1>3, <2>6 DEF RemoveOldFile, Loaded, Goto, boundVars
    <3>2. r \in Busy(k)
      BY <1>3, <3>1 DEF Busy
    <3>3. Old(k) /\ History(k)' = <<>>
      BY <1>0, <2>2, <3>1, <3>2 DEF OneAccess, Messages
    <3>. QED  BY <2>age, <3>1, <3>3, ConversationAssumption DEF Effect, Cleared, Old, Age
  <2>7. CASE LoadFails(r)
    BY <2>1, <2>7 DEF LoadFails, Loaded, Goto, Told, Messages, storeVars
  <2>8. CASE Infer(r)
    <3>1. pc[r] # "write" /\ pc'[r] # "write" /\ ~Told(r)'
      BY <2>8 DEF Infer, Goto, Told
    <3>. QED  BY <2>1, <2>8, <3>1 DEF Infer, Messages, storeVars
  <2>9. CASE AppendMemory(r)
    <3>1. /\ backend = "memory" /\ store'[k] = Entry(Appended(Messages(k), r))
          /\ pc[r] = "append" /\ pc'[r] = "answered"
      BY <1>3, <2>9 DEF AppendMemory, Goto
    <3>2. Messages(k)' = Appended(Messages(k), r)
      BY <2>msgs, <3>1, AppendedOf, EntryFacts DEF Messages
    <3>. QED  BY <1>3, <1>others, <2>memory, <3>1, <3>2 DEF Effect, Grows
  <2>10. CASE ReadFile(r) \/ GetRedis(r)
    BY <2>1, <2>10 DEF ReadFile, GetRedis, Goto, Told, Messages, storeVars
  <2>11. CASE Truncate(r)
    <3>1. r \in Busy(k) /\ pc[r] = "truncate" /\ pc'[r] = "write" /\ read' = read
      BY <1>3, <2>11 DEF Truncate, Goto, Busy
    <3>2. \A u \in Requests : ~Writing(u, k)
      BY <1>0, <3>1 DEF OneAccess, Writing, Busy
    <3>3. History(k) = Messages(k) /\ read[r] = Messages(k)
      BY <1>0, <3>1, <3>2, WithoutWriters DEF OneAccess
    <3>4. History(k)' = read'[r]
      BY <2>key, <3>1, WithWriterAfter DEF Writing
    <3>. QED  BY <1>others, <3>1, <3>3, <3>4 DEF Effect, Same, Told
  <2>12. CASE Write(r)
    <3>1. /\ r \in Busy(k) /\ pc[r] \in {"write", "set"} /\ pc'[r] = "answered"
          /\ store'[k] = Entry(Appended(read[r], r))
      BY <1>3, <2>12 DEF Write, Goto, Busy
    <3>2. History(k)' = Appended(read[r], r)
      BY <2>2, <3>1, AppendedOf, EntryFacts DEF Messages
    <3>3. History(k) = read[r]
      <4>1. CASE pc[r] = "write"
        BY <1>0, <1>3, <4>1, WithWriter DEF Writing
      <4>2. CASE pc[r] = "set"
        <5>1. \A u \in Requests : ~Writing(u, k)
          BY <1>0, <3>1, <4>2 DEF OneAccess, Writing, Busy
        <5>. QED  BY <1>0, <3>1, <4>2, <5>1, WithoutWriters DEF OneAccess
      <4>. QED  BY <3>1, <4>1, <4>2
    <3>. QED  BY <1>3, <1>others, <3>1, <3>2, <3>3 DEF Effect, Grows
  <2>13. CASE AppendFails(r)
    <3>1. store' = store /\ k \in lost' /\ pc'[r] = "answered"
      BY <1>3, <2>13 DEF AppendFails, Goto, storeVars
    <3>2. CASE pc[r] # "write"
      BY <2>1, <3>1, <3>2 DEF Messages
    <3>3. CASE pc[r] = "write"
      <4>1. r \in Busy(k)
        BY <1>3, <3>3 DEF Busy
      <4>2. History(k)' = <<>>
        BY <1>0, <2>2, <3>1, <3>3, <4>1 DEF OneAccess, Messages
      <4>3. faults' # faults
        BY <2>13, <3>3 DEF AppendFails, NoEntry, PlacesInv, TypeOK
      <4>. QED  BY <3>1, <4>2, <4>3 DEF Effect, Cleared
    <3>. QED  BY <3>2, <3>3
  <2>14. CASE Drop(r)
    <3>1. pc[r] # "write" /\ pc'[r] = "unanswered"
      BY <2>14 DEF Drop, Goto
    <3>. QED  BY <2>1, <2>14, <3>1 DEF Drop, Told, Messages, storeVars
  <2>15. ~Arrive(r)
    BY <1>3 DEF Arrive
  <2>. QED  BY <2>3, <2>4, <2>5, <2>6, <2>7, <2>8, <2>9, <2>10, <2>11, <2>12, <2>13, <2>14, <2>15 DEF Handle
<1>. QED  BY <1>1, <1>2, <1>3

LEMMA StepEffect ==
    ASSUME HistoryStep, [Next]_vars, NEW k \in Keys \ raced'
    PROVE  Effect(k)
<1>. USE Functions DEF HistoryStep
<1>0. k \notin raced /\ OneAccess(k) /\ TTL \in Nat /\ MaxCrashes \in Nat
  BY ConversationAssumption DEF Stays, AccessInv
<1>age. store[k] # Nil => store[k].touched \in Int /\ clock \in Int
  OBVIOUS
<1>1. ASSUME NEW r \in Requests, Handle(r)
      PROVE  Effect(k)
  BY <1>1, HandlerEffect
\* A step that only cleans up.
<1>2. ASSUME UNCHANGED <<pc, session, kind, read, backend>>, Messages(k)' = Messages(k)
      PROVE  Effect(k)
  <2>1. \A u \in Requests : /\ Writing(u, k)' <=> Writing(u, k)
                            /\ Told(u)' <=> Told(u)
    BY <1>2 DEF Writing, Told, Key, KeyOf
  <2>. QED  BY <1>2, <2>1, SameWithout DEF Effect
<1>3. ASSUME store'[k] = Nil, \A u \in Requests : ~Writing(u, k)'
      PROVE  History(k)' = <<>>
  BY <1>3, WithoutWritersAfter DEF Messages
<1>4. CASE EvictMemory
  <2>0. UNCHANGED <<pc, session, kind, read, backend, clock>> /\ backend = "memory"
    BY <1>4 DEF EvictMemory, boundVars
  <2>1. CASE TTL > 0 /\ store[k] # Nil /\ Age(k) >= TTL
    <3>1. store'[k] = Nil /\ k \in lost'
      BY <1>4, <2>1 DEF EvictMemory
    <3>2. \A u \in Requests : ~Writing(u, k)'
      BY <2>0 DEF PlacesInv, Writing
    <3>. QED  BY <1>3, <2>0, <2>1, <3>1, <3>2 DEF Effect, Cleared, Age
  <2>2. CASE ~(TTL > 0 /\ store[k] # Nil /\ Age(k) >= TTL)
    <3>1. store'[k] = store[k]
      BY <1>4, <2>2 DEF EvictMemory
    <3>. QED  BY <1>2, <2>0, <3>1 DEF Messages
  <2>. QED  BY <2>1, <2>2
<1>5. CASE Tick
  <2>0. UNCHANGED <<pc, session, kind, read, backend>> /\ clock' = clock + 1
    BY <1>5 DEF Tick
  <2>1. CASE k \in Expired
    <3>1. store'[k] = Nil /\ k \in lost'
      BY <1>5, <2>1 DEF Tick
    <3>2. backend = "redis" /\ store[k] # Nil /\ Age(k) + 1 >= TTL
      BY <2>1 DEF Expired
    <3>3. TTL > 0
      BY <1>0, <3>2 DEF RedisInv
    <3>4. \A u \in Requests : ~Writing(u, k)'
      BY <2>0, <3>2 DEF PlacesInv, Writing
    <3>5. clock' - store[k].touched >= TTL
      BY <1>0, <1>age, <2>0, <3>2 DEF Age
    <3>. QED  BY <1>3, <3>1, <3>3, <3>4, <3>5 DEF Effect, Cleared
  <2>2. CASE k \notin Expired
    <3>1. store'[k] = store[k]
      BY <1>5, <2>2 DEF Tick
    <3>. QED  BY <1>2, <2>0, <3>1 DEF Messages
  <2>. QED  BY <2>1, <2>2
<1>6. CASE Crash
  <2>0. /\ crashes' # crashes /\ \A u \in Requests : ~Writing(u, k)'
        /\ UNCHANGED <<session, kind, backend>>
        /\ \A u \in Requests : pc'[u] = "answered" => pc[u] = "answered"
    BY <1>6 DEF Crash, Writing, PlacesInv, TypeOK
  <2>1. CASE backend = "memory"
    <3>1. store'[k] = Nil /\ k \in lost'
      BY <1>6, <2>1 DEF Crash
    <3>. QED  BY <1>3, <2>0, <3>1 DEF Effect, Cleared
  <2>2. ASSUME backend # "memory", NEW u \in Requests, Writing(u, k)
        PROVE  Effect(k)
    <3>1. u \in Busy(k) /\ pc[u] = "write"
      BY <2>2 DEF Busy, Writing
    <3>2. store' = store /\ k \in lost'
      BY <1>6, <2>2, <3>1 DEF Crash, Torn
    <3>3. Messages(k)' = <<>>
      BY <1>0, <3>1, <3>2 DEF OneAccess, Messages
    <3>4. History(k)' = <<>>
      BY <2>0, <3>3, WithoutWritersAfter
    <3>. QED  BY <2>0, <3>2, <3>4 DEF Effect, Cleared
  <2>3. CASE backend # "memory" /\ \A u \in Requests : ~Writing(u, k)
    <3>1. Messages(k)' = Messages(k)
      BY <1>6, <2>3 DEF Crash, Messages
    <3>2. \A u \in Requests : Told(u)' => Told(u)
      BY <2>0 DEF Told
    <3>. QED  BY <2>0, <2>3, <3>1, <3>2, SameWithout DEF Effect
  <2>. QED  BY <2>1, <2>2, <2>3
<1>7. ASSUME NEW j \in Keys, EvictFile(j)
      PROVE  Effect(k)
  BY <1>2, <1>7 DEF EvictFile, Messages
<1>8. ASSUME NEW j \in Keys, RemoveFile(j)
      PROVE  Effect(k)
  <2>0. /\ UNCHANGED <<pc, session, kind, read, backend, clock>>
        /\ j \in evicting /\ store' = [store EXCEPT ![j] = Nil] /\ j \in lost'
    BY <1>8 DEF RemoveFile, boundVars
  <2>1. CASE k = j
    <3>1. Busy(k) = {} /\ Old(k)
      BY <1>0, <2>0, <2>1 DEF OneAccess
    <3>2. \A u \in Requests : ~Writing(u, k)'
      BY <2>0, <3>1 DEF Busy, Writing, Key, KeyOf
    <3>. QED  BY <1>0, <1>3, <1>age, <2>0, <2>1, <3>1, <3>2 DEF Effect, Cleared, Old, Age
  <2>2. CASE k # j
    <3>1. store'[k] = store[k]
      BY <2>0, <2>2
    <3>. QED  BY <1>2, <2>0, <3>1 DEF Messages
  <2>. QED  BY <2>1, <2>2
<1>9. CASE UNCHANGED vars
  BY <1>2, <1>9 DEF vars, storeVars, Messages
<1>. QED  BY <1>1, <1>4, <1>5, <1>6, <1>7, <1>8, <1>9 DEF Next

-----------------------------------------------------------------------------
(* Nothing a client was told is forgotten without a reason.                *)

LEMMA HistoriesAreMessages ==
    ASSUME PlacesInv, HistoryRead, NEW k \in Keys \ raced
    PROVE  History(k) \in Seq(Message)
<1>1. CASE \A u \in Requests : ~Writing(u, k)
  <2>1. Messages(k) \in Seq(Message)
    BY Functions DEF Messages
  <2>. QED  BY <1>1, <2>1, WithoutWriters
<1>2. ASSUME NEW u \in Requests, Writing(u, k)
      PROVE  History(k) \in Seq(Message)
  BY <1>2, WithWriter, Functions
<1>. QED  BY <1>1, <1>2

LEMMA KeptStep ==
    ASSUME HistoryStep, KeptInv, [Next]_vars
    PROVE  KeptInv'
<1>. USE DEF HistoryStep
<1>. SUFFICES ASSUME NEW k \in Keys \ (raced' \union lost'), ~IsFull(History(k)'),
                     NEW u \in Requests, Told(u)', Key(u)' = k
              PROVE  Has(History(k)', u)
  BY DEF KeptInv, IsFull, Has
<1>0. k \in Keys \ (raced \union lost)
  BY DEF Stays
<1>1. pc[u] # "idle" /\ Key(u) = k /\ kind'[u] = kind[u]
  <2>1. pc[u] # "idle"
    BY DEF Stays, Told
  <2>. QED  BY <2>1, KeysStay DEF Stays
<1>2. CASE Same(k)
  <2>1. Told(u) /\ History(k)' = History(k)
    BY <1>2 DEF Same
  <2>. QED  BY <1>0, <1>1, <2>1 DEF KeptInv
<1>3. CASE Grows(k)
  <2>1. PICK r \in Requests : /\ History(k)' = Appended(History(k), r)
                              /\ \A q \in Requests \ {r} : pc'[q] = pc[q]
    BY <1>3 DEF Grows
  <2>2. History(k) \in Seq(Message)
    BY <1>0, HistoriesAreMessages
  <2>3. /\ ~IsFull(History(k))
        /\ Has(History(k)', r) /\ \A q : Has(History(k), q) => Has(History(k)', q)
    BY <2>1, <2>2, AppendedOf
  <2>4. CASE u # r
    <3>1. Told(u)
      BY <1>1, <2>1, <2>4 DEF Told
    <3>. QED  BY <1>0, <1>1, <2>3, <3>1 DEF KeptInv
  <2>. QED  BY <2>3, <2>4
<1>4. ~Cleared(k)
  BY DEF Cleared
<1>. QED  BY <1>2, <1>3, <1>4, StepEffect DEF Effect

\* What a request knew, what it forgets, and what it learns as it comes.
LEMMA KnownSteps ==
    ASSUME PlacesInv, [Next]_vars, NEW r \in Requests
    PROVE  \/ known'[r] = known[r] \/ known'[r] = {}
           \/ /\ pc[r] = "idle" /\ pc'[r] # "idle"
              /\ known'[r] \subseteq {u \in Requests : Told(u) /\ session[u] = session'[r]}
<1>. USE Functions
<1>1. ASSUME NEW q \in Requests, Handle(q)
      PROVE  \/ known'[r] = known[r] \/ known'[r] = {}
             \/ /\ pc[r] = "idle" /\ pc'[r] # "idle"
                /\ known'[r] \subseteq {u \in Requests : Told(u) /\ session[u] = session'[r]}
  <2>1. CASE q # r
    <3>1. Local(q)
      BY <1>1, HandlersAreLocal
    <3>. QED  BY <2>1, <3>1 DEF Local
  <2>2. CASE q = r /\ Arrive(r)
    <3>1. PICK s \in Sessions, h \in {"infer", "chat", "peer"} :
             /\ session' = [session EXCEPT ![r] = s]
             /\ Goto(r, IF h = "infer" THEN "load" ELSE "infer")
             /\ known' = [known EXCEPT ![r] =
                   {u \in Requests : pc[u] = "answered" /\ kind[u] # "peer" /\ session[u] = s}]
      BY <2>2 DEF Arrive
    <3>2. known'[r] = {u \in Requests : pc[u] = "answered" /\ kind[u] # "peer" /\ session[u] = s}
      BY <3>1
    <3>3. session'[r] = s /\ pc'[r] # "idle"
      BY <3>1 DEF Goto
    <3>4. pc[r] = "idle"
      BY <2>2 DEF Arrive
    <3>. QED  BY <3>2, <3>3, <3>4 DEF Told
  <2>3. CASE q = r /\ (LoadCurrent(r) \/ LoadOld(r) \/ LoadOldFile(r) \/ RemoveOldFile(r) \/ LoadFails(r)
                       \/ AppendMemory(r) \/ ReadFile(r) \/ GetRedis(r) \/ Truncate(r) \/ Write(r)
                       \/ AppendFails(r))
    BY <2>3 DEF LoadCurrent, LoadOld, LoadOldFile, RemoveOldFile, LoadFails, AppendMemory, ReadFile, GetRedis,
                Truncate, Write, AppendFails, auxVars
  <2>4. CASE q = r /\ (Infer(r) \/ Drop(r))
    BY <2>4 DEF Infer, Drop, Sent
  <2>. QED  BY <1>1, <2>1, <2>2, <2>3, <2>4 DEF Handle
<1>2. CASE EvictMemory \/ Tick \/ Crash
  BY <1>2 DEF EvictMemory, Tick, Crash
<1>3. ASSUME NEW k \in Keys, EvictFile(k) \/ RemoveFile(k)
      PROVE  known'[r] = known[r]
  BY <1>3 DEF EvictFile, RemoveFile
<1>4. CASE UNCHANGED vars
  BY <1>4 DEF vars, auxVars
<1>. QED  BY <1>1, <1>2, <1>3, <1>4 DEF Next

LEMMA KnownStep ==
    ASSUME PlacesInv, KnownInv, [Next]_vars
    PROVE  KnownInv'
<1>. SUFFICES ASSUME NEW r \in Requests, NEW u \in known'[r]
              PROVE  pc'[r] # "idle" /\ Told(u)' /\ session'[u] = session'[r]
  BY DEF KnownInv
<1>1. Stays /\ known[r] \subseteq Requests
  BY StaysStep, Functions
<1>2. ASSUME NEW q \in Requests, Told(q)
      PROVE  Told(q)' /\ session'[q] = session[q]
  BY <1>1, <1>2 DEF Stays, Told
<1>3. CASE u \in known[r]
  <2>1. u \in Requests /\ pc[r] # "idle" /\ Told(u) /\ session[u] = session[r]
    BY <1>1, <1>3 DEF KnownInv
  <2>. QED  BY <1>1, <1>2, <2>1 DEF Stays
<1>4. CASE u \notin known[r]
  <2>1. pc'[r] # "idle" /\ u \in Requests /\ Told(u) /\ session[u] = session'[r]
    BY <1>4, KnownSteps
  <2>. QED  BY <1>2, <2>1
<1>. QED  BY <1>3, <1>4

\* What is told a prompt about its own session.
Read(r) ==
    \/ kind[r] # "infer" \/ pc[r] # "infer"
    \/ Key(r) \in raced \union lost
    \/ known[r] \subseteq Turns(context[r])
    \/ IsFull(context[r])

LEMMA LoadReads ==
    ASSUME HistoryStep, KeptInv, KnownInv, NEW r \in Requests, LoadCurrent(r)
    PROVE  Read(r)'
<1>. USE DEF HistoryStep
<1>. DEFINE k == Key(r)
<1>0. /\ pc[r] = "load" /\ context'[r] = Messages(k)
      /\ known' = known /\ lost' = lost
      /\ {u \in Busy(k) : pc[u] = "write"} # {} => k \in raced'
  BY Functions DEF LoadCurrent, Loaded, Race
<1>1. k \in Keys /\ Messages(k) \in Seq(Message) /\ Key(r)' = k
  BY <1>0, KeyTypes, KeysStay
<1>. SUFFICES ASSUME k \notin raced' \union lost'
              PROVE  \/ known'[r] \subseteq Turns(context'[r])
                     \/ IsFull(context'[r])
  BY <1>1 DEF Read, Turns, IsFull
<1>2. k \notin raced /\ k \notin lost
  BY DEF Stays
<1>3. History(k) = Messages(k)
  <2>1. \A u \in Requests : ~Writing(u, k)
    BY <1>0 DEF Busy, Writing
  <2>. QED  BY <1>1, <1>2, <2>1, WithoutWriters
<1>. HIDE DEF k
<1>4. CASE IsFull(Messages(k))
  BY <1>0, <1>4
<1>5. CASE ~IsFull(Messages(k))
  <2>1. ASSUME NEW u \in known[r]
        PROVE  u \in Turns(Messages(k))
    <3>1. u \in Requests /\ Told(u) /\ session[u] = session[r]
      BY Functions DEF KnownInv
    <3>2. Key(u) = k
      BY <3>1 DEF k, Key, KeyOf
    <3>3. Has(Messages(k), u)
      BY <1>1, <1>2, <1>3, <1>5, <3>1, <3>2 DEF KeptInv
    <3>4. DOMAIN Messages(k) = 1..Len(Messages(k))
      BY <1>1, LenProperties
    <3>. QED  BY <3>3, <3>4 DEF Has, Turns, ToSet
  <2>. QED  BY <1>0, <2>1
<1>. QED  BY <1>4, <1>5

LEMMA ReadStep ==
    ASSUME HistoryStep, KeptInv, KnownInv, ReadYourTurns, [Next]_vars
    PROVE  ReadYourTurns'
<1>. USE DEF HistoryStep
<1>. SUFFICES ASSUME NEW r \in Requests PROVE Read(r)'
  BY DEF ReadYourTurns, Read, IsFull
<1>0. Read(r)
  BY DEF ReadYourTurns, Read, IsFull
\* A request that stays where it is.
<1>1. ASSUME pc'[r] = pc[r], context'[r] = context[r], known'[r] = known[r]
      PROVE  Read(r)'
  <2>1. CASE pc[r] = "infer"
    <3>1. Key(r)' = Key(r) /\ kind'[r] = kind[r]
      BY <2>1, KeysStay DEF Stays
    <3>2. Turns(context[r])' = Turns(context[r])
      BY <1>1 DEF Turns
    <3>. QED  BY <1>0, <1>1, <3>1, <3>2 DEF Read, Stays, IsFull
  <2>. QED  BY <1>1, <2>1 DEF Read
<1>2. CASE Handle(r)
  <2>1. CASE Arrive(r)
    <3>1. PICK s \in Sessions, h \in {"infer", "chat", "peer"} :
             kind' = [kind EXCEPT ![r] = h] /\ Goto(r, IF h = "infer" THEN "load" ELSE "infer")
      BY <2>1 DEF Arrive
    <3>2. kind'[r] = h /\ pc'[r] = IF h = "infer" THEN "load" ELSE "infer"
      BY <3>1, Functions DEF Goto
    <3>. QED  BY <3>2 DEF Read
  <2>2. CASE LoadCurrent(r)
    BY <2>2, LoadReads
  <2>3. CASE LoadOld(r) \/ RemoveOldFile(r) \/ LoadFails(r)
    <3>1. pc[r] # "idle" /\ Key(r) \in lost'
      BY <2>3 DEF LoadOld, RemoveOldFile, LoadFails
    <3>. QED  BY <3>1, KeysStay DEF Read
  <2>4. CASE LoadOldFile(r) \/ Infer(r) \/ AppendMemory(r) \/ ReadFile(r) \/ GetRedis(r) \/ Truncate(r)
             \/ Write(r) \/ AppendFails(r) \/ Drop(r)
    <3>1. pc'[r] # "infer"
      BY <2>4, Functions DEF LoadOldFile, Infer, AppendMemory, ReadFile, GetRedis, Truncate, Write, AppendFails,
                             Drop, Goto
    <3>. QED  BY <3>1 DEF Read
  <2>. QED  BY <1>2, <2>1, <2>2, <2>3, <2>4 DEF Handle
<1>3. ASSUME NEW q \in Requests \ {r}, Handle(q)
      PROVE  Read(r)'
  <2>1. Local(q)
    BY <1>3, HandlersAreLocal
  <2>. QED  BY <1>1, <2>1 DEF Local
<1>4. CASE EvictMemory \/ Tick
  BY <1>1, <1>4 DEF EvictMemory, Tick
<1>5. CASE Crash
  <2>1. pc'[r] # "infer"
    BY <1>5 DEF Crash
  <2>. QED  BY <2>1 DEF Read
<1>6. ASSUME NEW k \in Keys, EvictFile(k) \/ RemoveFile(k)
      PROVE  Read(r)'
  BY <1>1, <1>6 DEF EvictFile, RemoveFile
<1>7. CASE UNCHANGED vars
  BY <1>1, <1>7 DEF vars, auxVars
<1>. QED  BY <1>2, <1>3, <1>4, <1>5, <1>6, <1>7 DEF Next

-----------------------------------------------------------------------------
(* The theorems.                                                           *)

LEMMA PlacesSpec == Spec => []PlacesInv
<1>1. PlacesInv /\ [Next]_vars => PlacesInv'
  BY PlacesStep
<1>. QED  BY <1>1, PlacesInit, PTL DEF Spec

LEMMA HistorySpec == Spec => [](AccessInv /\ OwnInv /\ RedisInv)
<1>1. Init => RedisInv
  BY DEF Init, RedisInv
<1>2. PlacesInv /\ AccessInv /\ OwnInv /\ RedisInv /\ [Next]_vars => (AccessInv /\ OwnInv /\ RedisInv)'
  BY AccessStep, OwnStep, RedisStep
<1>. QED  BY <1>1, <1>2, AccessInit, OwnInit, PlacesSpec, PTL DEF Spec

\* HistoryStep of every step.
LEMMA HistorySteps ==
    PlacesInv /\ PlacesInv' /\ AccessInv /\ AccessInv' /\ RedisInv /\ [Next]_vars => HistoryStep
<1>1. AccessInv => HistoryRead
  BY HistoryIs
<1>2. AccessInv' => HistoryRead'
  BY <1>1, PTL
<1>. QED  BY <1>1, <1>2, StaysStep DEF HistoryStep

\* The variables keep their types, and no history is longer than max_messages
\* (context/src/store.rs:74-102, 214-238, 330-364).
THEOREM ConversationTypes == Spec => []TypeOK
<1>1. PlacesInv => TypeOK
  BY DEF PlacesInv
<1>. QED  BY <1>1, PlacesSpec, PTL

\* A prompt of /v1/infer is given its own session's history: no turn of another session
\* but of one that shares its file, and none of its own missing that the client was
\* answered before it asked, but for the reasons ReadYourTurns names and the token budget:
\* what fits it from the newest message back is there, and no more
\* (api/mod.rs:685-703, 786-797, support.rs:37-67).
THEOREM PromptsAreGivenTheirHistory == Spec => []PromptsAreRight
<1>1. Init => KeptInv /\ KnownInv /\ ReadYourTurns
  BY DEF Init, KeptInv, KnownInv, ReadYourTurns, Told
<1>2. /\ PlacesInv /\ PlacesInv' /\ AccessInv /\ AccessInv' /\ RedisInv
      /\ KeptInv /\ KnownInv /\ ReadYourTurns /\ [Next]_vars
      => (KeptInv /\ KnownInv /\ ReadYourTurns)'
  BY HistorySteps, KeptStep, KnownStep, ReadStep
<1>3. PlacesInv /\ OwnInv /\ ReadYourTurns => PromptsAreRight
  BY OwnContexts, NothingMoreIsCut DEF PromptsAreRight
<1>. QED  BY <1>1, <1>2, <1>3, PlacesSpec, HistorySpec, PTL DEF Spec

\* A step of the node leaves the history of a session alone, appends the turn of one
\* request to it, or drops all of it for a reason (context/src/store.rs).
THEOREM HistoriesOnlyGrow == Spec => HistoryOnlyGrows
<1>. DEFINE Kept(k) ==
               \/ History(k)' = History(k)
               \/ \E r \in Requests : pc[r] # "answered" /\ pc'[r] = "answered"
                                      /\ Key(r) = k /\ History(k)' = Appended(History(k), r)
               \/ History(k)' = <<>> /\ k \in lost' /\ (faults' # faults \/ crashes' # crashes
                                                         \/ (TTL > 0 /\ clock' - store[k].touched >= TTL))
<1>1. PlacesInv /\ PlacesInv' /\ AccessInv /\ AccessInv' /\ RedisInv /\ [Next]_vars
      => [\A k \in Keys : k \notin raced' => Kept(k)]_vars
  <2>. SUFFICES ASSUME PlacesInv, PlacesInv', AccessInv, AccessInv', RedisInv, [Next]_vars,
                       NEW k \in Keys \ raced'
                PROVE  Kept(k)
    OBVIOUS
  <2>1. Effect(k)
    BY HistorySteps, StepEffect
  <2>. QED  BY <2>1 DEF Effect, Same, Grows, Cleared
<1>. QED  BY <1>1, PlacesSpec, HistorySpec, PTL DEF Spec, HistoryOnlyGrows

-----------------------------------------------------------------------------
(***************************************************************************)
(* Part 2: blobs.  What get reads of a name that put has answered.         *)
(***************************************************************************)

PutPlaces == {"idle", "create", "fill", "unlinked", "sent", "acked", "failed", "deleted"}

BlobTypeOK ==
    /\ content \in [Putters -> Contents]
    /\ putting \in [Putters -> PutPlaces]
    /\ blob \in [Names -> {"absent", "torn", "whole"}]
    /\ unpinned \subseteq Names /\ marred \subseteq Names

\* Only the local client writes in steps, only IPFS unpins.
MediumInv ==
    /\ unpinned # {} => medium = "ipfs"
    /\ \A p \in Putters :
          /\ putting[p] \in {"create", "fill", "unlinked"} => medium = "local"
          /\ putting[p] = "sent" => medium \in {"ipfs", "walrus"}

\* A put is at work on the file of n.
Filling(n) == \E q \in Putters : putting[q] = "fill" /\ Name(q) = n

\* What a get of n may read, and why, once n was answered.
Explained(n) == blob[n] = "whole" \/ n \in marred \/ Filling(n)

\* The file a put fills is there: a delete takes it from all who fill it.
FillInv == \A p \in Putters : putting[p] = "fill" => blob[Name(p)] # "absent"

\* Who was answered, or will be whatever becomes of the blob.
Answerable == {"sent", "unlinked", "acked"}

\* A torn blob has its reason, and so has a missing one that was answered.
TornInv == \A n \in Names : blob[n] = "torn" => Explained(n)
AnsweredInv == \A p \in Putters : putting[p] \in Answerable => Explained(Name(p))

BlobInv == BlobTypeOK /\ MediumInv /\ FillInv /\ TornInv /\ AnsweredInv

\* What a step does, for what it may read afterwards.
Explains ==
    /\ \A n \in Names : Explained(n) => Explained(n)'
    /\ \A n \in Names : blob'[n] = "torn" => blob[n] = "torn" \/ Explained(n)'
    /\ \A p \in Putters : /\ Name(p)' = Name(p)
                          /\ putting'[p] \in Answerable =>
                                putting[p] \in Answerable \/ Explained(Name(p))'

-----------------------------------------------------------------------------
LEMMA NamesAreNames == BlobTypeOK => \A p \in Putters : Name(p) \in Names
  BY DEF BlobTypeOK, Name, Names

LEMMA BlobInitInv == BlobInit => BlobInv
  BY DEF BlobInit, BlobInv, BlobTypeOK, MediumInv, FillInv, TornInv, AnsweredInv, Answerable, Names, PutPlaces

\* A step that explains itself keeps the last two parts of the invariant.
LEMMA ExplainsEnough ==
    ASSUME BlobInv, Explains
    PROVE  TornInv' /\ AnsweredInv'
<1>names. \A p \in Putters : Name(p) \in Names
  BY NamesAreNames DEF BlobInv
<1>1. TornInv'
  <2>1. Names' = Names
    BY DEF Names
  <2>. QED  BY <2>1 DEF BlobInv, TornInv, Explains
<1>2. AnsweredInv'
  <2>1. ASSUME NEW p \in Putters, putting'[p] \in Answerable
        PROVE  Explained(Name(p))'
    BY <2>1, <1>names DEF BlobInv, AnsweredInv, Explains
  <2>. QED  BY <2>1 DEF AnsweredInv
<1>. QED  BY <1>1, <1>2

\* What becomes of the calls at work on a file when p goes on to its next place.
LEMMA FillingAfter ==
    ASSUME BlobTypeOK, NEW p \in Putters, NEW to \in PutPlaces,
           PutGoes(p, to), UNCHANGED <<medium, content>>
    PROVE  /\ \A q \in Putters : Name(q)' = Name(q)
           /\ putting' \in [Putters -> PutPlaces] /\ content' \in [Putters -> Contents]
           /\ putting'[p] = to /\ \A q \in Putters \ {p} : putting'[q] = putting[q]
           /\ \A n \in Names : Filling(n) =>
                 Filling(n)' \/ (putting[p] = "fill" /\ to # "fill" /\ n = Name(p))
           /\ to = "fill" => Filling(Name(p))'
<1>1. \A q \in Putters : Name(q)' = Name(q)
  BY DEF Name
<1>2. /\ putting' \in [Putters -> PutPlaces]
      /\ putting'[p] = to /\ \A q \in Putters \ {p} : putting'[q] = putting[q]
  BY DEF PutGoes, BlobTypeOK
<1>3. \A n \in Names : Filling(n) =>
         Filling(n)' \/ (putting[p] = "fill" /\ to # "fill" /\ n = Name(p))
  BY <1>1, <1>2 DEF Filling
<1>4. to = "fill" => Filling(Name(p))'
  BY <1>2, Zenon DEF Filling
<1>. QED  BY <1>1, <1>2, <1>3, <1>4 DEF BlobTypeOK

\* The steps of the local client's put.
LEMMA LocalPutStep ==
    ASSUME BlobInv, NEW p \in Putters,
           PutLocal(p) \/ Create(p) \/ Fill(p) \/ FillUnlinked(p) \/ WriteFails(p)
    PROVE  BlobInv'
<1>types. BlobTypeOK /\ MediumInv /\ FillInv /\ TornInv /\ AnsweredInv
  BY DEF BlobInv
<1>names. Name(p) \in Names /\ \A q \in Putters : Name(q) \in Names
  BY NamesAreNames, <1>types
<1>same. UNCHANGED <<medium, content, unpinned>> /\ Names' = Names
  BY DEF PutLocal, Create, Fill, FillUnlinked, WriteFails, Names
<1>local. medium = "local"
  BY <1>types DEF PutLocal, Create, Fill, FillUnlinked, WriteFails, MediumInv
<1>. SUFFICES BlobTypeOK' /\ MediumInv' /\ FillInv' /\ Explains
  BY ExplainsEnough DEF BlobInv
<1>1. CASE PutLocal(p)
  <2>. DEFINE to == IF blob[Name(p)] = "absent" THEN "create" ELSE "acked"
  <2>1. PutGoes(p, to) /\ putting[p] = "idle" /\ UNCHANGED <<blob, marred>> /\ to \in PutPlaces
    BY <1>1 DEF PutLocal, Missing, PutPlaces
  <2>2. to = "acked" => Explained(Name(p))
    BY <1>names, <1>types DEF TornInv, Explained, BlobTypeOK
  <2>. HIDE DEF to
  <2>3. to \in {"create", "acked"}
    BY DEF to
  <2>. QED  BY <2>1, <2>2, <2>3, FillingAfter, <1>same, <1>local, <1>names, <1>types
            DEF BlobTypeOK, MediumInv, FillInv, Explains, Explained, Answerable
<1>2. CASE Create(p)
  <2>1. /\ PutGoes(p, "fill") /\ putting[p] = "create" /\ "fill" \in PutPlaces
        /\ blob' = [blob EXCEPT ![Name(p)] = "torn"] /\ marred' = marred
    BY <1>2 DEF Create, Becomes, PutPlaces
  <2>. QED  BY <2>1, FillingAfter, <1>same, <1>local, <1>names, <1>types
            DEF BlobTypeOK, MediumInv, FillInv, Explains, Explained, Answerable
<1>3. CASE Fill(p)
  <2>1. /\ PutGoes(p, "acked") /\ putting[p] = "fill" /\ "acked" \in PutPlaces
        /\ blob' = [blob EXCEPT ![Name(p)] = "whole"] /\ marred' = marred \ {Name(p)}
    BY <1>3 DEF Fill, Becomes, PutPlaces
  <2>. QED  BY <2>1, FillingAfter, <1>same, <1>local, <1>names, <1>types
            DEF BlobTypeOK, MediumInv, FillInv, Explains, Explained, Answerable
<1>4. CASE FillUnlinked(p)
  <2>1. PutGoes(p, "acked") /\ putting[p] = "unlinked" /\ "acked" \in PutPlaces
        /\ UNCHANGED <<blob, marred>>
    BY <1>4 DEF FillUnlinked, PutPlaces
  <2>. QED  BY <2>1, FillingAfter, <1>same, <1>local, <1>names, <1>types
            DEF AnsweredInv, BlobTypeOK, MediumInv, FillInv, Explains, Explained, Answerable
<1>5. CASE WriteFails(p)
  <2>1. /\ PutGoes(p, "failed") /\ putting[p] \in {"create", "fill"} /\ "failed" \in PutPlaces
        /\ blob' = blob
        /\ marred' = IF blob[Name(p)] = "torn" THEN marred \union {Name(p)} ELSE marred
    BY <1>5 DEF WriteFails, PutPlaces
  \* Whom the failing call covered has a whole blob, or a name that is marred now.
  <2>2. putting[p] = "fill" => blob[Name(p)] = "whole" \/ Name(p) \in marred'
    BY <2>1, <1>names, <1>types DEF FillInv, BlobTypeOK
  <2>. QED  BY <2>1, <2>2, FillingAfter, <1>same, <1>local, <1>names, <1>types
            DEF BlobTypeOK, MediumInv, FillInv, Explains, Explained, Answerable
<1>. QED  BY <1>1, <1>2, <1>3, <1>4, <1>5

\* The memory client, the services, and what they forget.
LEMMA RemoteStep ==
    ASSUME BlobInv, NEW p \in Putters,
           PutMemory(p) \/ PutRemote(p) \/ PutAnswered(p) \/ RemotePutFails(p)
    PROVE  BlobInv'
<1>types. BlobTypeOK /\ MediumInv /\ FillInv /\ TornInv /\ AnsweredInv
  BY DEF BlobInv
<1>names. Name(p) \in Names /\ \A q \in Putters : Name(q) \in Names
  BY NamesAreNames, <1>types
<1>same. UNCHANGED <<medium, content>> /\ Names' = Names
  BY DEF PutMemory, PutRemote, PutAnswered, RemotePutFails, Names
<1>. SUFFICES BlobTypeOK' /\ MediumInv' /\ FillInv' /\ Explains
  BY ExplainsEnough DEF BlobInv
<1>1. CASE PutMemory(p)
  <2>1. /\ PutGoes(p, "acked") /\ putting[p] = "idle" /\ "acked" \in PutPlaces
        /\ blob' = [blob EXCEPT ![Name(p)] = "whole"] /\ UNCHANGED <<unpinned, marred>>
    BY <1>1 DEF PutMemory, Becomes, PutPlaces
  <2>. QED  BY <2>1, FillingAfter, <1>same, <1>names, <1>types
            DEF BlobTypeOK, MediumInv, FillInv, Explains, Explained, Answerable
<1>2. CASE PutRemote(p)
  <2>1. /\ PutGoes(p, "sent") /\ putting[p] = "idle" /\ "sent" \in PutPlaces
        /\ medium \in {"ipfs", "walrus"} /\ unpinned' = unpinned \ {Name(p)}
        /\ blob' = [blob EXCEPT ![Name(p)] = "whole"] /\ marred' = marred \ {Name(p)}
    BY <1>2 DEF PutRemote, Becomes, PutPlaces
  <2>. QED  BY <2>1, FillingAfter, <1>same, <1>names, <1>types
            DEF BlobTypeOK, MediumInv, FillInv, Explains, Explained, Answerable
<1>3. CASE PutAnswered(p)
  <2>1. /\ PutGoes(p, "acked") /\ putting[p] = "sent" /\ "acked" \in PutPlaces
        /\ UNCHANGED <<blob, unpinned, marred>>
    BY <1>3 DEF PutAnswered, PutPlaces
  <2>. QED  BY <2>1, FillingAfter, <1>same, <1>names, <1>types
            DEF BlobTypeOK, MediumInv, FillInv, Explains, Explained, Answerable
<1>4. CASE RemotePutFails(p)
  <2>1. /\ PutGoes(p, "failed") /\ putting[p] \in {"idle", "sent"} /\ "failed" \in PutPlaces
        /\ UNCHANGED <<blob, unpinned, marred>>
    BY <1>4 DEF RemotePutFails, PutPlaces
  <2>. QED  BY <2>1, FillingAfter, <1>same, <1>names, <1>types
            DEF BlobTypeOK, MediumInv, FillInv, Explains, Explained, Answerable
<1>. QED  BY <1>1, <1>2, <1>3, <1>4

\* A delete mars the name for everybody, but on Walrus, where it does nothing.
LEMMA DeleteStep ==
    ASSUME BlobInv, NEW p \in Putters, Delete(p)
    PROVE  BlobInv'
<1>. DEFINE n == Name(p)
<1>types. BlobTypeOK /\ MediumInv /\ FillInv /\ TornInv /\ AnsweredInv
  BY DEF BlobInv
<1>names. n \in Names /\ \A q \in Putters : Name(q) \in Names
  BY NamesAreNames, <1>types
<1>same. UNCHANGED <<medium, content>> /\ Names' = Names /\ \A q \in Putters : Name(q)' = Name(q)
  BY DEF Delete, Name, Names
<1>. SUFFICES BlobTypeOK' /\ MediumInv' /\ FillInv' /\ Explains
  BY ExplainsEnough DEF BlobInv
<1>1. /\ putting[p] = "acked" /\ putting' \in [Putters -> PutPlaces] /\ putting'[p] = "deleted"
      /\ \A q \in Putters \ {p} : putting'[q] =
            IF putting[q] = "fill" /\ Name(q) = n THEN "unlinked" ELSE putting[q]
  BY <1>types DEF Delete, BlobTypeOK, PutPlaces
<1>2. /\ blob' = blob \/ (medium \in {"local", "memory"} /\ blob' = [blob EXCEPT ![n] = "absent"])
      /\ unpinned' = unpinned \/ (medium = "ipfs" /\ unpinned' = unpinned \union {n})
      /\ medium # "walrus" => n \in marred'
      /\ marred \subseteq marred' /\ marred' \subseteq Names
  BY <1>names, <1>types DEF Delete, Becomes, BlobTypeOK
<1>. HIDE DEF n
<1>3. \A m \in Names : Filling(m) => (Filling(m)' \/ (m = n /\ n \in marred'))
  <2>1. ASSUME NEW m \in Names, NEW q \in Putters, putting[q] = "fill", Name(q) = m
        PROVE  Filling(m)' \/ (m = n /\ n \in marred')
    <3>1. CASE m = n
      BY <2>1, <3>1, <1>2, <1>types DEF MediumInv
    <3>2. CASE m # n
      <4>1. putting'[q] = "fill" /\ Name(q)' = m
        BY <2>1, <3>2, <1>1, <1>same
      <4>. QED  BY <4>1 DEF Filling
    <3>. QED  BY <3>1, <3>2
  <2>. QED  BY <2>1 DEF Filling
<1>4. BlobTypeOK' /\ MediumInv'
  BY <1>1, <1>2, <1>same, <1>names, <1>types DEF BlobTypeOK, MediumInv
<1>5. FillInv'
  BY <1>1, <1>2, <1>same, <1>names, <1>types DEF BlobTypeOK, FillInv
<1>6. \A m \in Names : Explained(m) => Explained(m)'
  BY <1>2, <1>3, <1>names, <1>types DEF Explained, BlobTypeOK
<1>7. \A q \in Putters : putting'[q] \in Answerable =>
         putting[q] \in Answerable \/ Explained(Name(q))'
  <2>1. ASSUME NEW q \in Putters, putting[q] = "fill", Name(q) = n
        PROVE  Explained(Name(q))'
    <3>1. n \in marred'
      BY <2>1, <1>2, <1>types DEF MediumInv
    <3>. QED  BY <3>1, <2>1, <1>same DEF Explained
  <2>. QED  BY <2>1, <1>1 DEF Answerable
<1>8. \A m \in Names : blob'[m] = "torn" => blob[m] = "torn"
  BY <1>2, <1>names, <1>types DEF BlobTypeOK
<1>. QED  BY <1>4, <1>5, <1>6, <1>7, <1>8, <1>same DEF Explains

LEMMA ForgetStep ==
    ASSUME BlobInv, NEW n \in Names, Forget(n)
    PROVE  BlobInv'
<1>types. BlobTypeOK /\ MediumInv /\ FillInv /\ TornInv /\ AnsweredInv
  BY DEF BlobInv
<1>same. /\ UNCHANGED <<medium, content, putting, unpinned>> /\ Names' = Names
         /\ \A q \in Putters : Name(q)' = Name(q)
  BY DEF Forget, Name, Names
<1>names. \A q \in Putters : Name(q) \in Names
  BY NamesAreNames, <1>types
<1>. SUFFICES BlobTypeOK' /\ MediumInv' /\ FillInv' /\ Explains
  BY ExplainsEnough DEF BlobInv
<1>1. /\ medium # "local"
      /\ blob' = [blob EXCEPT ![n] = "absent"] /\ marred' = marred \union {n}
  BY <1>types DEF Forget, Becomes, MediumInv
<1>2. \A m \in Names : Filling(m) => Filling(m)'
  BY <1>same DEF Filling
<1>. QED  BY <1>1, <1>2, <1>same, <1>names, <1>types
          DEF BlobTypeOK, MediumInv, FillInv, Explains, Explained, Answerable

\* A restart mars what the calls it ends have left torn.
LEMMA RestartStep ==
    ASSUME BlobInv, BlobRestart
    PROVE  BlobInv'
<1>types. BlobTypeOK /\ MediumInv /\ FillInv /\ TornInv /\ AnsweredInv
  BY DEF BlobInv
<1>same. /\ UNCHANGED <<medium, content, blob, unpinned>> /\ Names' = Names
         /\ \A q \in Putters : Name(q)' = Name(q)
  BY DEF BlobRestart, Name, Names
<1>names. \A q \in Putters : Name(q) \in Names
  BY NamesAreNames, <1>types
<1>. SUFFICES BlobTypeOK' /\ MediumInv' /\ FillInv' /\ Explains
  BY ExplainsEnough DEF BlobInv
<1>1. /\ putting' \in [Putters -> PutPlaces]
      /\ \A q \in Putters : \/ putting'[q] = "failed"
                            \/ putting'[q] = putting[q] /\ putting[q] \notin {"create", "fill", "unlinked", "sent"}
  BY <1>types DEF BlobRestart, BlobTypeOK, PutPlaces
<1>2. /\ marred \subseteq marred' /\ marred' \subseteq Names
      /\ \A q \in Putters : putting[q] = "fill" /\ blob[Name(q)] = "torn" => Name(q) \in marred'
  BY <1>names, <1>types DEF BlobRestart, BlobTypeOK
<1>3. \A m \in Names : Filling(m) => blob[m] = "whole" \/ m \in marred'
  BY <1>2, <1>names, <1>types DEF Filling, FillInv, BlobTypeOK
<1>4. \A m \in Names : Explained(m) => Explained(m)'
  BY <1>2, <1>3, <1>same DEF Explained
<1>. QED  BY <1>1, <1>2, <1>4, <1>same, <1>types
          DEF BlobTypeOK, MediumInv, FillInv, Explains, Answerable

\* The invariant: every blob that can be read as torn or missing has a reason.
THEOREM BlobInvariant == BlobSpec => []BlobInv
<1>1. BlobInv /\ [BlobNext]_blobVars => BlobInv'
  <2>1. SUFFICES ASSUME BlobInv, [BlobNext]_blobVars PROVE BlobInv'
    OBVIOUS
  <2>2. CASE UNCHANGED blobVars
    <3>1. \A q \in Putters : Name(q)' = Name(q)
      BY <2>2 DEF blobVars, Name
    <3>2. \A n \in Names : (Filling(n)' <=> Filling(n)) /\ Names' = Names
      BY <3>1, <2>2 DEF blobVars, Filling, Names
    <3>3. \A q \in Putters : Name(q) \in Names
      BY NamesAreNames, <2>1 DEF BlobInv
    <3>. QED  BY <2>1, <2>2, <3>1, <3>2, <3>3 DEF blobVars, BlobInv, BlobTypeOK, MediumInv,
              FillInv, TornInv, AnsweredInv, Explained
  <2>. QED  BY <2>1, <2>2, LocalPutStep, RemoteStep, DeleteStep, ForgetStep, RestartStep DEF BlobNext
<1>. QED  BY <1>1, BlobInitInv, PTL DEF BlobSpec

\* What get reads of a name that put has answered is the whole blob, unless it is
\* being written again or was deleted, expired or torn: whatever calls of put, get
\* and delete cross, with one name among them or many (the storage crate).
THEOREM AnsweredBlobsReadBack == BlobSpec => []BlobsReadBack
<1>1. BlobInv => BlobsReadBack
  BY DEF BlobInv, AnsweredInv, BlobsReadBack, Explained, Filling, Answerable, Get, BlobTypeOK
<1>. QED  BY <1>1, BlobInvariant, PTL

(***************************************************************************)
(* Part 3: sessions.  While callers have not crossed on a session, the     *)
(* copy of whoever has it as it was saved last holds what the cache does   *)
(* (Copies), and the cache what was answered (AnswerKept).  A caller that  *)
(* has read the index and was not overtaken knows it as it is (Indexed).   *)
(***************************************************************************)

Indexes == UNION {[S -> Nat] : S \in SUBSET Chats}
SessionBlobs == [chat : Chats, key : SessionKeys, turns : Seq(Nat)]
SessionSteps == {"open", "put", "stored", "indexing"}

SessionTypes ==
    /\ keyOf \in [Chats -> SessionKeys]
    /\ blobs \subseteq SessionBlobs
    /\ pointer \in [key : SessionKeys, entries : Indexes] \union {None}
    /\ cached \in [Chats -> Seq(Nat) \union {None}]
    /\ answer \in [Chats -> Seq(Nat) \union {None}]
    /\ writer \in [Writers ->
          [step : SessionSteps, chat : Chats, turns : Seq(Nat), index : Indexes] \union {Free}]
    /\ turns \in Nat
    /\ answered \in [Chats -> SUBSET Nat]
    /\ indexLost \in BOOLEAN

Holders(c) == {w \in Writers : writer[w].chat = c}

\* A caller's session is cached, and stored before it is indexed.
Held(c) ==
    \A w \in Holders(c) :
        /\ cached[c] # None
        /\ writer[w].step \in {"stored", "indexing"} =>
              [chat |-> c, key |-> keyOf[c], turns |-> writer[w].turns] \in blobs

AnswerKept(c) ==
    /\ answer[c] = None => answered[c] = {}
    /\ answer[c] # None => answered[c] \subseteq ToSet(answer[c])
    /\ cached[c] # None => answered[c] \subseteq ToSet(cached[c])

Copies(c) ==
    \A w \in Holders(c) \ stale :
        /\ ToSet(cached[c]) \subseteq ToSet(writer[w].turns)
        /\ writer[w].step \in {"stored", "indexing"} => cached[c] = writer[w].turns

\* What an index lists is stored, under the index's key.
Listed(key, entries) ==
    \A c \in DOMAIN entries : \E b \in blobs : b.chat = c /\ b.key = key /\ Len(b.turns) = entries[c]

ThisIndex(w) ==
    /\ pointer = None => writer[w].index = <<>>
    /\ pointer # None => writer[w].index = pointer.entries /\ pointer.key = keyOf[writer[w].chat]

Indexed ==
    \A w \in Writers :
        writer[w].step = "indexing" =>
            /\ Listed(keyOf[writer[w].chat], writer[w].index)
            /\ w \notin overtaken => ThisIndex(w)

SessionsInv ==
    /\ SessionTypes /\ Indexed /\ IndexIsRight
    /\ \A c \in Chats : Held(c)
    /\ \A c \in Chats \ overlapped : AnswerKept(c) /\ Copies(c)

LEMMA NoIndex == <<>> \in Indexes /\ \A key : Listed(key, <<>>)
<1>1. <<>> \in Seq(Nat) /\ Len(<<>>) = 0
  BY EmptySeq
<1>2. <<>> \in [1..0 -> Nat] /\ DOMAIN <<>> = 1..0
  BY <1>1, LenProperties
<1>3. 1..0 = {} /\ {} \in SUBSET Chats
  OBVIOUS
<1>. QED  BY <1>2, <1>3 DEF Indexes, Listed

LEMMA FreeWriter ==
    ASSUME SessionTypes, NEW w \in Writers
    PROVE  /\ writer[w] = Free => writer[w].chat = None /\ writer[w].step = "free"
           /\ \A c \in Chats : w \in Holders(c) <=> (writer[w] # Free /\ writer[w].chat = c)
           /\ writer[w] # Free =>
                 writer[w] \in [step : SessionSteps, chat : Chats, turns : Seq(Nat), index : Indexes]
           /\ writer[w].step \in SessionSteps => writer[w] # Free /\ w \in Holders(writer[w].chat)
           /\ writer[w].step # "free" => writer[w] # Free
BY SessionsAssumption DEF SessionTypes, Free, Holders, SessionSteps

LEMMA SetOfAppended ==
    ASSUME NEW s \in Seq(Nat), NEW x \in Nat
    PROVE  Append(s, x) \in Seq(Nat) /\ ToSet(s) \subseteq ToSet(Append(s, x))
<1>1. /\ Append(s, x) \in Seq(Nat) /\ Len(Append(s, x)) = Len(s) + 1 /\ Len(s) \in Nat
      /\ \A i \in 1..Len(s) : Append(s, x)[i] = s[i]
  BY AppendProperties, LenProperties
<1>2. DOMAIN s = 1..Len(s) /\ DOMAIN Append(s, x) = 1..Len(Append(s, x))
  BY <1>1, LenProperties
<1>. QED  BY <1>1, <1>2 DEF ToSet

LEMMA SessionsInitInv == SessionsInit => SessionsInv
<1>. SUFFICES ASSUME SessionsInit PROVE SessionsInv
  OBVIOUS
<1>1. SessionTypes
  BY DEF SessionsInit, SessionTypes
<1>2. \A c \in Chats : Holders(c) = {}
  BY SessionsAssumption DEF SessionsInit, Holders, Free
<1>3. \A c \in Chats : Held(c) /\ AnswerKept(c) /\ Copies(c)
  BY <1>2 DEF SessionsInit, Held, AnswerKept, Copies
<1>4. Indexed /\ IndexIsRight
  BY DEF SessionsInit, Indexed, Free, IndexIsRight
<1>. QED  BY <1>1, <1>3, <1>4 DEF SessionsInv

LEMMA SessionTypesStep ==
    ASSUME SessionTypes, [SessionsNext]_sessionVars
    PROVE  SessionTypes'
<1>. USE DEF SessionTypes, settings, ghosts
<1>1. <<>> \in Seq(Nat) /\ <<>> \in Indexes
  BY EmptySeq, NoIndex
<1>2. \A c \in Chats, n \in Nat : [Free EXCEPT !.step = "open", !.chat = c] \in
         [step : SessionSteps, chat : Chats, turns : Seq(Nat), index : Indexes]
  BY <1>1 DEF Free, SessionSteps
<1>3. \A w \in Writers : writer[w].step \in SessionSteps =>
         writer[w] \in [step : SessionSteps, chat : Chats, turns : Seq(Nat), index : Indexes]
  BY FreeWriter
<1>4. CASE UNCHANGED sessionVars
  BY <1>4 DEF sessionVars
<1>5. ASSUME NEW w \in Writers, NEW c \in Chats, CreateSession(w, c)
      PROVE  SessionTypes'
  BY <1>1, <1>5 DEF CreateSession, Free, SessionSteps
<1>6. ASSUME NEW w \in Writers, NEW c \in Chats, LoadSession(w, c)
      PROVE  SessionTypes'
  <2>1. Latest(c) \in Seq(Nat)
    BY <1>6 DEF LoadSession, Latest
  <2>. HIDE DEF Latest
  <2>. QED  BY <1>1, <1>6, <2>1 DEF LoadSession, Free, SessionSteps
<1>7. ASSUME NEW w \in Writers, Close(w)
      PROVE  SessionTypes'
  BY <1>7 DEF Close
<1>8. ASSUME NEW w \in Writers, AppendTurn(w)
      PROVE  SessionTypes'
  <2>1. turns' \in Nat /\ writer[w].step = "open"
    BY <1>8 DEF AppendTurn
  <2>2. Append(writer[w].turns, turns') \in Seq(Nat)
    BY <1>3, <2>1, SetOfAppended DEF SessionSteps
  <2>3. writer' = [writer EXCEPT ![w] = [@ EXCEPT !.step = "put", !.turns = Append(writer[w].turns, turns')]]
    BY <1>8 DEF AppendTurn
  <2>4. writer[w] \in [step : SessionSteps, chat : Chats, turns : Seq(Nat), index : Indexes]
    BY <1>3, <2>1 DEF SessionSteps
  <2>. DEFINE ts == Append(writer[w].turns, turns')
  <2>. HIDE DEF ts
  <2>5. [writer[w] EXCEPT !.step = "put", !.turns = ts] \in
           [step : SessionSteps, chat : Chats, turns : Seq(Nat), index : Indexes]
    BY <2>2, <2>4 DEF SessionSteps, ts
  <2>6. writer' = [writer EXCEPT ![w] = [writer[w] EXCEPT !.step = "put", !.turns = ts]]
    BY <2>3 DEF ts
  <2>. QED  BY <1>8, <2>1, <2>5, <2>6 DEF AppendTurn
<1>9. ASSUME NEW w \in Writers, PutSession(w)
      PROVE  SessionTypes'
  <2>1. writer[w].step = "put" /\ writer' = [writer EXCEPT ![w].step = "stored"]
    BY <1>9 DEF PutSession, Step
  <2>2. writer[w] \in [step : SessionSteps, chat : Chats, turns : Seq(Nat), index : Indexes]
    BY <1>3, <2>1 DEF SessionSteps
  <2>. DEFINE c == writer[w].chat  ts == writer[w].turns
  <2>3. c \in Chats /\ ts \in Seq(Nat)
    BY <2>2
  <2>4. /\ blobs' = blobs \union {[chat |-> c, key |-> keyOf[c], turns |-> ts]}
        /\ cached' = [cached EXCEPT ![c] = ts]
        /\ UNCHANGED <<keyOf, pointer, answer, turns, answered, indexLost>>
    BY <1>9 DEF PutSession, Chat, Cache
  <2>5. writer' \in [Writers ->
           [step : SessionSteps, chat : Chats, turns : Seq(Nat), index : Indexes] \union {Free}]
    BY <2>1, <2>2 DEF SessionSteps
  <2>. HIDE DEF c, ts
  <2>6. blobs' \subseteq SessionBlobs
    BY <2>3, <2>4 DEF SessionBlobs
  <2>. QED  BY <2>3, <2>4, <2>5, <2>6
<1>10. ASSUME NEW w \in Writers, NEW from \in SessionSteps, NEW to \in SessionSteps, Step(w, from, to)
       PROVE  writer' \in [Writers ->
                 [step : SessionSteps, chat : Chats, turns : Seq(Nat), index : Indexes] \union {Free}]
  <2>1. writer[w].step \in SessionSteps /\ writer' = [writer EXCEPT ![w].step = to]
    BY <1>10 DEF Step
  <2>. QED  BY <1>3, <2>1
<1>11. ASSUME NEW w \in Writers, PutFails(w) \/ IndexFails(w)
       PROVE  SessionTypes'
  <2>1. Step(w, "put", "open") \/ Step(w, "stored", "open") \/ Step(w, "indexing", "open")
    BY <1>11 DEF PutFails, IndexFails
  <2>2. "put" \in SessionSteps /\ "stored" \in SessionSteps /\ "open" \in SessionSteps /\ "indexing" \in SessionSteps
    BY DEF SessionSteps
  <2>. QED  BY <1>10, <1>11, <2>1, <2>2 DEF PutFails, IndexFails
<1>12. ASSUME NEW w \in Writers, NEW fetched \in BOOLEAN, ReadIndex(w, fetched)
       PROVE  SessionTypes'
  <2>. DEFINE entries == IF pointer = None \/ ~fetched THEN <<>> ELSE pointer.entries
  <2>1. /\ entries \in Indexes
        /\ \/ writer' = [writer EXCEPT ![w] = [writer[w] EXCEPT !.step = "open"]]
           \/ writer' = [writer EXCEPT ![w] = [writer[w] EXCEPT !.step = "indexing", !.index = entries]]
    <3>1. entries \in Indexes
      BY <1>1
    <3>. QED  BY <3>1, <1>12 DEF ReadIndex
  <2>. HIDE DEF entries
  <2>2. writer[w] \in [step : SessionSteps, chat : Chats, turns : Seq(Nat), index : Indexes]
    BY <1>3, <1>12 DEF ReadIndex, SessionSteps
  <2>3. /\ [writer[w] EXCEPT !.step = "open"] \in
              [step : SessionSteps, chat : Chats, turns : Seq(Nat), index : Indexes]
        /\ [writer[w] EXCEPT !.step = "indexing", !.index = entries] \in
              [step : SessionSteps, chat : Chats, turns : Seq(Nat), index : Indexes]
    BY <2>1, <2>2 DEF SessionSteps
  <2>4. UNCHANGED <<keyOf, blobs, pointer, cached, answer, turns, answered, indexLost>>
    BY <1>12 DEF ReadIndex
  <2>. QED  BY <2>1, <2>3, <2>4
<1>13. ASSUME NEW w \in Writers, SetIndex(w)
       PROVE  SessionTypes'
  <2>. DEFINE c == writer[w].chat  ts == writer[w].turns  old == writer[w].index
  <2>1. Step(w, "indexing", "open") /\ writer[w].step = "indexing"
    BY <1>13 DEF SetIndex, Step
  <2>2. c \in Chats /\ ts \in Seq(Nat) /\ old \in Indexes
    BY <1>3, <2>1 DEF SessionSteps
  <2>3. Len(ts) \in Nat /\ ToSet(ts) \subseteq Nat
    BY <2>2, LenProperties, ElementOfSeq DEF ToSet
  <2>4. Upsert(old, c, Len(ts)) \in Indexes
    <3>1. PICK S \in SUBSET Chats : old \in [S -> Nat]
      BY <2>2 DEF Indexes
    <3>2. S \union {c} \in SUBSET Chats /\ Upsert(old, c, Len(ts)) \in [S \union {c} -> Nat]
      BY <2>2, <2>3, <3>1 DEF Upsert
    <3>. QED  BY <3>2 DEF Indexes
  <2>5. /\ pointer' = [key |-> keyOf[c], entries |-> Upsert(old, c, Len(ts))]
        /\ answer' = [answer EXCEPT ![c] = ts]
        /\ answered' = [answered EXCEPT ![c] = @ \union ToSet(ts)]
        /\ indexLost' \in BOOLEAN /\ UNCHANGED <<keyOf, blobs, cached, turns>>
    BY <1>13 DEF SetIndex, Chat
  <2>6. writer' \in [Writers ->
           [step : SessionSteps, chat : Chats, turns : Seq(Nat), index : Indexes] \union {Free}]
    BY <1>10, <2>1 DEF SessionSteps
  <2>. HIDE DEF c, ts, old
  <2>7. pointer' \in [key : SessionKeys, entries : Indexes]
    BY <2>2, <2>4, <2>5
  <2>. QED  BY <2>2, <2>3, <2>5, <2>6, <2>7
<1>14. CASE Reboot
  BY <1>14 DEF Reboot
<1>. QED  BY <1>4, <1>5, <1>6, <1>7, <1>8, <1>9, <1>11, <1>12, <1>13, <1>14 DEF SessionsNext

\* What the step of a caller leaves as it was, but for its own session c.
OtherChats(w, c) ==
    /\ UNCHANGED <<keyOf, onChain>>
    /\ \A u \in Writers \ {w} : writer'[u] = writer[u]
    /\ \A d \in Chats \ {c} :
          /\ UNCHANGED <<cached[d], answer[d], answered[d]>>
          /\ d \in overlapped' <=> d \in overlapped
    /\ overlapped \subseteq overlapped'
    /\ \A u \in Writers : u \in stale /\ writer[u].chat # c => u \in stale'
    /\ Holders(c)' \subseteq Holders(c) \union {w}
    /\ \A d \in Chats \ {c} : Holders(d)' \subseteq Holders(d) \ {w}
    /\ blobs \subseteq blobs'

LEMMA OthersKept ==
    ASSUME SessionsInv, NEW w \in Writers, NEW c \in Chats, OtherChats(w, c), SessionTypes',
           Held(c)', c \notin overlapped' => AnswerKept(c)' /\ Copies(c)', Indexed', IndexIsRight'
    PROVE  SessionsInv'
<1>1. ASSUME NEW d \in Chats, d # c
      PROVE  Held(d)' /\ (d \notin overlapped' => AnswerKept(d)' /\ Copies(d)')
  <2>1. /\ cached'[d] = cached[d] /\ answer'[d] = answer[d] /\ answered'[d] = answered[d]
        /\ d \notin overlapped' => d \notin overlapped
        /\ keyOf' = keyOf /\ blobs \subseteq blobs'
    BY <1>1 DEF OtherChats
  <2>2. \A u \in Holders(d)' : u \in Holders(d) /\ u # w /\ writer'[u] = writer[u] /\ writer[u].chat = d
    BY <1>1 DEF OtherChats, Holders
  <2>3. \A u \in Holders(d)' \ stale' : u \in Holders(d) \ stale
    BY <1>1, <2>2 DEF OtherChats, Holders
  <2>4. d \notin overlapped' => AnswerKept(d)'
    BY <2>1 DEF SessionsInv, AnswerKept
  <2>5. d \notin overlapped' => Copies(d)'
    BY <2>1, <2>2, <2>3 DEF SessionsInv, Copies
  <2>6. Held(d)'
    BY <2>1, <2>2 DEF SessionsInv, Held
  <2>. QED  BY <2>4, <2>5, <2>6
<1>. QED  BY <1>1 DEF SessionsInv

\* A step that leaves the index alone.
LEMMA IndexAsBefore ==
    ASSUME SessionsInv, NEW w \in Writers, NEW c \in Chats, OtherChats(w, c),
           UNCHANGED <<pointer, indexLost, overtaken>>, answer'[c] = answer[c],
           writer'[w].step = "indexing" => writer'[w] = writer[w]
    PROVE  Indexed' /\ IndexIsRight'
<1>1. /\ keyOf' = keyOf /\ overlapped \subseteq overlapped' /\ blobs \subseteq blobs'
      /\ \A d \in Chats : answer'[d] = answer[d]
      /\ \A u \in Writers : writer'[u].step = "indexing" => writer'[u] = writer[u]
  BY DEF OtherChats
<1>2. Indexed /\ IndexIsRight
  BY DEF SessionsInv
<1>3. \A key, entries : Listed(key, entries) => Listed(key, entries)'
  BY <1>1 DEF Listed
<1>4. Indexed'
  BY <1>1, <1>2, <1>3 DEF Indexed, ThisIndex, Listed
<1>5. IndexIsRight'
  BY <1>1, <1>2 DEF IndexIsRight, ListSessions
<1>. QED  BY <1>4, <1>5

\* A caller and the session it has.
LEMMA CallerHas ==
    ASSUME SessionsInv, NEW w \in Writers, writer[w].step \in SessionSteps
    PROVE  LET c == writer[w].chat IN
           /\ c \in Chats /\ w \in Holders(c) /\ writer[w].turns \in Seq(Nat) /\ cached[c] \in Seq(Nat)
           /\ writer[w] \in [step : SessionSteps, chat : Chats, turns : Seq(Nat), index : Indexes]
           /\ c \notin overlapped => AnswerKept(c) /\ Copies(c)
           /\ Held(c)
<1>1. writer[w] \in [step : SessionSteps, chat : Chats, turns : Seq(Nat), index : Indexes]
  BY FreeWriter DEF SessionsInv
<1>2. w \in Holders(writer[w].chat)
  BY DEF Holders
<1>. QED  BY <1>1, <1>2 DEF SessionsInv, Held, SessionTypes

\* A caller that goes on with its own copy.
LEMMA OwnCopySteps ==
    ASSUME SessionsInv, NEW w \in Writers, NEW c \in Chats, writer[w].chat = c, NEW x, writer[w].step \in SessionSteps,
           writer' = [writer EXCEPT ![w] = x], x.chat = writer[w].chat,
           ToSet(writer[w].turns) \subseteq ToSet(x.turns),
           x.step = "indexing" => writer[w].step \in {"stored", "indexing"},
           x.step \in {"stored", "indexing"} => writer[w].step = "stored" /\ x.turns = writer[w].turns,
           SessionTypes', Indexed', IndexIsRight',
           UNCHANGED <<keyOf, onChain, blobs, cached, answer, answered, overlapped, stale>>
    PROVE  SessionsInv'
<1>1. c \in Chats /\ w \in Holders(c) /\ Held(c) /\ (c \notin overlapped => AnswerKept(c) /\ Copies(c))
  BY CallerHas
<1>2. /\ writer'[w] = x /\ \A u \in Writers \ {w} : writer'[u] = writer[u]
  BY DEF SessionsInv, SessionTypes
<1>3. \A d \in Chats : Holders(d)' = Holders(d)
  BY <1>2 DEF Holders
<1>4. \A d \in Chats \ {c} : w \notin Holders(d)
  BY DEF Holders
<1>5. OtherChats(w, c)
  BY <1>2, <1>3, <1>4 DEF OtherChats
<1>6. Held(c)'
  <2>1. \A u \in Holders(c) : u \in Writers
    BY DEF Holders
  <2>2. \A u \in Holders(c) :
           /\ writer'[u].step \in {"stored", "indexing"} => writer[u].step \in {"stored", "indexing"}
           /\ writer'[u].step \in {"stored", "indexing"} => writer'[u].turns = writer[u].turns
    BY <1>2, <2>1
  <2>. SUFFICES ASSUME NEW u \in Holders(c)
                PROVE  /\ cached[c] # None
                       /\ writer'[u].step \in {"stored", "indexing"} =>
                             [chat |-> c, key |-> keyOf[c], turns |-> writer'[u].turns] \in blobs
    BY <1>1, <1>3 DEF Held
  <2>3. /\ cached[c] # None
        /\ writer[u].step \in {"stored", "indexing"} =>
              [chat |-> c, key |-> keyOf[c], turns |-> writer[u].turns] \in blobs
    BY <1>1 DEF Held
  <2>. QED  BY <2>2, <2>3
<1>7. c \notin overlapped' => AnswerKept(c)' /\ Copies(c)'
  <2>1. c \notin overlapped' => AnswerKept(c)'
    BY <1>1 DEF AnswerKept
  <2>. SUFFICES ASSUME c \notin overlapped', NEW u \in Holders(c)' \ stale'
                PROVE  /\ ToSet(cached'[c]) \subseteq ToSet(writer'[u].turns)
                       /\ writer'[u].step \in {"stored", "indexing"} => cached'[c] = writer'[u].turns
    BY <2>1 DEF Copies
  <2>2. /\ ToSet(cached[c]) \subseteq ToSet(writer[u].turns)
        /\ writer[u].step \in {"stored", "indexing"} => cached[c] = writer[u].turns
    BY <1>1, <1>3 DEF Copies
  <2>3. u \in Writers
    BY <1>3 DEF Holders
  <2>. QED  BY <1>2, <2>2, <2>3
<1>. QED  BY <1>1, <1>5, <1>6, <1>7, OthersKept

LEMMA CreateSessionSteps ==
    ASSUME SessionsInv, NEW w \in Writers, NEW c \in Chats, CreateSession(w, c), SessionTypes'
    PROVE  SessionsInv'
<1>1. /\ writer[w] = Free /\ cached[c] = None /\ answer[c] = None /\ \A u \in Writers : writer[u].chat # c
      /\ cached' = [cached EXCEPT ![c] = <<>>]
      /\ writer' = [writer EXCEPT ![w] = [Free EXCEPT !.step = "open", !.chat = c]]
      /\ UNCHANGED <<keyOf, onChain, blobs, pointer, answer, answered, stale, overlapped, overtaken, indexLost>>
  BY DEF CreateSession, Chat, settings, ghosts
<1>2. /\ writer'[w] = [step |-> "open", chat |-> c, turns |-> <<>>, index |-> <<>>]
      /\ \A u \in Writers \ {w} : writer'[u] = writer[u]
      /\ cached'[c] = <<>> /\ \A d \in Chats \ {c} : cached'[d] = cached[d]
  BY <1>1 DEF SessionsInv, SessionTypes, Free
<1>3. Holders(c)' = {w} /\ \A d \in Chats \ {c} : Holders(d)' = Holders(d) \ {w}
  BY <1>1, <1>2, SessionsAssumption DEF Holders, Free
<1>4. OtherChats(w, c)
  BY <1>1, <1>2, <1>3 DEF OtherChats
<1>5. <<>> # None
  BY EmptySeq, SessionsAssumption
<1>6. Held(c)'
  BY <1>2, <1>3, <1>5 DEF Held
<1>7. c \notin overlapped' => AnswerKept(c)' /\ Copies(c)'
  <2>1. c \notin overlapped => answered[c] = {}
    BY <1>1 DEF SessionsInv, AnswerKept
  <2>2. c \notin overlapped' => AnswerKept(c)'
    BY <1>1, <2>1 DEF AnswerKept
  <2>. QED  BY <1>2, <1>3, <2>2 DEF Copies
<1>8. Indexed' /\ IndexIsRight'
  BY <1>1, <1>2, <1>4, IndexAsBefore
<1>. QED  BY <1>4, <1>6, <1>7, <1>8, OthersKept

LEMMA LoadSessionSteps ==
    ASSUME SessionsInv, NEW w \in Writers, NEW c \in Chats, LoadSession(w, c), SessionTypes'
    PROVE  SessionsInv'
<1>. DEFINE ts == Latest(c)
<1>1. /\ writer[w] = Free /\ ts # None /\ cached' = [cached EXCEPT ![c] = ts]
      /\ writer' = [writer EXCEPT ![w] = [Free EXCEPT !.step = "open", !.chat = c, !.turns = ts]]
      /\ UNCHANGED <<keyOf, onChain, blobs, pointer, answer, answered, stale, overlapped, overtaken, indexLost>>
  BY DEF LoadSession, settings, ghosts
<1>2. (cached[c] # None => ts = cached[c]) /\ (cached[c] = None => ts = answer[c])
  BY DEF Latest
<1>. HIDE DEF ts
<1>3. /\ writer'[w] = [step |-> "open", chat |-> c, turns |-> ts, index |-> <<>>]
      /\ \A u \in Writers \ {w} : writer'[u] = writer[u]
      /\ cached'[c] = ts /\ \A d \in Chats \ {c} : cached'[d] = cached[d]
  BY <1>1 DEF SessionsInv, SessionTypes, Free
<1>4. Holders(c)' = Holders(c) \union {w} /\ w \notin Holders(c) /\ \A d \in Chats \ {c} : Holders(d)' = Holders(d) \ {w}
  BY <1>1, <1>3, SessionsAssumption DEF Holders, Free
<1>5. OtherChats(w, c)
  BY <1>1, <1>3, <1>4 DEF OtherChats
<1>6. \A u \in Holders(c) : u \in Writers /\ u # w /\ writer'[u] = writer[u] /\ cached[c] # None
  BY <1>3, <1>4 DEF Holders, SessionsInv, Held
<1>7. Held(c)'
  BY <1>1, <1>3, <1>4, <1>6 DEF Held, SessionsInv
<1>8. c \notin overlapped' => AnswerKept(c)' /\ Copies(c)'
  <2>. SUFFICES ASSUME c \notin overlapped
                PROVE  AnswerKept(c)' /\ Copies(c)'
    BY <1>1
  <2>1. AnswerKept(c) /\ Copies(c)
    BY DEF SessionsInv
  <2>2. AnswerKept(c)'
    BY <1>1, <1>2, <1>3, <2>1 DEF AnswerKept
  <2>3. Copies(c)'
    BY <1>1, <1>2, <1>3, <1>4, <1>6, <2>1 DEF Copies
  <2>. QED  BY <2>2, <2>3
<1>9. Indexed' /\ IndexIsRight'
  BY <1>1, <1>3, <1>5, IndexAsBefore
<1>. QED  BY <1>5, <1>7, <1>8, <1>9, OthersKept

LEMMA CloseSteps ==
    ASSUME SessionsInv, NEW w \in Writers, NEW c \in Chats, writer[w].chat = c, Close(w), SessionTypes'
    PROVE  SessionsInv'
<1>1. /\ writer[w].step = "open" /\ writer' = [writer EXCEPT ![w] = Free] /\ stale' = stale \ {w}
      /\ UNCHANGED <<keyOf, onChain, blobs, pointer, cached, answer, answered, overlapped, overtaken, indexLost>>
  BY DEF Close, settings
<1>2. c \in Chats /\ w \in Holders(c) /\ Held(c) /\ (c \notin overlapped => AnswerKept(c) /\ Copies(c))
  BY <1>1, CallerHas DEF SessionSteps
<1>3. writer'[w] = Free /\ \A u \in Writers \ {w} : writer'[u] = writer[u]
  BY <1>1 DEF SessionsInv, SessionTypes
<1>4. \A d \in Chats : Holders(d)' = Holders(d) \ {w}
  BY <1>3, SessionsAssumption DEF Holders, Free
<1>5. OtherChats(w, c)
  BY <1>1, <1>2, <1>3, <1>4 DEF OtherChats, Holders
<1>6. \A u \in Holders(c)' : u \in Holders(c) /\ u # w /\ writer'[u] = writer[u]
  BY <1>3, <1>4 DEF Holders
<1>7. Held(c)'
  BY <1>1, <1>2, <1>6 DEF Held
<1>8. c \notin overlapped' => AnswerKept(c)' /\ Copies(c)'
  BY <1>1, <1>2, <1>6 DEF AnswerKept, Copies
<1>9. Indexed' /\ IndexIsRight'
  BY <1>1, <1>2, <1>3, <1>5, IndexAsBefore DEF Free
<1>. QED  BY <1>2, <1>5, <1>7, <1>8, <1>9, OthersKept

LEMMA AppendTurnSteps ==
    ASSUME SessionsInv, NEW w \in Writers, NEW c \in Chats, writer[w].chat = c, AppendTurn(w), SessionTypes'
    PROVE  SessionsInv'
<1>. DEFINE ts == Append(writer[w].turns, turns')
            x == [writer[w] EXCEPT !.step = "put", !.turns = ts]
<1>1. /\ writer[w].step = "open" /\ turns' \in Nat /\ writer' = [writer EXCEPT ![w] = x]
      /\ UNCHANGED <<keyOf, onChain, blobs, pointer, cached, answer, answered, stale, overlapped, overtaken, indexLost>>
  BY DEF AppendTurn, settings, ghosts, SessionsInv, SessionTypes
<1>2. /\ writer[w].turns \in Seq(Nat)
      /\ writer[w] \in [step : SessionSteps, chat : Chats, turns : Seq(Nat), index : Indexes]
  BY <1>1, CallerHas DEF SessionSteps
<1>3. ToSet(writer[w].turns) \subseteq ToSet(ts)
  BY <1>1, <1>2, SetOfAppended
<1>. HIDE DEF ts
<1>4. x.step = "put" /\ x.chat = c /\ x.turns = ts
  BY <1>2
<1>. HIDE DEF x
<1>5. Indexed' /\ IndexIsRight'
  <2>1. \A u \in Writers : writer'[u].step = "indexing" => writer'[u] = writer[u] /\ writer[u].step = "indexing"
    BY <1>1, <1>4 DEF SessionsInv, SessionTypes
  <2>2. Indexed /\ IndexIsRight
    BY DEF SessionsInv
  <2>3. Indexed'
    BY <1>1, <2>1, <2>2 DEF Indexed, ThisIndex, Listed
  <2>4. IndexIsRight'
    BY <1>1, <2>2 DEF IndexIsRight, ListSessions
  <2>. QED  BY <2>3, <2>4
<1>6. "open" \in SessionSteps
  BY DEF SessionSteps
<1>. QED  BY <1>1, <1>3, <1>4, <1>5, <1>6, OwnCopySteps

LEMMA FailedSaves ==
    ASSUME SessionsInv, NEW w \in Writers, NEW c \in Chats, writer[w].chat = c,
           PutFails(w) \/ IndexFails(w), SessionTypes'
    PROVE  SessionsInv'
<1>. DEFINE x == [writer[w] EXCEPT !.step = "open"]
<1>1. /\ writer[w].step \in {"put", "stored", "indexing"} /\ writer' = [writer EXCEPT ![w] = x]
      /\ UNCHANGED <<keyOf, onChain, blobs, pointer, cached, answer, answered, stale, overlapped, overtaken, indexLost>>
  BY DEF PutFails, IndexFails, Step, settings, ghosts
<1>2. writer[w] \in [step : SessionSteps, chat : Chats, turns : Seq(Nat), index : Indexes]
  BY <1>1, CallerHas DEF SessionSteps
<1>3. x.step = "open" /\ x.chat = c /\ x.turns = writer[w].turns
  BY <1>2
<1>. HIDE DEF x
<1>4. Indexed' /\ IndexIsRight'
  <2>1. \A u \in Writers : writer'[u].step = "indexing" => writer'[u] = writer[u] /\ writer[u].step = "indexing"
    BY <1>1, <1>3 DEF SessionsInv, SessionTypes
  <2>2. Indexed /\ IndexIsRight
    BY DEF SessionsInv
  <2>3. Indexed'
    BY <1>1, <2>1, <2>2 DEF Indexed, ThisIndex, Listed
  <2>4. IndexIsRight'
    BY <1>1, <2>2 DEF IndexIsRight, ListSessions
  <2>. QED  BY <2>3, <2>4
<1>5. writer[w].step \in SessionSteps
  BY <1>1 DEF SessionSteps
<1>. QED  BY <1>1, <1>3, <1>4, <1>5, OwnCopySteps

LEMMA ReadIndexSteps ==
    ASSUME SessionsInv, NEW w \in Writers, NEW c \in Chats, writer[w].chat = c,
           NEW fetched \in BOOLEAN, ReadIndex(w, fetched), SessionTypes'
    PROVE  SessionsInv'
<1>. DEFINE entries == IF pointer = None \/ ~fetched THEN <<>> ELSE pointer.entries
            failed == pointer # None /\ fetched /\ pointer.key # keyOf[c]
            x == IF failed THEN [writer[w] EXCEPT !.step = "open"]
                 ELSE [writer[w] EXCEPT !.step = "indexing", !.index = entries]
<1>1. /\ writer[w].step = "stored" /\ writer' = [writer EXCEPT ![w] = x]
      /\ overtaken' = IF fetched THEN overtaken \ {w} ELSE overtaken \union {w}
      /\ UNCHANGED <<keyOf, onChain, blobs, pointer, cached, answer, answered, stale, overlapped, indexLost>>
  BY DEF ReadIndex, settings, Decrypts, Chat
<1>2. writer[w] \in [step : SessionSteps, chat : Chats, turns : Seq(Nat), index : Indexes]
  BY <1>1, CallerHas DEF SessionSteps
<1>3. /\ x.chat = c /\ x.turns = writer[w].turns
      /\ failed => x.step = "open"
      /\ ~failed => x.step = "indexing" /\ x.index = entries
  <2>1. [writer[w] EXCEPT !.step = "open"].chat = c /\ [writer[w] EXCEPT !.step = "open"].turns = writer[w].turns
    BY <1>2
  <2>2. LET y == [writer[w] EXCEPT !.step = "indexing", !.index = entries] IN
        y.chat = c /\ y.turns = writer[w].turns /\ y.step = "indexing" /\ y.index = entries
    <3>. HIDE DEF entries
    <3>. QED  BY <1>2
  <2>3. [writer[w] EXCEPT !.step = "open"].step = "open"
    BY <1>2
  <2>. HIDE DEF failed, entries
  <2>. QED  BY <2>1, <2>2, <2>3
<1>. HIDE DEF x
<1>4. writer'[w] = x /\ \A u \in Writers \ {w} : writer'[u] = writer[u]
  BY <1>1 DEF SessionsInv, SessionTypes
<1>5. Indexed /\ IndexIsRight
  BY DEF SessionsInv
<1>6. \A key, list : Listed(key, list) => Listed(key, list)'
  BY <1>1 DEF Listed
<1>7. ~failed => Listed(keyOf[c], entries) /\ (w \notin overtaken' => (pointer = None => entries = <<>>)
                    /\ (pointer # None => entries = pointer.entries /\ pointer.key = keyOf[c]))
  <2>1. CASE pointer = None \/ ~fetched
    BY <1>1, <2>1, NoIndex
  <2>2. CASE pointer # None /\ fetched
    BY <1>1, <1>5, <2>2 DEF IndexIsRight, Listed
  <2>. QED  BY <2>1, <2>2
<1>. HIDE DEF entries, failed
<1>8. Indexed'
  <2>. SUFFICES ASSUME NEW u \in Writers, writer'[u].step = "indexing"
                PROVE  /\ Listed(keyOf[writer'[u].chat], writer'[u].index)
                       /\ u \notin overtaken' =>
                             /\ pointer = None => writer'[u].index = <<>>
                             /\ pointer # None =>
                                   writer'[u].index = pointer.entries /\ pointer.key = keyOf[writer'[u].chat]
    BY <1>1 DEF Indexed, Listed, ThisIndex
  <2>1. CASE u = w
    <3>1. ~failed /\ writer'[u].chat = c /\ writer'[u].index = entries
      BY <1>3, <1>4, <2>1
    <3>2. Listed(keyOf[c], entries)
      BY <1>7, <3>1
    <3>. QED  BY <1>7, <2>1, <3>1, <3>2
  <2>2. CASE u # w
    <3>1. writer'[u] = writer[u] /\ (u \notin overtaken' => u \notin overtaken)
      BY <1>1, <1>4, <2>2
    <3>. QED  BY <1>5, <3>1 DEF Indexed, ThisIndex
  <2>. QED  BY <2>1, <2>2
<1>9. IndexIsRight'
  BY <1>1, <1>5 DEF IndexIsRight, ListSessions
<1>10. "stored" \in SessionSteps
  BY DEF SessionSteps
<1>. QED  BY <1>1, <1>3, <1>8, <1>9, <1>10, OwnCopySteps

LEMMA PutSessionSteps ==
    ASSUME SessionsInv, NEW w \in Writers, NEW c \in Chats, writer[w].chat = c, PutSession(w), SessionTypes'
    PROVE  SessionsInv'
<1>. DEFINE ts == writer[w].turns
            x == [writer[w] EXCEPT !.step = "stored"]
<1>1. /\ writer[w].step = "put" /\ writer' = [writer EXCEPT ![w] = x]
      /\ blobs' = blobs \union {[chat |-> c, key |-> keyOf[c], turns |-> ts]}
      /\ cached' = [cached EXCEPT ![c] = ts]
      /\ overlapped' = IF w \in stale THEN overlapped \union {c} ELSE overlapped
      /\ stale' = (stale \ {w}) \union {u \in Writers \ {w} : writer[u].chat = c}
      /\ UNCHANGED <<keyOf, onChain, pointer, answer, answered, overtaken, indexLost>>
  BY DEF PutSession, Step, settings, Cache, Chat, NoteOverlap
<1>2. /\ writer[w] \in [step : SessionSteps, chat : Chats, turns : Seq(Nat), index : Indexes]
      /\ w \in Holders(c) /\ ts \in Seq(Nat) /\ Held(c) /\ (c \notin overlapped => AnswerKept(c) /\ Copies(c))
  BY <1>1, CallerHas DEF SessionSteps
<1>3. x.step = "stored" /\ x.chat = c /\ x.turns = ts
  BY <1>2
<1>. HIDE DEF x
<1>4. /\ writer'[w] = x /\ \A u \in Writers \ {w} : writer'[u] = writer[u]
      /\ cached'[c] = ts /\ \A d \in Chats \ {c} : cached'[d] = cached[d]
  BY <1>1 DEF SessionsInv, SessionTypes
<1>5. /\ \A d \in Chats : Holders(d)' = Holders(d)
      /\ \A d \in Chats \ {c} : w \notin Holders(d)
      /\ \A u \in Holders(c) : u \in Writers /\ writer[u].chat = c
  BY <1>3, <1>4 DEF Holders
<1>6. OtherChats(w, c)
  BY <1>1, <1>4, <1>5 DEF OtherChats
<1>7. ts # None
  BY <1>2, SessionsAssumption
<1>8. Held(c)'
  <2>. SUFFICES ASSUME NEW u \in Holders(c)
                PROVE  writer'[u].step \in {"stored", "indexing"} =>
                          [chat |-> c, key |-> keyOf[c], turns |-> writer'[u].turns] \in blobs'
    BY <1>1, <1>4, <1>5, <1>7 DEF Held
  <2>1. CASE u = w
    BY <1>1, <1>3, <1>4, <2>1
  <2>2. CASE u # w
    <3>1. writer'[u] = writer[u] /\ blobs \subseteq blobs'
      BY <1>1, <1>4, <1>5, <2>2
    <3>2. writer[u].step \in {"stored", "indexing"} =>
             [chat |-> c, key |-> keyOf[c], turns |-> writer[u].turns] \in blobs
      BY <1>2 DEF Held
    <3>. QED  BY <3>1, <3>2
  <2>. QED  BY <2>1, <2>2
<1>9. c \notin overlapped' => AnswerKept(c)' /\ Copies(c)'
  <2>. SUFFICES ASSUME c \notin overlapped'
                PROVE  AnswerKept(c)' /\ Copies(c)'
    OBVIOUS
  <2>1. w \notin stale /\ c \notin overlapped
    BY <1>1
  <2>2. cached[c] # None /\ ToSet(cached[c]) \subseteq ToSet(ts)
    BY <1>2, <2>1 DEF Copies, Held
  <2>3. AnswerKept(c)'
    BY <1>1, <1>2, <1>4, <2>1, <2>2 DEF AnswerKept
  <2>4. \A u \in Holders(c)' \ stale' : u = w
    BY <1>1, <1>5
  <2>5. Copies(c)'
    BY <1>3, <1>4, <2>4 DEF Copies
  <2>. QED  BY <2>3, <2>5
<1>10. Indexed' /\ IndexIsRight'
  BY <1>1, <1>3, <1>4, <1>6, IndexAsBefore
<1>. QED  BY <1>6, <1>8, <1>9, <1>10, OthersKept

LEMMA SetIndexSteps ==
    ASSUME SessionsInv, NEW w \in Writers, NEW c \in Chats, writer[w].chat = c, SetIndex(w), SessionTypes'
    PROVE  SessionsInv'
<1>. DEFINE ts == writer[w].turns
            old == writer[w].index
            x == [writer[w] EXCEPT !.step = "open"]
            new == Upsert(old, c, Len(ts))
<1>1. /\ writer[w].step = "indexing" /\ writer' = [writer EXCEPT ![w] = x]
      /\ pointer' = [key |-> keyOf[c], entries |-> new]
      /\ answer' = [answer EXCEPT ![c] = ts]
      /\ answered' = [answered EXCEPT ![c] = @ \union ToSet(ts)]
      /\ overlapped' = IF w \in stale THEN overlapped \union {c} ELSE overlapped
      /\ indexLost' = (indexLost \/ w \in overtaken)
      /\ overtaken' = (overtaken \ {w}) \union {u \in Writers \ {w} : writer[u].step = "indexing"}
      /\ UNCHANGED <<keyOf, onChain, blobs, cached, stale>>
  BY DEF SetIndex, Step, settings, Chat, NoteOverlap
<1>2. /\ writer[w] \in [step : SessionSteps, chat : Chats, turns : Seq(Nat), index : Indexes]
      /\ w \in Holders(c) /\ ts \in Seq(Nat) /\ Held(c) /\ (c \notin overlapped => AnswerKept(c) /\ Copies(c))
  BY <1>1, CallerHas DEF SessionSteps
<1>3. x.step = "open" /\ x.chat = c /\ x.turns = ts
  BY <1>2
<1>. HIDE DEF x
<1>4. /\ writer'[w] = x /\ \A u \in Writers \ {w} : writer'[u] = writer[u]
      /\ answer'[c] = ts /\ \A d \in Chats \ {c} : answer'[d] = answer[d]
      /\ answered'[c] = answered[c] \union ToSet(ts) /\ \A d \in Chats \ {c} : answered'[d] = answered[d]
  BY <1>1 DEF SessionsInv, SessionTypes
<1>5. /\ \A d \in Chats : Holders(d)' = Holders(d)
      /\ \A d \in Chats \ {c} : w \notin Holders(d)
      /\ \A u \in Holders(c) : u \in Writers /\ writer[u].chat = c
  BY <1>3, <1>4 DEF Holders
<1>6. OtherChats(w, c)
  BY <1>1, <1>4, <1>5 DEF OtherChats
<1>7. ts # None /\ [chat |-> c, key |-> keyOf[c], turns |-> ts] \in blobs
  BY <1>1, <1>2, SessionsAssumption DEF Held
<1>8. Held(c)'
  <2>. SUFFICES ASSUME NEW u \in Holders(c)
                PROVE  writer'[u].step \in {"stored", "indexing"} =>
                          [chat |-> c, key |-> keyOf[c], turns |-> writer'[u].turns] \in blobs
    <3>1. \A u \in Holders(c) : cached[c] # None
      BY <1>2 DEF Held
    <3>. QED  BY <1>1, <1>5, <3>1 DEF Held
  <2>1. CASE u = w
    BY <1>3, <1>4, <2>1
  <2>2. CASE u # w
    <3>1. writer'[u] = writer[u]
      BY <1>4, <1>5, <2>2
    <3>. QED  BY <1>2, <3>1 DEF Held
  <2>. QED  BY <2>1, <2>2
<1>9. c \notin overlapped' => AnswerKept(c)' /\ Copies(c)'
  <2>. SUFFICES ASSUME c \notin overlapped'
                PROVE  AnswerKept(c)' /\ Copies(c)'
    OBVIOUS
  <2>1. w \notin stale /\ c \notin overlapped /\ cached[c] # None
    BY <1>1, <1>2 DEF Held
  <2>2. cached[c] = ts
    BY <1>1, <1>2, <2>1 DEF Copies
  <2>3. AnswerKept(c)'
    BY <1>1, <1>2, <1>4, <1>7, <2>1, <2>2 DEF AnswerKept
  <2>4. Copies(c)'
    <3>1. \A u \in Holders(c)' \ stale' : u \in Holders(c) \ stale /\ u \in Writers
      BY <1>1, <1>5
    <3>. QED  BY <1>1, <1>2, <1>3, <1>4, <2>1, <2>2, <3>1 DEF Copies
  <2>. QED  BY <2>3, <2>4
<1>10. /\ DOMAIN new = DOMAIN old \union {c} /\ new[c] = Len(ts)
       /\ \A d \in DOMAIN old : d # c => new[d] = old[d]
  BY DEF Upsert
<1>11. Indexed /\ IndexIsRight
  BY DEF SessionsInv
<1>. HIDE DEF new, old
<1>12. Listed(keyOf[c], new)
  <2>1. Listed(keyOf[c], old)
    BY <1>1, <1>11 DEF Indexed, old
  <2>2. \E b \in blobs : b.chat = c /\ b.key = keyOf[c] /\ Len(b.turns) = Len(ts)
    BY <1>7
  <2>. QED  BY <1>10, <2>1, <2>2 DEF Listed
<1>13. Indexed'
  <2>. SUFFICES ASSUME NEW u \in Writers, writer'[u].step = "indexing"
                PROVE  Listed(keyOf[writer'[u].chat], writer'[u].index) /\ u \in overtaken'
    BY <1>1 DEF Indexed, Listed
  <2>1. u # w /\ writer'[u] = writer[u]
    BY <1>3, <1>4
  <2>. QED  BY <1>1, <1>11, <2>1 DEF Indexed
<1>14. pointer' # None /\ new # None /\ pointer'.key = keyOf[c] /\ pointer'.entries = new
  <2>1. keyOf[c] \in SessionKeys
    BY DEF SessionsInv, SessionTypes
  <2>2. new \in Indexes
    <3>1. pointer' \in [key : SessionKeys, entries : Indexes] \union {None}
      BY DEF SessionTypes
    <3>2. old \in Indexes /\ Len(ts) \in Nat
      BY <1>2, LenProperties DEF old
    <3>3. PICK S \in SUBSET Chats : old \in [S -> Nat]
      BY <3>2 DEF Indexes
    <3>4. S \union {c} \in SUBSET Chats /\ new \in [S \union {c} -> Nat]
      BY <3>2, <3>3 DEF Upsert, new
    <3>. QED  BY <3>4 DEF Indexes
  <2>3. [key |-> keyOf[c], entries |-> new] \in [key : SessionKeys, entries : Indexes]
    BY <2>1, <2>2
  <2>. QED  BY <1>1, <2>2, <2>3, SessionsAssumption DEF Indexes
<1>15. IndexIsRight'
  <2>1. \A d \in DOMAIN pointer'.entries : \E b \in blobs' :
           b.chat = d /\ b.key = pointer'.key /\ Len(b.turns) = pointer'.entries[d]
    BY <1>1, <1>12, <1>14 DEF Listed
  <2>2. ASSUME ~indexLost', NEW d \in Chats \ overlapped', answer'[d] # None
        PROVE  pointer'.key = keyOf'[d] /\ d \in DOMAIN new /\ new[d] = Len(answer'[d])
    <3>1. CASE d = c
      BY <1>1, <1>4, <1>10, <1>14, <3>1
    <3>2. CASE d # c
      <4>1. ~indexLost /\ w \notin overtaken /\ d \notin overlapped /\ answer'[d] = answer[d]
        BY <1>1, <1>4, <2>2, <3>2
      <4>2. /\ pointer = None => old = <<>>
            /\ pointer # None => old = pointer.entries /\ pointer.key = keyOf[c]
        BY <1>1, <1>11, <4>1 DEF Indexed, ThisIndex, old
      <4>3. pointer # None
        <5>. SUFFICES ASSUME pointer = None PROVE FALSE
          OBVIOUS
        <5>1. d \in DOMAIN (<<>>)
          BY <1>11, <2>2, <4>1 DEF IndexIsRight, ListSessions
        <5>2. Listed(keyOf[c], <<>>) /\ <<>> \in Seq(Nat) /\ Len(<<>>) = 0
          BY NoIndex, EmptySeq
        <5>3. DOMAIN (<<>>) = 1..0
          BY <5>2, LenProperties
        <5>. QED  BY <5>1, <5>3
      <4>4. /\ pointer.key = keyOf[d] /\ d \in DOMAIN pointer.entries
            /\ pointer.entries[d] = Len(answer[d])
        BY <1>11, <2>2, <4>1, <4>3 DEF IndexIsRight, ListSessions
      <4>. QED  BY <1>1, <1>10, <1>14, <3>2, <4>1, <4>2, <4>3, <4>4
    <3>. QED  BY <3>1, <3>2
  <2>. QED  BY <1>14, <2>1, <2>2 DEF IndexIsRight, ListSessions
<1>. QED  BY <1>6, <1>8, <1>9, <1>13, <1>15, OthersKept

LEMMA RebootSteps ==
    ASSUME SessionsInv, Reboot, SessionTypes'
    PROVE  SessionsInv'
<1>1. /\ cached' = [c \in Chats |-> None] /\ writer' = [w \in Writers |-> Free]
      /\ pointer' = IF onChain THEN pointer ELSE None
      /\ indexLost' = (indexLost \/ pointer' # pointer)
      /\ UNCHANGED <<keyOf, onChain, blobs, answer, answered, overlapped>>
  BY DEF Reboot, settings
<1>2. \A c \in Chats : Holders(c)' = {}
  BY <1>1, SessionsAssumption DEF Holders, Free
<1>3. ASSUME NEW c \in Chats
      PROVE  Held(c)' /\ (c \notin overlapped' => AnswerKept(c)' /\ Copies(c)')
  BY <1>1, <1>2 DEF SessionsInv, Held, AnswerKept, Copies
<1>4. Indexed'
  BY <1>1 DEF Indexed, Free
<1>5. IndexIsRight'
  <2>1. IndexIsRight /\ (~indexLost' => ~indexLost /\ pointer' = pointer)
    BY <1>1 DEF SessionsInv, SessionTypes
  <2>2. pointer' = pointer \/ pointer' = None
    BY <1>1
  <2>. QED  BY <1>1, <2>1, <2>2 DEF IndexIsRight, ListSessions
<1>. QED  BY <1>3, <1>4, <1>5 DEF SessionsInv

LEMMA SessionsStepInv ==
    ASSUME SessionsInv, [SessionsNext]_sessionVars
    PROVE  SessionsInv'
<1>1. SessionTypes'
  BY SessionTypesStep DEF SessionsInv
<1>2. ASSUME NEW w \in Writers, NEW c \in Chats, CreateSession(w, c) \/ LoadSession(w, c)
      PROVE  SessionsInv'
  BY <1>1, <1>2, CreateSessionSteps, LoadSessionSteps
<1>3. ASSUME NEW w \in Writers,
             \/ Close(w) \/ AppendTurn(w) \/ PutSession(w) \/ PutFails(w)
             \/ \E fetched \in BOOLEAN : ReadIndex(w, fetched)
             \/ SetIndex(w) \/ IndexFails(w)
      PROVE  SessionsInv'
  <2>1. writer[w].step \in SessionSteps
    BY <1>3 DEF Close, AppendTurn, PutSession, PutFails, ReadIndex, SetIndex, IndexFails, Step, SessionSteps
  <2>2. PICK c \in Chats : writer[w].chat = c
    BY <2>1, CallerHas
  <2>3. ASSUME NEW fetched \in BOOLEAN, ReadIndex(w, fetched)
        PROVE  SessionsInv'
    BY <1>1, <2>2, <2>3, ReadIndexSteps
  <2>. QED  BY <1>1, <1>3, <2>2, <2>3, CloseSteps, AppendTurnSteps, PutSessionSteps, FailedSaves, SetIndexSteps
<1>4. CASE Reboot
  BY <1>1, <1>4, RebootSteps
<1>5. CASE UNCHANGED sessionVars
  <2>. UNCHANGED <<keyOf, onChain, blobs, pointer, cached, answer, writer, answered, stale, overlapped,
                   overtaken, indexLost>>
    BY <1>5 DEF sessionVars, settings, ghosts
  <2>1. \A c \in Chats : Holders(c)' = Holders(c)
    BY DEF Holders
  <2>2. \A c \in Chats : Held(c)' /\ (c \notin overlapped' => AnswerKept(c)' /\ Copies(c)')
    BY <2>1 DEF SessionsInv, Held, AnswerKept, Copies
  <2>3. Indexed' /\ IndexIsRight'
    BY DEF SessionsInv, Indexed, Listed, ThisIndex, IndexIsRight, ListSessions
  <2>. QED  BY <1>1, <2>2, <2>3 DEF SessionsInv
<1>. QED  BY <1>2, <1>3, <1>4, <1>5 DEF SessionsNext

\* What append_turn has answered is in the blob it answered and in the cache, and the
\* index lists the session as it was answered, under the user's key and with blobs
\* that are there, through failed saves and restarts, unless two callers changed the
\* session at a time or an index was lost (session.rs:240-467).
THEOREM AnsweredSessionsAreKept == SessionsSpec => []SessionsAreKept
<1>1. SessionsInv => SessionsAreKept
  BY DEF SessionsInv, AnswerKept, SessionsAreKept, AnsweredTurnsAreKept
<1>2. SessionsInv /\ [SessionsNext]_sessionVars => SessionsInv'
  BY SessionsStepInv
<1>. QED  BY <1>1, <1>2, SessionsInitInv, PTL DEF SessionsSpec

(***************************************************************************)
(* Part 4: windows.  Recent keeps the longest end of a conversation that   *)
(* fits (LongestEndFits, of SumTheorems).                                  *)
(***************************************************************************)

Spoken == Seq(Nat)

LEMMA CostType ==
    ASSUME NEW bytes \in Nat
    PROVE  Cost(bytes) \in Nat \ {0}
BY DEF Cost

\* What messages cost, as a sequence.
LEMMA CostsType ==
    ASSUME NEW s \in Spoken
    PROVE  Costs(s) \in Seq(Nat) /\ Len(Costs(s)) = Len(s)
<1>1. Len(s) \in Nat /\ DOMAIN s = 1..Len(s) /\ \A i \in 1..Len(s) : s[i] \in Nat
  BY DEF Spoken
<1>2. \A i \in 1..Len(s) : Cost(s[i]) \in Nat
  BY <1>1, CostType
<1>3. Costs(s) = [i \in 1..Len(s) |-> Cost(s[i])]
  BY <1>1 DEF Costs
<1>. QED  BY <1>1, <1>2, <1>3

\* Recent keeps the longest end that fits.
LEMMA RecentFits ==
    ASSUME NEW s \in Spoken, NEW budget \in Nat
    PROVE  LET kept == Recent(s, budget)
               n == Len(s)
           IN /\ kept.first \in 1..(n + 1)
              /\ kept.used = CostOf(s, kept.first..n)
              /\ \A i \in 1..(n + 1) : CostOf(s, i..n) \in Nat
              /\ \A i \in 1..(n + 1) : CostOf(s, i..n) <= budget <=> i >= kept.first
<1>. DEFINE costs == Costs(s)
<1>1. costs \in Seq(Nat) /\ Len(costs) = Len(s)
  BY CostsType
<1>2. \A S : CostOf(s, S) = SumOver(costs, S)
  BY DEF CostOf
<1>3. Recent(s, budget) = LongestEnd(costs, budget)
  BY DEF Recent
<1>. HIDE DEF costs
<1>. QED  BY <1>1, <1>2, <1>3, LongestEndFits

WindowInv ==
    /\ spoken \in Spoken /\ limit \in Limits /\ window.first \in Nat
    /\ phase = "built" => window = Recent(spoken, WindowBudget(limit))
    /\ NothingForgotten

LEMMA BudgetType ==
    ASSUME NEW max \in Nat
    PROVE  WindowBudget(max) \in Nat
<1>1. max * 3 \in Nat
  OBVIOUS
<1>. DEFINE m == max * 3
<1>. HIDE DEF m
<1>2. m \in Nat => m \div 4 \in Nat
  OBVIOUS
<1>. QED  BY <1>1, <1>2 DEF WindowBudget, m

LEMMA WindowInitInv == WindowInit => WindowInv
BY DEF WindowInit, WindowInv, NothingForgotten, Spoken

LEMMA WindowStep == WindowInv /\ [WindowNext]_windowVars => WindowInv'
<1>. SUFFICES ASSUME WindowInv, [WindowNext]_windowVars  PROVE WindowInv'
  OBVIOUS
<1>. USE DEF WindowInv, NothingForgotten, Spoken
<1>1. ASSUME NEW bytes \in Lengths, Speak(bytes)  PROVE WindowInv'
  <2>1. bytes \in Nat
    BY WindowAssumption
  <2>2. Append(spoken, bytes) \in Seq(Nat)
    BY <2>1
  <2>. QED  BY <1>1, <2>2 DEF Speak
<1>2. ASSUME NEW max \in Limits, BuildContextWindow(max)  PROVE WindowInv'
  <2>1. WindowBudget(max) \in Nat
    BY WindowAssumption, BudgetType
  <2>2. Recent(spoken, WindowBudget(max)).first \in Nat
    <3>1. Recent(spoken, WindowBudget(max)).first \in 1..(Len(spoken) + 1)
      BY <2>1, RecentFits
    <3>. QED  BY <3>1
  <2>. QED  BY <1>2, <2>2 DEF BuildContextWindow
<1>3. CASE Summarise
  BY <1>3 DEF Summarise, SummaryPrompt, Dropped
<1>4. CASE SummaryBreaksOff
  BY <1>4 DEF SummaryBreaksOff, SummaryPrompt, Dropped
<1>5. CASE SummariseFails
  BY <1>5 DEF SummariseFails, Dropped
<1>6. CASE UNCHANGED windowVars
  BY <1>6 DEF windowVars
<1>. QED  BY <1>1, <1>2, <1>3, <1>4, <1>5, <1>6 DEF WindowNext

LEMMA WindowInvFits ==
    ASSUME WindowInv
    PROVE  WindowFits
<1>. SUFFICES ASSUME phase = "built"
              PROVE  LET budget == WindowBudget(limit)
                     IN /\ window.used = CostFrom(window.first)
                        /\ \A i \in 1..(Len(spoken) + 1) : CostFrom(i) <= budget <=> i >= window.first
                        /\ NeedsSummarisation(spoken, budget) <=> Dropped # {}
                        /\ SplitMessages(spoken, budget).summarise = Dropped
  BY DEF WindowFits
<1>. DEFINE budget == WindowBudget(limit)
            n == Len(spoken)
<1>1. /\ spoken \in Spoken /\ n \in Nat /\ DOMAIN spoken = 1..n /\ window = Recent(spoken, budget)
      /\ budget \in Nat
  BY WindowAssumption, BudgetType DEF WindowInv, Spoken
<1>2. /\ window.first \in 1..(n + 1)
      /\ window.used = CostOf(spoken, window.first..n)
      /\ \A i \in 1..(n + 1) : CostOf(spoken, i..n) \in Nat
      /\ \A i \in 1..(n + 1) : CostOf(spoken, i..n) <= budget <=> i >= window.first
  BY <1>1, RecentFits
<1>. HIDE DEF budget, n
<1>3. NeedsSummarisation(spoken, budget) <=> Dropped # {}
  <2>1. NeedsSummarisation(spoken, budget) <=> CostOf(spoken, 1..n) > budget
    BY <1>1 DEF NeedsSummarisation
  <2>2. CostOf(spoken, 1..n) <= budget <=> 1 >= window.first
    BY <1>1, <1>2
  <2>3. CostOf(spoken, 1..n) \in Nat
    BY <1>1, <1>2
  <2>4. Dropped # {} <=> window.first > 1
    <3>1. window.first > 1 => 1 \in Dropped
      BY <1>1, <1>2 DEF Dropped
    <3>2. ~(window.first > 1) => Dropped = {}
      BY <1>1, <1>2 DEF Dropped
    <3>. QED  BY <3>1, <3>2
  <2>. QED  BY <1>1, <1>2, <2>1, <2>2, <2>3, <2>4
<1>4. SplitMessages(spoken, budget).summarise = Dropped
  BY <1>1 DEF SplitMessages, Dropped
<1>. QED  BY <1>2, <1>3, <1>4 DEF CostFrom, budget, n

\* The model gets the conversation: the longest end of it that fits its budget as it is, and
\* every message before that in the summary, unless a summary failed or broke off
\* (session.rs:346-372, summariser.rs:47-142), for any messages and models.
THEOREM WindowsStayRight == WindowSpec => []WindowsAreRight
<1>1. WindowSpec => []WindowInv
  BY WindowInitInv, WindowStep, PTL DEF WindowSpec
<1>2. WindowInv => WindowsAreRight
  BY WindowInvFits DEF WindowInv, WindowsAreRight
<1>. QED  BY <1>1, <1>2, PTL

\* A user's sessions are found again as they were answered for, while their callers do not
\* cross, and what they hold goes to the model as it is or in the summary (session.rs,
\* summariser.rs).
THEOREM SessionsStayUsable == SessionsSpec /\ WindowSpec => []SessionsAreUsable
<1>1. SessionsAreKept /\ WindowsAreRight <=> SessionsAreUsable
  BY DEF SessionsAreUsable
<1>. QED  BY <1>1, AnsweredSessionsAreKept, WindowsStayRight, PTL
=============================================================================
