------------------------------ MODULE Sessions ------------------------------
(***************************************************************************)
(* crates/context/src/session.rs: the sessions of one user.  A session is  *)
(* encrypted and put in blob storage, a new blob at every save; an         *)
(* encrypted index of the user's sessions is a blob too, and a pointer to  *)
(* it is kept in memory (LocalIndexStore) or on chain (ChainIndexStore).   *)
(* Callers change their own copy of a session and save it; the manager's   *)
(* cache has a lock, a save as a whole has none.                           *)
(*                                                                         *)
(* A blob never changes and its nonce is fresh, so a blob id is the blob's *)
(* contents: a key, and what was encrypted with it.                        *)
(***************************************************************************)
EXTENDS Integers, SequencesExt

CONSTANTS
    Chats,          \* session ids
    SessionKeys,    \* the keys callers save them under
    Writers,        \* callers, each with a copy of one session
    None,           \* no session, no blob, no index
    MaxTurns,       \* bound: turns appended
    MaxLapses,      \* bound: calls of the storage that fail
    MaxReboots      \* bound: restarts of the process

\* Whether a session, a blob or an index is there is always told.
ASSUME SessionsAssumption ==
    /\ None \notin Chats /\ None \notin Seq(Nat) /\ \A S \in SUBSET Chats : None \notin [S -> Nat]
    /\ None \notin [key : SessionKeys, entries : UNION {[S -> Nat] : S \in SUBSET Chats}]

VARIABLES
    keyOf,          \* the key each session is saved under
    onChain,        \* whether the pointer outlives the process
    blobs,          \* session blobs in the storage
    pointer,        \* the index: its key and the turn count of each session
    cached,         \* the manager's cache: the turns of a session
    answer,         \* the turns in the blob whose id a save of it answered last
    writer,         \* each caller: step, session, turns and the index it read
    turns, lapses, reboots,
    \* for the properties only
    answered,       \* the turns of each session whose append was answered
    stale,          \* callers whose session was saved by another since they have it
    overlapped,     \* sessions saved by a stale caller
    overtaken,      \* callers whose index was replaced since they read it
    indexLost       \* whether an index was replaced by one that does not follow from it

settings == <<keyOf, onChain>>
ghosts == <<answered, stale, overlapped, overtaken, indexLost>>
sessionVars == <<settings, blobs, pointer, cached, answer, writer, turns, lapses, reboots, ghosts>>

Free == [step |-> "free", chat |-> None, turns |-> <<>>, index |-> <<>>]

SessionsInit ==
    /\ keyOf \in [Chats -> SessionKeys]
    /\ onChain \in BOOLEAN
    /\ blobs = {} /\ pointer = None
    /\ cached = [c \in Chats |-> None]
    /\ answer = [c \in Chats |-> None]
    /\ writer = [w \in Writers |-> Free]
    /\ turns = 0 /\ lapses = 0 /\ reboots = 0
    /\ answered = [c \in Chats |-> {}]
    /\ stale = {} /\ overlapped = {} /\ overtaken = {} /\ indexLost = FALSE

Step(w, from, to) ==
    /\ writer[w].step = from
    /\ writer' = [writer EXCEPT ![w].step = to]

Lapse == lapses < MaxLapses /\ lapses' = lapses + 1

Chat(w) == writer[w].chat

-----------------------------------------------------------------------------

\* create_session: cached at once, stored by its first save.
CreateSession(w, c) ==
    /\ writer[w] = Free
    /\ cached[c] = None /\ answer[c] = None /\ \A b \in blobs : b.chat # c
    /\ \A u \in Writers : Chat(u) # c
    /\ cached' = [cached EXCEPT ![c] = <<>>]
    /\ writer' = [writer EXCEPT ![w] = [Free EXCEPT !.step = "open", !.chat = c]]
    /\ UNCHANGED <<settings, blobs, pointer, answer, turns, lapses, reboots, ghosts>>

\* What load_session comes up with: the cache, else the blob the caller names.
Latest(c) == IF cached[c] # None THEN cached[c] ELSE answer[c]

\* load_session; when the storage fails it answers None and nothing changes.
LoadSession(w, c) ==
    /\ writer[w] = Free /\ Latest(c) # None
    /\ cached' = [cached EXCEPT ![c] = Latest(c)]
    /\ writer' = [writer EXCEPT ![w] = [Free EXCEPT !.step = "open", !.chat = c,
                                                    !.turns = Latest(c)]]
    /\ UNCHANGED <<settings, blobs, pointer, answer, turns, lapses, reboots, ghosts>>

\* The caller drops its copy.
Close(w) ==
    /\ writer[w].step = "open"
    /\ writer' = [writer EXCEPT ![w] = Free]
    /\ stale' = stale \ {w}
    /\ UNCHANGED <<settings, blobs, pointer, cached, answer, turns, lapses, reboots,
                   answered, overlapped, overtaken, indexLost>>

\* append_turn: the turn goes to the caller's copy, and stays there if the save fails.
AppendTurn(w) ==
    /\ writer[w].step = "open"
    /\ turns < MaxTurns /\ turns' = turns + 1
    /\ writer' = [writer EXCEPT ![w] = [@ EXCEPT !.step = "put", !.turns = Append(writer[w].turns, turns')]]
    /\ UNCHANGED <<settings, blobs, pointer, cached, answer, lapses, reboots, ghosts>>

\* Mutated form: a session that is cached keeps its first contents.
Cache_Keep(c, ts) ==
    cached' = [cached EXCEPT ![c] = IF @ = None THEN ts ELSE @]

Cache(c, ts) == cached' = [cached EXCEPT ![c] = ts]

NoteOverlap(w) ==
    overlapped' = IF w \in stale THEN overlapped \union {Chat(w)} ELSE overlapped

\* save_session stores the blob, then refreshes the cache.  Nobody knows of the blob
\* before that.  The other copies of the session are stale from here on.
PutSession(w) ==
    /\ Step(w, "put", "stored")
    /\ blobs' = blobs \union {[chat |-> Chat(w), key |-> keyOf[Chat(w)], turns |-> writer[w].turns]}
    /\ Cache(Chat(w), writer[w].turns)
    /\ NoteOverlap(w)
    /\ stale' = (stale \ {w}) \union {u \in Writers \ {w} : Chat(u) = Chat(w)}
    /\ UNCHANGED <<settings, pointer, answer, turns, lapses, reboots, answered, overtaken, indexLost>>

\* The blob cannot be stored: the save fails and changes nothing.
PutFails(w) ==
    /\ Lapse
    /\ Step(w, "put", "open")
    /\ UNCHANGED <<settings, blobs, pointer, cached, answer, turns, reboots, ghosts>>

\* Mutated form: an index under another key is read all the same.
Decrypts_Any(w) == TRUE

Decrypts(w) == pointer.key = keyOf[Chat(w)]

\* update_session_index reads the index of the user.  There may be none; one whose
\* blob cannot be fetched counts as empty; one under another key fails the save,
\* whose blob stays stored and cached.
ReadIndex(w, fetched) ==
    /\ writer[w].step = "stored"
    /\ IF pointer = None THEN fetched /\ UNCHANGED lapses
       ELSE IF fetched THEN UNCHANGED lapses ELSE Lapse
    /\ LET entries == IF pointer = None \/ ~fetched THEN <<>> ELSE pointer.entries
           failed == pointer # None /\ fetched /\ ~Decrypts(w)
       IN writer' = [writer EXCEPT ![w] =
                       IF failed THEN [@ EXCEPT !.step = "open"]
                       ELSE [@ EXCEPT !.step = "indexing", !.index = entries]]
    /\ overtaken' = IF fetched THEN overtaken \ {w} ELSE overtaken \union {w}
    /\ UNCHANGED <<settings, blobs, pointer, cached, answer, turns, reboots,
                   answered, stale, overlapped, indexLost>>

\* Mutated form: the entry of a session that is listed already is left as it was.
Upsert_Keep(entries, c, n) == entries @@ (c :> n)

Upsert(entries, c, n) == [d \in DOMAIN entries \union {c} |-> IF d = c THEN n ELSE entries[d]]

\* The new index is put in the storage, then pointed to; nobody sees it in between.
\* The save is answered with its blob's id.
SetIndex(w) ==
    LET c == Chat(w)
        ts == writer[w].turns
    IN /\ Step(w, "indexing", "open")
       /\ pointer' = [key |-> keyOf[c], entries |-> Upsert(writer[w].index, c, Len(ts))]
       /\ answer' = [answer EXCEPT ![c] = ts]
       /\ answered' = [answered EXCEPT ![c] = @ \union ToSet(ts)]
       /\ NoteOverlap(w)
       /\ indexLost' = (indexLost \/ w \in overtaken)
       /\ overtaken' = (overtaken \ {w}) \union {u \in Writers \ {w} : writer[u].step = "indexing"}
       /\ UNCHANGED <<settings, blobs, cached, turns, lapses, reboots, stale>>

\* The pointer cannot be read, the index cannot be stored or the pointer cannot be
\* set: the save fails after the session was stored.
IndexFails(w) ==
    /\ Lapse
    /\ Step(w, "stored", "open") \/ Step(w, "indexing", "open")
    /\ UNCHANGED <<settings, blobs, pointer, cached, answer, turns, reboots, ghosts>>

\* list_sessions: with no index it lists nothing; one under another key is an error.
ListSessions(key) ==
    IF pointer = None THEN <<>> ELSE IF pointer.key = key THEN pointer.entries ELSE None

\* The process restarts: callers and cache are gone, and so is a pointer in memory.
Reboot ==
    /\ reboots < MaxReboots /\ reboots' = reboots + 1
    /\ cached' = [c \in Chats |-> None]
    /\ writer' = [w \in Writers |-> Free]
    /\ pointer' = IF onChain THEN pointer ELSE None
    /\ indexLost' = (indexLost \/ pointer' # pointer)
    /\ stale' = {} /\ overtaken' = {}
    /\ UNCHANGED <<settings, blobs, answer, turns, lapses, answered, overlapped>>

SessionsNext ==
    \/ \E w \in Writers :
          \/ \E c \in Chats : CreateSession(w, c) \/ LoadSession(w, c)
          \/ Close(w) \/ AppendTurn(w) \/ PutSession(w) \/ PutFails(w)
          \/ \E fetched \in BOOLEAN : ReadIndex(w, fetched)
          \/ SetIndex(w) \/ IndexFails(w)
    \/ Reboot

SessionsSpec == SessionsInit /\ [][SessionsNext]_sessionVars

-----------------------------------------------------------------------------
(* Properties                                                              *)

\* A turn whose append was answered is in the blob answered last and in the cache,
\* through failed saves and restarts, unless two callers changed the session at a
\* time (session.rs:240-340).
AnsweredTurnsAreKept ==
    \A c \in Chats \ overlapped :
        answer[c] # None =>
            /\ answered[c] \subseteq ToSet(answer[c])
            /\ cached[c] # None => answered[c] \subseteq ToSet(cached[c])

\* What the index lists can be fetched and decrypted with the index's key, and an
\* answered session is listed, under its own key and with its turns, unless an index
\* was lost to another save, a failed fetch or a restart (session.rs:378-467).  An index
\* that does not decrypt is kept, and the save fails, though session.rs:413 says "start
\* fresh on any error".
IndexIsRight ==
    /\ pointer # None =>
          \A c \in DOMAIN pointer.entries : \E b \in blobs :
              b.chat = c /\ b.key = pointer.key /\ Len(b.turns) = pointer.entries[c]
    /\ ~indexLost =>
          \A c \in Chats \ overlapped : answer[c] # None =>
              LET list == ListSessions(keyOf[c])
              IN list # None /\ c \in DOMAIN list /\ list[c] = Len(answer[c])

\* What a session was answered to hold can be found again, in its blob and through
\* the index (session.rs:240-467).
SessionsAreKept == AnsweredTurnsAreKept /\ IndexIsRight
==============================================================================
