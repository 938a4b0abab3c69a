---------------------------- MODULE MCConversation ----------------------------
(***************************************************************************)
(* Bounds for Conversation, where two sessions share one file name, and    *)
(* for Sessions, ContextWindow and BlobStore.  They share no state: every  *)
(* behaviour is of one.                                                    *)
(***************************************************************************)
EXTENDS Conversation, Sessions, ContextWindow, BlobStore, TLC

VARIABLE part   \* which of them the behaviour is of

MCFileName == [s \in Sessions |-> "file"]

\* The second request's answer is long, the other messages are short.
MCBytes == [m \in Message |-> IF m = [turn |-> 2, role |-> "assistant"] THEN 60 ELSE 1]

\* Requests come in one order, the long answer's in the middle.
Bounds == \A r, u \in Requests : (r < u /\ pc[u] = "idle" /\ pc'[u] # "idle") => pc[r] # "idle"

\* One thing goes wrong: an access of the store, or the node.
OneMishap == faults' + crashes' <= 1

\* So do sessions and writers; the run checks no liveness property.
Symmetry == Permutations(Sessions) \union Permutations(Writers)

MCInit ==
    /\ part \in {"history", "sessions", "windows", "blobs"}
    /\ Init /\ SessionsInit /\ WindowInit /\ BlobInit
    /\ part # "sessions" => onChain = TRUE /\ keyOf["c2"] = "k1"
    /\ part # "history" => backend = CHOOSE b \in Backends : TRUE
    /\ part # "windows" => limit = CHOOSE l \in Limits : TRUE
    /\ part # "blobs" =>
          /\ medium = CHOOSE m \in Media : TRUE
          /\ content = [p \in Putters |-> CHOOSE c \in Contents : TRUE]
    /\ keyOf["c1"] = "k1"

MCNext ==
    /\ UNCHANGED part
    /\ \/ part = "history" /\ Next /\ UNCHANGED <<sessionVars, windowVars, blobVars>>
       \/ part = "sessions" /\ SessionsNext /\ UNCHANGED <<vars, windowVars, blobVars>>
       \/ part = "windows" /\ WindowNext /\ UNCHANGED <<vars, sessionVars, blobVars>>
       \/ part = "blobs" /\ BlobNext /\ UNCHANGED <<vars, sessionVars, windowVars>>

MCSpec == MCInit /\ [][MCNext]_<<part, vars, sessionVars, windowVars, blobVars>>

\* What a session holds is found again (SessionsAreKept), and goes to the model as it
\* is or in the summary (WindowsAreRight) (session.rs, summariser.rs).
SessionsAreUsable == SessionsAreKept /\ WindowsAreRight
===============================================================================
