----------------------------- MODULE Reputation -----------------------------
(***************************************************************************)
(* crates/reputation: the proofs of inference a node keeps, the Merkle     *)
(* tree over them, the file that survives a restart and the roots queued   *)
(* for gossip.  LocalReputationStore holds its map's lock from the lookup  *)
(* to the end of the flush, so recording is one step; the gossip wrapper   *)
(* takes the lock again to read the root and then offers it to a bounded   *)
(* channel, so those are steps of their own.  Hashes are free terms: a     *)
(* leaf is its proof's id, an inner node the pair of its children.         *)
(*                                                                         *)
(* Nothing in the node records a proof or asks for a path yet; the         *)
(* recorders here are the callers the crate is made for.                   *)
(***************************************************************************)
EXTENDS Integers, Sequences, FiniteSets, SequencesExt

CONSTANTS
    Nodes,          \* peers whose proofs are recorded
    Self,           \* local_peer_id: only this tree is asked for a root or a path.  The
                    \* daemon gives node.node_id for it, and proofs the node's public key
    Ids,            \* proof ids
    NodeOf,         \* the node a proof is of
    Signed,         \* the proofs whose signature verifies
    Recorders,      \* tasks that call record_proof, one call after another
    QueueCap,       \* capacity of the channel to the gossip task
    ZeroRoot,       \* the root of an empty tree
    MaxFlushFailures,
    MaxMisreads,    \* restarts that do not get what the file held
    MaxRestarts     \* bounds

ASSUME ReputationAssumption == Self \in Nodes /\ NodeOf \in [Ids -> Nodes]

VARIABLES
    proofs,         \* data.proofs of every node
    score,          \* its data.score
    tree,           \* its leaves
    index,          \* proof id -> leaf index
    file,           \* what reputation.json holds, and whether it parses
    onFile,         \* whether the store has it: store.file, which in_memory leaves None
    call,           \* each recorder: its step and the root it read
    roots,          \* the channel to the gossip task
    \* for the properties only
    acked,          \* proofs whose recording returned
    unwritten,      \* those of them recorded since the file was last written
    lost,           \* those of them that a restart came before, or whose file was damaged
    failures, misreads, restarts

reputationVars == <<proofs, score, tree, index, file, onFile, call, roots, acked, unwritten, lost,
                    failures, misreads, restarts>>

-----------------------------------------------------------------------------
(* The Merkle tree                                                         *)

PadToEven(level) ==
    IF Len(level) % 2 = 1 THEN Append(level, Last(level)) ELSE level

HashPairs(level) ==
    LET padded == PadToEven(level)
    IN [i \in 1..(Len(padded) \div 2) |-> <<padded[2 * i - 1], padded[2 * i]>>]

\* The rounds of hashing a level: the last one is repeated, and a leaf's place halved.
Climb(first, i) ==
    LET round[k \in 0..Len(first)] ==
            IF k = 0 THEN [level |-> first, at |-> i]
            ELSE LET below == round[k - 1]
                 IN IF Len(below.level) > 1
                    THEN [level |-> HashPairs(below.level), at |-> below.at \div 2] ELSE below
    IN round

Root(leaves) == IF leaves = <<>> THEN ZeroRoot ELSE Climb(leaves, 0)[Len(leaves)].level[1]

\* The rounds of proof() for leaf i (counted from 0), up to one that leaves one hash.
\* The first level is padded, the ones above it are not.
Rounds(leaves, i) == Climb(PadToEven(leaves), i)

Height(round) ==
    CHOOSE h \in DOMAIN round :
        Len(round[h].level) <= 1 /\ \A k \in 0..(h - 1) : Len(round[k].level) > 1

Sibling(at) == IF at % 2 = 0 THEN at + 1 ELSE at - 1

\* Otherwise proof() indexes past a level that was not padded.
HasPath(leaves, i) ==
    LET round == Rounds(leaves, i)
    IN \A k \in 0..(Height(round) - 1) : Sibling(round[k].at) < Len(round[k].level)

Path(leaves, i) ==
    LET round == Rounds(leaves, i)
    IN [k \in 1..Height(round) |->
            [sibling |-> round[k - 1].level[Sibling(round[k - 1].at) + 1],
             isLeft |-> round[k - 1].at % 2 = 0]]

\* What a leaf is hashed to by the steps of a path.
Hashes(leaf, path) ==
    LET hash[k \in 0..Len(path)] ==
            IF k = 0 THEN leaf
            ELSE IF path[k].isLeft THEN <<hash[k - 1], path[k].sibling>>
                                   ELSE <<path[k].sibling, hash[k - 1]>>
    IN hash

VerifyProof(leaf, path, root) == Hashes(leaf, path)[Len(path)] = root

-----------------------------------------------------------------------------
(* The store                                                               *)

\* The leaf index of every proof of a list without doubles.
IndexOf(ps) == [id \in ToSet(ps) |-> CHOOSE i \in 0..(Len(ps) - 1) : ps[i + 1] = id]

\* The path the node hands out for a proof of its own, if it does.
HasProof(id) == HasPath(tree[Self], index[Self][id])
MerkleProof(id) == Path(tree[Self], index[Self][id])

NoScore == [jobs |-> 0, verified |-> 0, root |-> ZeroRoot]

\* Proofs are recorded whether or not they verify; those that do are the success rate.
ComputeScore(ps, root) ==
    IF ps = <<>> THEN NoScore
    ELSE [jobs |-> Len(ps), verified |-> Cardinality(ToSet(ps) \intersect Signed), root |-> root]

\* A task that records its next proof when there is one.
Waiting == [pc |-> "idle", root |-> ZeroRoot]

ReputationInit ==
    /\ proofs = [n \in Nodes |-> <<>>]
    /\ score = [n \in Nodes |-> NoScore]
    /\ tree = [n \in Nodes |-> <<>>]
    /\ index = [n \in Nodes |-> IndexOf(<<>>)]
    /\ file = [proofs |-> proofs, score |-> score, parses |-> TRUE] /\ onFile = TRUE
    /\ call = [c \in Recorders |-> Waiting]
    /\ roots = <<>>
    /\ acked = {} /\ unwritten = {} /\ lost = {}
    /\ failures = 0 /\ misreads = 0 /\ restarts = 0

\* Mutated form: the file is written in place, and a failure leaves half of it.
Flush_InPlace(id, ok) ==
    /\ ok \/ (onFile /\ failures < MaxFlushFailures)
    /\ file' = IF onFile THEN [proofs |-> proofs', score |-> score', parses |-> ok] ELSE file
    /\ unwritten' = IF ok /\ onFile THEN {} ELSE unwritten \union {id}
    /\ failures' = IF ok THEN failures ELSE failures + 1

\* Writing the temporary file or renaming it may fail: the old file stays and
\* only the log says so.  Without a file there is nothing to write.
Flush(id, ok) ==
    /\ ok \/ (onFile /\ failures < MaxFlushFailures)
    /\ file' = IF ok /\ onFile THEN [proofs |-> proofs', score |-> score', parses |-> TRUE] ELSE file
    /\ unwritten' = IF ok /\ onFile THEN {} ELSE unwritten \union {id}
    /\ failures' = IF ok THEN failures ELSE failures + 1

Insert(n, id) ==
    /\ tree' = [tree EXCEPT ![n] = Append(@, id)]
    /\ index' = [index EXCEPT ![n] = [i \in DOMAIN @ \cup {id} |->
                                        IF i = id THEN Len(tree[n]) ELSE @[i]]]
    /\ proofs' = [proofs EXCEPT ![n] = Append(@, id)]
    /\ score' = [score EXCEPT ![n] = ComputeScore(proofs'[n], Root(tree'[n]))]

\* A proof already recorded returns before the flush.
Record(c, id, ok) ==
    /\ call[c].pc = "idle"
    /\ call' = [call EXCEPT ![c].pc = "recorded"]
    /\ acked' = acked \cup {id}
    /\ lost' = lost \ {id}
    /\ IF id \in DOMAIN index[NodeOf[id]]
       THEN /\ ok
            /\ UNCHANGED <<proofs, score, tree, index, file, unwritten, failures>>
       ELSE Insert(NodeOf[id], id) /\ Flush(id, ok)
    /\ UNCHANGED <<onFile, roots, misreads, restarts>>

ReadRoot(c) ==
    /\ call[c].pc = "recorded"
    /\ call' = [call EXCEPT ![c] = [pc |-> "read", root |-> Root(tree[Self])]]
    /\ UNCHANGED <<proofs, score, tree, index, file, onFile, roots, acked, unwritten, lost,
                   failures, misreads, restarts>>

\* try_send: a full channel drops the root.
OfferRoot(c) ==
    /\ call[c].pc = "read"
    /\ call' = [call EXCEPT ![c] = Waiting]
    /\ roots' = IF Len(roots) < QueueCap THEN Append(roots, call[c].root) ELSE roots
    /\ UNCHANGED <<proofs, score, tree, index, file, onFile, acked, unwritten, lost,
                   failures, misreads, restarts>>

\* The task that publishes the roots takes the next one.
Forward ==
    /\ roots # <<>>
    /\ roots' = Tail(roots)
    /\ UNCHANGED <<proofs, score, tree, index, file, onFile, call, acked, unwritten, lost,
                   failures, misreads, restarts>>

Nothing == [proofs |-> [n \in Nodes |-> <<>>], score |-> [n \in Nodes |-> NoScore]]

\* A file that does not parse counts as an empty one.
FromFile(stored) == IF stored.parses THEN [proofs |-> stored.proofs, score |-> stored.score] ELSE Nothing

\* The store of a new process: the file's, or, when that cannot be read, one in memory.
Load(stored, readable) ==
    LET data == IF readable THEN FromFile(stored) ELSE Nothing IN
    /\ file' = stored
    /\ onFile' = readable
    /\ proofs' = data.proofs
    /\ score' = data.score
    /\ tree' = proofs'
    /\ index' = [n \in Nodes |-> IndexOf(proofs'[n])]

\* The process ends anywhere between two steps and is started again on its file, which
\* may be damaged by then.
Restart(damaged, readable) ==
    /\ restarts < MaxRestarts
    /\ restarts' = restarts + 1
    /\ IF damaged \/ ~readable THEN misreads < MaxMisreads /\ misreads' = misreads + 1 ELSE UNCHANGED misreads
    /\ Load([file EXCEPT !.parses = @ /\ ~damaged], readable)
    /\ call' = [c \in Recorders |-> Waiting]
    /\ roots' = <<>>
    /\ lost' = lost \union (IF damaged THEN acked ELSE unwritten)
    /\ unwritten' = {}
    /\ UNCHANGED <<acked, failures>>

ReputationNext ==
    \/ \E c \in Recorders, id \in Ids, ok \in BOOLEAN : Record(c, id, ok)
    \/ \E c \in Recorders : ReadRoot(c) \/ OfferRoot(c)
    \/ Forward
    \/ \E damaged, readable \in BOOLEAN : Restart(damaged, readable)

ReputationSpec == ReputationInit /\ [][ReputationNext]_reputationVars

-----------------------------------------------------------------------------
(* Properties                                                              *)

\* The powers of two.
Doubled(n) == LET double[k \in 0..n] == IF k = 0 THEN 1 ELSE 2 * double[k - 1] IN double

\* In a tree of two proofs or more, a proof in its first full subtree has a path,
\* and every path handed out verifies its proof and no other against the root,
\* however the tree came about (merkle.rs:61-109, local.rs:240-254).  Whether it is the
\* tree that the node's proofs are in is not said: the daemon's is not (see Self).
PathsVerify ==
    LET size == Len(tree[Self])
        root == Root(tree[Self])
    IN \A id \in DOMAIN index[Self] :
          LET inFullTree == \E k \in 1..size : index[Self][id] < Doubled(size)[k] /\ Doubled(size)[k] <= size
              path == MerkleProof(id)
          IN size > 1 =>
                /\ inFullTree => HasProof(id)
                /\ HasProof(id) =>
                      \A other \in Ids : VerifyProof(other, path, root) <=> other = id

\* A proof whose recording returned is never missing, restarts included, but for those
\* that no flush wrote before a restart and those on a file that was damaged.  While the
\* node runs without the file that it could not read, the proofs on it are still there
\* for the next start (local.rs:101-157, daemon.rs:163-173).
RecordedSurvives ==
    \A id \in acked \ lost :
        \/ id \in DOMAIN index[NodeOf[id]]
        \/ ~onFile /\ id \in ToSet(file.proofs[NodeOf[id]])

\* A node's score counts the proofs that are kept and names the root their paths lead
\* to, also where the score was read from the file and the tree rebuilt
\* (local.rs:62-77, 101-125, 159-187).
ScoreIsOfTheTree ==
    \A n \in Nodes :
        /\ score[n].jobs = Cardinality(DOMAIN index[n]) /\ score[n].root = Root(tree[n])
        /\ score[n].verified = Cardinality({id \in Signed : id \in DOMAIN index[n]})

\* The store's proofs, paths and scores are right, through restarts (local.rs, merkle.rs).
ProofsAreKept == PathsVerify /\ RecordedSurvives /\ ScoreIsOfTheTree

\* Every recorded proof has a path that verifies against the root: what
\* verify_proof's comment (merkle.rs:90-94) and docs/paper.md:218 say.
EveryPathVerifies ==
    \A id \in DOMAIN index[Self] :
        /\ HasProof(id)
        /\ VerifyProof(id, MerkleProof(id), Root(tree[Self]))
==============================================================================
