------------------------------ MODULE BlobStore ------------------------------
(***************************************************************************)
(* The storage crate: put, get and delete of blobs in the four             *)
(* StorageClients.  A blob is named by what it holds, but for the memory   *)
(* client, which counts.  LocalStorageClient looks whether the file is     *)
(* there and writes it if not, in two steps of the file system and         *)
(* without a lock; the others ask a service, which is external.            *)
(***************************************************************************)
EXTENDS Integers

CONSTANTS
    Putters,      \* calls of put
    Contents,
    Media,        \* the backends of this run
    MaxBlobFaults \* bound: writes and calls that fail, answers lost, restarts

VARIABLES
    medium,    \* the backend
    content,   \* what each call puts
    putting,   \* where it is: "idle", "create", "fill", "sent", "acked", ...
    blob,      \* what each name holds: "absent", "torn", "whole"
    unpinned,  \* names IPFS may forget
    blobFaults,
    marred     \* history: names deleted, expired, or left half written

blobVars == <<medium, content, putting, blob, unpinned, blobFaults, marred>>

\* sha256 of the data, the CID, the Walrus id; or the next number.
Name(p) == IF medium = "memory" THEN p ELSE content[p]
Names == Putters \union Contents

BlobInit ==
    /\ medium \in Media /\ content \in [Putters -> Contents]
    /\ putting = [p \in Putters |-> "idle"]
    /\ blob = [n \in Names |-> "absent"]
    /\ unpinned = {} /\ blobFaults = 0 /\ marred = {}

BlobFault == blobFaults < MaxBlobFaults /\ blobFaults' = blobFaults + 1
PutGoes(p, to) == putting' = [putting EXCEPT ![p] = to]
Becomes(n, state) == blob' = [blob EXCEPT ![n] = state]

\* Mutated form: the test inverted.
Missing_Inverted(n) == blob[n] # "absent"

\* !path.exists()
Missing(n) == blob[n] = "absent"

PutLocal(p) ==
    /\ medium = "local" /\ putting[p] = "idle"
    /\ PutGoes(p, IF Missing(Name(p)) THEN "create" ELSE "acked")
    /\ UNCHANGED <<medium, content, blob, unpinned, blobFaults, marred>>

\* tokio::fs::write empties the file, whatever another call has made of it since,
\* and fills it.
Create(p) ==
    /\ putting[p] = "create"
    /\ PutGoes(p, "fill") /\ Becomes(Name(p), "torn")
    /\ UNCHANGED <<medium, content, unpinned, blobFaults, marred>>

Fill(p) ==
    /\ putting[p] = "fill"
    /\ PutGoes(p, "acked") /\ Becomes(Name(p), "whole")
    /\ marred' = marred \ {Name(p)}
    /\ UNCHANGED <<medium, content, unpinned, blobFaults>>

\* The file was unlinked while open: what is written to it is lost.
FillUnlinked(p) ==
    /\ putting[p] = "unlinked"
    /\ PutGoes(p, "acked")
    /\ UNCHANGED <<medium, content, blob, unpinned, blobFaults, marred>>

\* The disk is full: what is there stays there.
WriteFails(p) ==
    /\ putting[p] \in {"create", "fill"} /\ BlobFault
    /\ PutGoes(p, "failed")
    /\ marred' = IF blob[Name(p)] = "torn" THEN marred \union {Name(p)} ELSE marred
    /\ UNCHANGED <<medium, content, blob, unpinned>>

\* The memory client puts in one step.
PutMemory(p) ==
    /\ medium = "memory" /\ putting[p] = "idle"
    /\ PutGoes(p, "acked") /\ Becomes(Name(p), "whole")
    /\ UNCHANGED <<medium, content, unpinned, blobFaults, marred>>

\* The service has stored the blob, for the epochs asked or pinned,
PutRemote(p) ==
    /\ medium \in {"ipfs", "walrus"} /\ putting[p] = "idle"
    /\ PutGoes(p, "sent") /\ Becomes(Name(p), "whole")
    /\ unpinned' = unpinned \ {Name(p)} /\ marred' = marred \ {Name(p)}
    /\ UNCHANGED <<medium, content, blobFaults>>

\* and answers with its name, new or known already.
PutAnswered(p) ==
    /\ putting[p] = "sent"
    /\ PutGoes(p, "acked")
    /\ UNCHANGED <<medium, content, blob, unpinned, blobFaults, marred>>

\* The service is out of reach or refuses, or its answer is lost or does not parse.
RemotePutFails(p) ==
    /\ medium \in {"ipfs", "walrus"} /\ putting[p] \in {"idle", "sent"} /\ BlobFault
    /\ PutGoes(p, "failed")
    /\ UNCHANGED <<medium, content, blob, unpinned, marred>>

\* The holder of a name deletes it, whoever else has put the same: the file goes,
\* IPFS unpins or fails to and reports success, Walrus does nothing.
Delete(p) ==
    LET n == Name(p) IN
    /\ putting[p] = "acked"
    /\ \/ medium \in {"local", "memory"} /\ Becomes(n, "absent") /\ UNCHANGED <<unpinned, blobFaults>>
       \/ medium = "ipfs" /\ unpinned' = unpinned \union {n} /\ UNCHANGED <<blob, blobFaults>>
       \/ medium = "ipfs" /\ BlobFault /\ UNCHANGED <<blob, unpinned>>
       \/ medium = "walrus" /\ UNCHANGED <<blob, unpinned, blobFaults>>
    /\ putting' = [q \in Putters |->
          IF q = p THEN "deleted"
          ELSE IF putting[q] = "fill" /\ Name(q) = n THEN "unlinked" ELSE putting[q]]
    /\ marred' = IF medium = "walrus" THEN marred ELSE marred \union {n}
    /\ UNCHANGED <<medium, content>>

\* IPFS drops what is not pinned, Walrus what has been paid for long enough.
Forget(n) ==
    /\ medium = "walrus" \/ n \in unpinned
    /\ blob[n] = "whole"
    /\ Becomes(n, "absent") /\ marred' = marred \union {n}
    /\ UNCHANGED <<medium, content, putting, unpinned, blobFaults>>

\* The node restarts on the files as they are.
BlobRestart ==
    LET writing == {p \in Putters : putting[p] \in {"create", "fill", "unlinked", "sent"}} IN
    /\ medium # "memory" /\ BlobFault
    /\ putting' = [p \in Putters |-> IF p \in writing THEN "failed" ELSE putting[p]]
    /\ marred' = marred \union {Name(p) : p \in {q \in writing : blob[Name(q)] = "torn"}}
    /\ UNCHANGED <<medium, content, blob, unpinned>>

\* get: a name that holds nothing is an error.
Get(n) == IF blob[n] = "absent" THEN "not found" ELSE blob[n]

BlobNext ==
    \/ \E p \in Putters :
          PutLocal(p) \/ Create(p) \/ Fill(p) \/ FillUnlinked(p) \/ WriteFails(p)
            \/ PutMemory(p) \/ PutRemote(p) \/ PutAnswered(p) \/ RemotePutFails(p) \/ Delete(p)
    \/ \E n \in Names : Forget(n)
    \/ BlobRestart

BlobSpec == BlobInit /\ [][BlobNext]_blobVars
-----------------------------------------------------------------------------
(* Properties.                                                             *)

\* What get reads of a name that put has answered is the whole blob, unless another
\* put of the same is at work on the file, or since it was last written it was
\* deleted, expired, or torn by a failed write or a restart, which no later put
\* repairs (local.rs:52-100, ipfs.rs:80-165, walrus.rs:93-172).
BlobsReadBack ==
    \A p \in Putters : putting[p] = "acked" =>
        \/ Get(Name(p)) = "whole"
        \/ Name(p) \in marred
        \/ \E q \in Putters : putting[q] = "fill" /\ Name(q) = Name(p)
=============================================================================
