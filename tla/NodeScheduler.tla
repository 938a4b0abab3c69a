---------------------------- MODULE NodeScheduler ----------------------------
(***************************************************************************)
(* NodeScheduler: jobs wait in a queue for one of the slots of a GPU.      *)
(*                                                                         *)
(* submit reads the depth of the queue under its lock and pushes the job   *)
(* under it again; the task it spawns takes a permit, moves the job from   *)
(* the queue to the active jobs, does the work, which is to open a stream, *)
(* and hands the stream over.  Then the job is active no more and its slot *)
(* free, though the engine generates for as long as its caller reads.      *)
(* Three locks and a semaphore, and no step holds two of them.  Only the   *)
(* crate's tests call submit.                                              *)
(***************************************************************************)
EXTENDS Integers, Sequences, FiniteSets

CONSTANTS Callers,     \* who submits, one job at a time
          Jobs, NoJob,
          MaxConcurrent, MaxQueue

ASSUME SchedulerAssumption ==
    /\ IsFiniteSet(Callers) /\ IsFiniteSet(Jobs) /\ Callers # {}
    /\ NoJob \notin Jobs
    /\ MaxConcurrent \in Nat \ {0} /\ MaxQueue \in Nat

VARIABLES
    caller,  \* the job each caller has been told there is room for, if any
    task,    \* where the task of each job is
    queue,   \* the ids that wait; nobody reads in which order
    active,  \* the ids that count as running
    waiting, \* the tasks the semaphore has queued
    free,    \* its permits
    streams, \* the jobs whose stream a caller holds
    receipt  \* what each caller of submit, or of the receipt, was given

schedulerVars == <<caller, task, queue, active, waiting, free, streams, receipt>>

Refused == "SchedulerFull"

SchedulerInit ==
    /\ caller = [c \in Callers |-> NoJob]
    /\ task = [j \in Jobs |-> "none"]
    /\ queue = {} /\ active = {}
    /\ waiting = <<>> /\ free = MaxConcurrent /\ streams = {}
    /\ receipt = [j \in Jobs |-> "none"]

-----------------------------------------------------------------------------
(* submit.                                                                 *)

\* Mutated form: one more than the queue may hold.
HasRoom_OffByOne(q) == Cardinality(q) <= MaxQueue

HasRoom(q) == Cardinality(q) < MaxQueue

\* The depth is read, and the lock is free again.
ReadDepth(c, j) ==
    /\ caller[c] = NoJob
    /\ task[j] = "none" /\ receipt[j] = "none" /\ \A d \in Callers : caller[d] # j
    /\ IF HasRoom(queue)
       THEN caller' = [caller EXCEPT ![c] = j] /\ UNCHANGED receipt
       ELSE receipt' = [receipt EXCEPT ![j] = Refused] /\ UNCHANGED caller
    /\ UNCHANGED <<task, queue, active, waiting, free, streams>>

\* The job is pushed and its task spawned.
Push(c) ==
    /\ caller[c] # NoJob
    /\ queue' = queue \union {caller[c]}
    /\ task' = [task EXCEPT ![caller[c]] = "spawned"]
    /\ caller' = [caller EXCEPT ![c] = NoJob]
    /\ UNCHANGED <<active, waiting, free, streams, receipt>>

\* The caller is dropped between the two.
GiveUp(c) ==
    /\ caller[c] # NoJob
    /\ receipt' = [receipt EXCEPT ![caller[c]] = "dropped"]
    /\ caller' = [caller EXCEPT ![c] = NoJob]
    /\ UNCHANGED <<task, queue, active, waiting, free, streams>>

-----------------------------------------------------------------------------
(* The task of a job.                                                      *)

Step(j, from, to) == task[j] = from /\ task' = [task EXCEPT ![j] = to]

\* semaphore.acquire() takes a permit at once or waits its turn.
Acquire(j) ==
    /\ task[j] = "spawned"
    /\ IF free > 0
       THEN Step(j, "spawned", "permit") /\ free' = free - 1 /\ UNCHANGED waiting
       ELSE Step(j, "spawned", "waiting") /\ waiting' = Append(waiting, j) /\ UNCHANGED free
    /\ UNCHANGED <<caller, queue, active, streams, receipt>>

\* retain(|id| *id != request_id)
LeaveQueue(j) ==
    /\ Step(j, "permit", "dequeued")
    /\ queue' = queue \ {j}
    /\ UNCHANGED <<caller, active, waiting, free, streams, receipt>>

Activate(j) ==
    /\ Step(j, "dequeued", "working")
    /\ active' = active \union {j}
    /\ UNCHANGED <<caller, queue, waiting, free, streams, receipt>>

\* The work ends, with a stream or an error, and the receipt is told.  The stream of
\* a job whose caller has dropped its receipt is dropped with it.
Answer(j) ==
    /\ Step(j, "working", "answered")
    /\ receipt' = [receipt EXCEPT ![j] = "answer"]
    /\ streams' \in {streams, streams \union {j}}
    /\ UNCHANGED <<caller, queue, active, waiting, free>>

Deactivate(j) ==
    /\ Step(j, "answered", "inactive")
    /\ active' = active \ {j}
    /\ UNCHANGED <<caller, queue, waiting, free, streams, receipt>>

\* A dropped permit goes to the task that has waited longest.
GiveBack(j, end) ==
    IF waiting = <<>>
    THEN /\ task' = [task EXCEPT ![j] = end]
         /\ free' = free + 1 /\ UNCHANGED waiting
    ELSE /\ task' = [task EXCEPT ![j] = end, ![Head(waiting)] = "permit"]
         /\ waiting' = Tail(waiting) /\ UNCHANGED free

\* Mutated form: the permit is forgotten.
Release_Forget(j) ==
    /\ Step(j, "inactive", "done")
    /\ UNCHANGED <<waiting, free, caller, queue, active, streams, receipt>>

\* The task ends, and drops its permit.
Release(j) ==
    /\ task[j] = "inactive"
    /\ GiveBack(j, "done")
    /\ UNCHANGED <<caller, queue, active, streams, receipt>>

\* The work panics: the permit and the sender are dropped, the job stays active.
Panic(j) ==
    /\ task[j] = "working"
    /\ GiveBack(j, "panicked")
    /\ receipt' = [receipt EXCEPT ![j] = "closed"]
    /\ UNCHANGED <<caller, queue, active, streams>>

\* The caller has read the stream to its end, or drops it.
StreamDropped(j) ==
    /\ j \in streams
    /\ streams' = streams \ {j}
    /\ UNCHANGED <<caller, task, queue, active, waiting, free, receipt>>

Task(j) ==
    Acquire(j) \/ LeaveQueue(j) \/ Activate(j) \/ Answer(j) \/ Deactivate(j) \/ Release(j)

SchedulerNext ==
    \/ \E c \in Callers : Push(c) \/ GiveUp(c) \/ \E j \in Jobs : ReadDepth(c, j)
    \/ \E j \in Jobs : Task(j) \/ Panic(j) \/ StreamDropped(j)

SchedulerSpec == SchedulerInit /\ [][SchedulerNext]_schedulerVars

\* The executor runs every task, and the work of every job ends.
SchedulerFairSpec == SchedulerSpec /\ \A j \in Jobs : WF_schedulerVars(Task(j))

-----------------------------------------------------------------------------
(* Properties.                                                             *)

Holding == {"permit", "dequeued", "working", "answered", "inactive"}
Held == {j \in Jobs : task[j] \in Holding}
Opening == {j \in Jobs : task[j] \in {"working", "answered"}}
Panicked == {j \in Jobs : task[j] = "panicked"}

\* Every variable has its type.
SchedulerTypeOK ==
    /\ caller \in [Callers -> Jobs \union {NoJob}]
    /\ task \in [Jobs -> {"none", "spawned", "waiting", "done", "panicked"} \union Holding]
    /\ queue \subseteq Jobs /\ active \subseteq Jobs
    /\ waiting \in Seq(Jobs) /\ free \in Nat /\ streams \subseteq Jobs
    /\ receipt \in [Jobs -> {"none", Refused, "dropped", "answer", "closed"}]

\* "If a GPU slot is free it starts immediately.  If all slots are busy ... it waits":
\* every permit is free or held by one task, panics included, and none is free while a
\* task waits for one (scheduler.rs:80-84, 105-107).
SlotsAreUsed ==
    /\ Cardinality(Held) + free = MaxConcurrent
    /\ waiting # <<>> => free = 0

\* What active_count() tells: the jobs that are at their work, which is to open a
\* stream, and those that panicked at it, for good (scheduler.rs:112-124), where its
\* comment says "currently running on the GPU" (scheduler.rs:131).
ActiveIsOpening == active = Opening \union Panicked

\* A stream that is being read is of a job whose work is over, whose slot is free or about
\* to be: what is generated at a time is not bounded by the slots, and is not among the
\* active jobs until "the caller drops the stream", though the comments say both
\* (scheduler.rs:3, 122).
StreamsOutliveSlots == \A j \in streams : task[j] \in {"answered", "inactive", "done"}

\* The depth that was read may be out of date when the job is pushed: the queue,
\* "bounded" by the comment (scheduler.rs:3-4), is too long by one job for every other
\* caller at most (scheduler.rs:86-101).
QueueOvershoot ==
    Cardinality(queue) <= MaxQueue + Cardinality(Callers) - 1

\* "so queue_depth() is accurate": the queue is the jobs that were pushed and whose
\* tasks have not taken them out (scheduler.rs:100-101, 109-110).
QueueIsAccurate == queue = {j \in Jobs : task[j] \in {"spawned", "waiting", "permit"}}

\* What the semaphore, the queue and the active jobs say of the tasks and their streams
\* (scheduler.rs:80-139).
SchedulerCounts ==
    SlotsAreUsed /\ ActiveIsOpening /\ StreamsOutliveSlots /\ QueueOvershoot /\ QueueIsAccurate

\* A job that was pushed is answered, or its receipt closed by a panic.
JobsAreAnswered ==
    \A j \in Jobs : task[j] = "spawned" ~> receipt[j] \in {"answer", "closed"}
==============================================================================
