------------------------------ MODULE JobQueue ------------------------------
(***************************************************************************)
(* The job queue of the node: the HTTP handlers of /v1/infer and           *)
(* /v1/chat/completions (crates/node/src/api/mod.rs) on one side, the      *)
(* deadline watcher (crates/node/src/jobs.rs) on the other, and the        *)
(* JobStore they share (crates/persistence/src/job.rs).                    *)
(*                                                                         *)
(* A handler runs between two awaits without giving up its task, so one    *)
(* action is one such run: the store call it waited for, and everything up *)
(* to the next await.  The handler of r can be dropped at any await, when  *)
(* its client hangs up, and a replica can stop at any point.               *)
(*                                                                         *)
(* Durable = FALSE is the in-memory store, one per replica, lost with it.  *)
(* Durable = TRUE is the Postgres store: shared by the replicas, surviving *)
(* them, and every call of it can fail.                                    *)
(***************************************************************************)
EXTENDS Integers, FiniteSets

CONSTANTS Nodes,       \* replicas
          Requests,    \* request ids: each is a fresh v4 uuid, so each arrives once
          Home,        \* the replica each request is sent to
          Permits,     \* gpu.concurrent_jobs.max(1), per replica
          JobTimeout,  \* job_timeout_ms, in ticks of the clock
          Durable,     \* Postgres (TRUE) or in-memory (FALSE) job store
          MaxTime,     \* bound: the clock stops there
          MaxFaults,   \* bound: failed store calls and journal writes
          MaxCrashes,  \* bound: crashes of a replica
          None         \* no job

ASSUME ConstantsAssumption ==
    /\ IsFiniteSet(Requests)
    /\ Home \in [Requests -> Nodes]
    /\ Permits \in Nat \ {0}
    /\ JobTimeout \in Nat
    /\ MaxTime \in Nat
    /\ MaxFaults \in Nat
    /\ MaxCrashes \in Nat
    /\ Durable \in BOOLEAN
    /\ None \notin Requests

VARIABLES now,        \* wall clock
          status,     \* the store: JobStatus of each request, "absent" when it has no record
          deadline,   \* the deadline_ms of each record
          pc,         \* where the handler of each request is
          sem,        \* available permits of inference_sem, per replica
          gauge,      \* CONCURRENT_REQUESTS, per replica
          jobsTotal,  \* JOBS_TOTAL by outcome, per replica
          journal,    \* requests with a line in jobs.ndjson
          batch,      \* jobs of the watcher's `due` snapshot still to compensate
          cur,        \* the job the watcher has marked TimedOut and not yet Failed
          faults, crashes   \* how many there were

store    == <<status, deadline>>
handlers == <<pc, sem, gauge>>
watcher  == <<batch, cur>>
outside  == <<now, faults, crashes>>
vars == <<now, status, deadline, pc, sem, gauge, jobsTotal, journal, batch, cur,
          faults, crashes>>

Statuses == {"absent", "Dispatched", "Completed", "TimedOut", "Failed"}
Terminal == {"Completed", "Failed"}
Outcomes == {"completed", "timed_out", "failed"}

\* The awaits at which a handler holds its permit, and those of them before
\* the engine has answered.
Running == {"push", "infer"}
Holding == Running \union {"complete", "fail", "settle"}
Ended   == {"ok", "error", "capacity", "dropped", "crashed"}

Inside(n)   == {r \in Requests : Home[r] = n /\ pc[r] \in Holding}
InFlight(n) == {r \in Requests : Home[r] = n /\ pc[r] \in Running}

Init ==
    /\ now = 0
    /\ status = [r \in Requests |-> "absent"]
    /\ deadline = [r \in Requests |-> 0]
    /\ pc = [r \in Requests |-> "idle"]
    /\ sem = [n \in Nodes |-> Permits]
    /\ gauge = [n \in Nodes |-> 0]
    /\ jobsTotal = [n \in Nodes |-> [o \in Outcomes |-> 0]]
    /\ journal = {}
    /\ batch = [n \in Nodes |-> {}]
    /\ cur = [n \in Nodes |-> None]
    /\ faults = 0
    /\ crashes = 0

-----------------------------------------------------------------------------
(* The store.  mark and complete overwrite the status of a record whatever *)
(* it was, and do nothing when there is no record.                         *)

mark(r, s) ==
    status' = [status EXCEPT ![r] = IF @ = "absent" THEN @ ELSE s]

push(r) ==
    status' = [status EXCEPT ![r] = IF @ = "absent" THEN "Dispatched" ELSE @]

\* Variants of `due` with a plausible slip each, for checking that the
\* properties notice it: no status filter; TimedOut and Failed jobs offered
\* again; jobs offered a tick early; a strict comparison with the deadline.
due_AnyStatus(n)  == {r \in Requests : /\ Durable \/ Home[r] = n
                                       /\ status[r] # "absent"
                                       /\ deadline[r] <= now}
due_Unfinished(n) == {r \in Requests : /\ Durable \/ Home[r] = n
                                       /\ status[r] \notin {"absent", "Completed"}
                                       /\ deadline[r] <= now}
due_Early(n)      == {r \in Requests : /\ Durable \/ Home[r] = n
                                       /\ status[r] = "Dispatched"
                                       /\ deadline[r] <= now + 1}
due_Strict(n)     == {r \in Requests : /\ Durable \/ Home[r] = n
                                       /\ status[r] = "Dispatched"
                                       /\ deadline[r] < now}

\* The records the store of n returns for due(now).
due(n) == {r \in Requests : /\ Durable \/ Home[r] = n
                            /\ status[r] = "Dispatched"
                            /\ deadline[r] <= now}

\* A call that fails leaves its data as it was.
Fault == /\ faults < MaxFaults
         /\ faults' = faults + 1

StoreFault == Durable /\ Fault

Count(n, o) == jobsTotal' = [jobsTotal EXCEPT ![n][o] = @ + 1]

-----------------------------------------------------------------------------
(* The handler of request r on its replica.                                *)

Goto(r, from, to) ==
    /\ pc[r] = from
    /\ pc' = [pc EXCEPT ![r] = to]

DropPermit(r) == sem' = [sem EXCEPT ![Home[r]] = @ + 1]

\* Variant: off by one, a request beyond the last permit gets in.
Admit_OneTooMany(r) ==
    /\ sem[Home[r]] >= 0
    /\ now + JobTimeout <= MaxTime
    /\ Goto(r, "idle", "push")
    /\ sem' = [sem EXCEPT ![Home[r]] = @ - 1]
    /\ gauge' = [gauge EXCEPT ![Home[r]] = @ + 1]
    /\ deadline' = [deadline EXCEPT ![r] = now + JobTimeout]
    /\ UNCHANGED <<status, jobsTotal, journal, watcher, outside>>

\* The gate is open: take a permit, start the job record and its deadline.
\* Bound: a request arrives early enough for its deadline to be on the clock.
Admit(r) ==
    /\ sem[Home[r]] > 0
    /\ now + JobTimeout <= MaxTime
    /\ Goto(r, "idle", "push")
    /\ sem' = [sem EXCEPT ![Home[r]] = @ - 1]
    /\ gauge' = [gauge EXCEPT ![Home[r]] = @ + 1]
    /\ deadline' = [deadline EXCEPT ![r] = now + JobTimeout]
    /\ UNCHANGED <<status, jobsTotal, journal, watcher, outside>>

\* No permit left: ApiError::Capacity at once.
Refuse(r) ==
    /\ sem[Home[r]] = 0
    /\ Goto(r, "idle", "capacity")
    /\ UNCHANGED <<store, sem, gauge, jobsTotal, journal, watcher, outside>>

\* push(..).await.ok(): a failed push is ignored, the inference runs untracked.
Push(r) ==
    /\ Goto(r, "push", "infer")
    /\ \/ push(r) /\ UNCHANGED faults
       \/ StoreFault /\ UNCHANGED status
    /\ UNCHANGED <<deadline, sem, gauge, jobsTotal, journal, watcher, now, crashes>>

\* The engine answered (a stream with failed chunks counts as an answer):
\* the gauge goes down and the journal line is written, or its loss logged.
InferOk(r) ==
    /\ Goto(r, "infer", "complete")
    /\ gauge' = [gauge EXCEPT ![Home[r]] = @ - 1]
    /\ \/ journal' = journal \union {r} /\ UNCHANGED faults
       \/ Fault /\ UNCHANGED journal
    /\ UNCHANGED <<store, sem, jobsTotal, watcher, now, crashes>>

InferErr(r) ==
    /\ Goto(r, "infer", "fail")
    /\ gauge' = [gauge EXCEPT ![Home[r]] = @ - 1]
    /\ UNCHANGED <<store, sem, jobsTotal, journal, watcher, outside>>

\* complete(..).await.ok(), counted even when the call failed.
Complete(r) ==
    /\ Goto(r, "complete", "settle")
    /\ \/ mark(r, "Completed") /\ UNCHANGED faults
       \/ StoreFault /\ UNCHANGED status
    /\ Count(Home[r], "completed")
    /\ UNCHANGED <<deadline, sem, gauge, journal, watcher, now, crashes>>

\* The engine failed: mark(Failed).await.ok(), counted, and answer.
FailHandler(r) ==
    /\ Goto(r, "fail", "error")
    /\ \/ mark(r, "Failed") /\ UNCHANGED faults
       \/ StoreFault /\ UNCHANGED status
    /\ Count(Home[r], "failed")
    /\ DropPermit(r)
    /\ UNCHANGED <<deadline, gauge, journal, watcher, now, crashes>>

\* The turn is saved and the job settled (see Settlement): answer.
Respond(r) ==
    /\ Goto(r, "settle", "ok")
    /\ DropPermit(r)
    /\ UNCHANGED <<store, gauge, jobsTotal, journal, watcher, outside>>

\* Variant: a guard lowers the gauge on every drop, on top of the handler's code.
Disconnect_LowersGauge(r) ==
    /\ pc[r] \in Holding
    /\ pc' = [pc EXCEPT ![r] = "dropped"]
    /\ DropPermit(r)
    /\ gauge' = [gauge EXCEPT ![Home[r]] = @ - 1]
    /\ UNCHANGED <<store, jobsTotal, journal, watcher, outside>>

\* The client hangs up: the handler's future is dropped where it waits.  Its
\* permit goes back; the gauge is only ever lowered by the handler's own code.
Disconnect(r) ==
    /\ pc[r] \in Holding
    /\ pc' = [pc EXCEPT ![r] = "dropped"]
    /\ DropPermit(r)
    /\ UNCHANGED <<store, gauge, jobsTotal, journal, watcher, outside>>

-----------------------------------------------------------------------------
(* The deadline watcher of replica n.                                      *)

\* due(now): a snapshot; the store is unlocked while its jobs are handled.
\* (`now` is read just before: a later clock only adds jobs, which are left
\* to the next tick.)
Sweep(n) ==
    /\ batch[n] = {} /\ cur[n] = None
    /\ due(n) # {}
    /\ batch' = [batch EXCEPT ![n] = due(n)]
    /\ UNCHANGED <<store, handlers, jobsTotal, journal, cur, outside>>

\* A failing call ends the sweep by `?`: the rest of the snapshot is dropped.
AbortSweep(n) ==
    /\ StoreFault
    /\ batch' = [batch EXCEPT ![n] = {}]
    /\ cur' = [cur EXCEPT ![n] = None]
    /\ UNCHANGED <<status, jobsTotal>>

TimeOut(n) ==
    /\ cur[n] = None
    /\ \E r \in batch[n] :
          \/ /\ mark(r, "TimedOut")
             /\ Count(n, "timed_out")
             /\ cur' = [cur EXCEPT ![n] = r]
             /\ batch' = [batch EXCEPT ![n] = @ \ {r}]
             /\ UNCHANGED faults
          \/ AbortSweep(n)
    /\ UNCHANGED <<deadline, handlers, journal, now, crashes>>

\* Variant: the second mark of the compensation is forgotten.
Fail_NoMark(n) ==
    /\ cur[n] # None
    /\ Count(n, "failed")
    /\ cur' = [cur EXCEPT ![n] = None]
    /\ UNCHANGED <<store, handlers, journal, batch, outside>>

Fail(n) ==
    /\ cur[n] # None
    /\ \/ /\ mark(cur[n], "Failed")
          /\ Count(n, "failed")
          /\ cur' = [cur EXCEPT ![n] = None]
          /\ UNCHANGED <<batch, faults>>
       \/ AbortSweep(n)
    /\ UNCHANGED <<deadline, handlers, journal, now, crashes>>

-----------------------------------------------------------------------------
(* The environment.                                                        *)

Tick ==
    /\ now < MaxTime
    /\ now' = now + 1
    /\ UNCHANGED <<store, handlers, jobsTotal, journal, watcher, faults, crashes>>

\* The process of n dies and starts again: its handlers, permits, metrics,
\* watcher and in-memory store are gone; Postgres and the journal file stay.
Crash(n) ==
    /\ crashes < MaxCrashes
    /\ crashes' = crashes + 1
    /\ pc' = [r \in Requests |-> IF r \in Inside(n) THEN "crashed" ELSE pc[r]]
    /\ sem' = [sem EXCEPT ![n] = Permits]
    /\ gauge' = [gauge EXCEPT ![n] = 0]
    /\ jobsTotal' = [jobsTotal EXCEPT ![n] = [o \in Outcomes |-> 0]]
    /\ batch' = [batch EXCEPT ![n] = {}]
    /\ cur' = [cur EXCEPT ![n] = None]
    /\ status' = [r \in Requests |->
                     IF ~Durable /\ Home[r] = n THEN "absent" ELSE status[r]]
    /\ UNCHANGED <<deadline, journal, now, faults>>

Handler(r) == \/ Admit(r) \/ Refuse(r) \/ Push(r) \/ InferOk(r) \/ InferErr(r)
              \/ Complete(r) \/ FailHandler(r) \/ Respond(r) \/ Disconnect(r)

Watcher(n) == Sweep(n) \/ TimeOut(n) \/ Fail(n)

Next == \/ \E r \in Requests : Handler(r)
        \/ \E n \in Nodes : Watcher(n) \/ Crash(n)
        \/ Tick

Spec == Init /\ [][Next]_vars

\* The clock runs and every watcher keeps ticking.  Nothing is assumed of the
\* handlers: the engine may hang, and a hung job is what the watcher is for.
Fairness == /\ WF_vars(Tick)
            /\ \A n \in Nodes : WF_vars(Watcher(n))

FairSpec == Spec /\ Fairness

-----------------------------------------------------------------------------
(* Properties.                                                             *)

\* Every variable stays within its range; the gate never holds more permits
\* than it was made with.
TypeOK ==
    /\ now \in 0..MaxTime
    /\ status \in [Requests -> Statuses]
    /\ deadline \in [Requests -> 0..MaxTime]
    /\ pc \in [Requests -> {"idle"} \union Holding \union Ended]
    /\ sem \in [Nodes -> 0..Permits]
    /\ gauge \in [Nodes -> Int]
    /\ jobsTotal \in [Nodes -> [Outcomes -> Nat]]
    /\ journal \subseteq Requests
    /\ batch \in [Nodes -> SUBSET Requests]
    /\ cur \in [Nodes -> Requests \union {None}]
    /\ faults \in 0..MaxFaults
    /\ crashes \in 0..MaxCrashes

\* On every path out of a handler - answer, engine error, hang-up, crash - its
\* permit goes back exactly once: permits left and handlers inside add up.
PermitsConserved ==
    \A n \in Nodes : sem[n] + Cardinality(Inside(n)) = Permits

\* CONCURRENT_REQUESTS may leak upwards when a client hangs up during
\* inference, but it never shows fewer requests than are in the engine.
GaugeNeverUndercounts ==
    \A n \in Nodes : gauge[n] >= Cardinality(InFlight(n))

\* The watcher only ever holds, or has timed out, jobs past their deadline.
CompensatedOnlyOverdue ==
    /\ \A n \in Nodes : \A r \in batch[n] : deadline[r] <= now
    /\ \A r \in Requests : status[r] = "TimedOut" => deadline[r] <= now

\* A job already completed when a sweep takes its snapshot is neither put in
\* the snapshot nor overwritten: only completions during a sweep are at risk.
CompletedBeforeSweepIsSafe ==
    [][\A r \in Requests :
          /\ status[r] = "Completed"
          /\ \A n \in Nodes : r \notin batch[n] /\ cur[n] # r
          => /\ status'[r] \in {"Completed"} \union (IF Durable THEN {} ELSE {"absent"})
             /\ \A n \in Nodes : r \notin batch'[n]]_vars

\* With one watcher per store, a job is counted timed_out at most once: a job
\* that left Dispatched is never offered to the watcher again.
CompensatedAtMostOnce ==
    \A n \in Nodes :
        jobsTotal[n]["timed_out"]
            <= Cardinality({r \in Requests : Home[r] = n /\ pc[r] # "idle" /\ deadline[r] <= now})

\* In the in-memory store a TimedOut job is always in the hands of a watcher
\* that is about to fail it ("pending a compensating action").
TimedOutIsPending ==
    \A r \in Requests : status[r] = "TimedOut" => \E n \in Nodes : cur[n] = r

\* In Postgres a job is left TimedOut with no watcher at it only by a crash or
\* a failed call, one job for each.
Orphans == {r \in Requests : status[r] = "TimedOut" /\ \A n \in Nodes : cur[n] # r}
OrphansNeedInterruptions == Cardinality(Orphans) <= faults + crashes

\* A dispatched job is eventually completed or failed, or lost with the store.
JobResolved ==
    \A r \in Requests :
        status[r] = "Dispatched" ~> status[r] \notin {"Dispatched", "TimedOut"}

\* A dispatched job is eventually picked up, by the watcher of whatever
\* replica, in spite of crashes and failing store calls.
DispatchedIsPickedUp ==
    \A r \in Requests : status[r] = "Dispatched" ~> status[r] # "Dispatched"

\* "A completed job is never compensated even if past its deadline."
CompletedNeverCompensated ==
    [][\A r \in Requests :
          status[r] = "Completed" => status'[r] \notin {"TimedOut", "Failed"}]_vars

\* The gates of the replicas implement the abstract semaphore: a request gets
\* in only while fewer than Permits are inside, and only once.
Gate == INSTANCE Semaphore WITH Gates  <- Nodes,
                                Users  <- Requests,
                                Limit  <- Permits,
                                Size   <- Cardinality,
                                inside <- [n \in Nodes |-> Inside(n)]
GateSpec == Gate!Spec
=============================================================================
